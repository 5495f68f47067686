\* Two requests for one slot; a window too short to matter.
SPECIFICATION FairSpec
CONSTANTS
  Req = {r1, r2}
  MaxInflight = 1
  PerMinute = 2
  Window = 1
  LastTick = 1
  Events = 2
PROPERTIES
  SlotsComeBack
