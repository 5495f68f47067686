---------------------------- MODULE GatewayProofs ----------------------------
(* What TLAPS proves about Gateway, for any requests and any limits. *)
EXTENDS Gateway, FiniteSetTheorems, SequenceTheorems, TLAPS

\* Pruning keeps a sequence of times.
LEMMA PruneTyped == Typed => Prune \in Seq(0..LastTick)
<1> SUFFICES ASSUME Typed PROVE Prune \in Seq(0..LastTick)
  OBVIOUS
<1> DEFINE old == {i \in 1..Len(recent) : \A j \in 1..i : recent[j] < now - Window}
<1>1. recent \in Seq(0..LastTick) /\ Len(recent) \in Nat
  BY DEF Typed
<1>2. IsFiniteSet(old)
  <2>1. IsFiniteSet(1..Len(recent))
    BY <1>1, FS_Interval
  <2>2. old \in SUBSET (1..Len(recent))
    OBVIOUS
  <2> QED
    BY <2>1, <2>2, FS_Subset
<1>3. Cardinality(old) \in Nat
  BY <1>2, FS_CardinalityType
<1> HIDE DEF old
<1>4. \A i \in Cardinality(old) + 1..Len(recent) : recent[i] \in 0..LastTick
  <2> SUFFICES ASSUME NEW i \in Cardinality(old) + 1..Len(recent)
               PROVE  recent[i] \in 0..LastTick
    OBVIOUS
  <2>1. i \in 1..Len(recent)
    BY <1>1, <1>3
  <2> QED
    BY <1>1, <2>1, ElementOfSeq
<1>5. SubSeq(recent, Cardinality(old) + 1, Len(recent)) \in Seq(0..LastTick)
  BY <1>1, <1>3, <1>4, SubSeqProperties
<1> QED
  BY <1>5 DEF Prune, old

\* Every variable keeps its type.
LEMMA TypedInit == Init => Typed
<1> SUFFICES ASSUME Init PROVE Typed
  OBVIOUS
<1>1. stopping \in BOOLEAN
  BY Zenon DEF Init
<1> QED
  BY <1>1, LimitAssumption DEF Init, Typed, Place, Task, ReplyKind, Never

LEMMA TypedStep ==
  ASSUME Typed, [Next]_vars
  PROVE  Typed'
<1> USE LimitAssumption DEF Typed, Place, Task, ReplyKind, Never, Goto, Send, Leave, Unwind, guardVars
<1>1. ASSUME NEW r \in Req, Reject(r) PROVE Typed'
  BY <1>1 DEF Reject
<1>2. ASSUME NEW r \in Req, Refuse(r) PROVE Typed'
  <2>1. recent' \in Seq(0..LastTick)
    BY <1>2, PruneTyped DEF Refuse
  <2> QED
    BY <1>2, <2>1 DEF Refuse
<1>3. ASSUME NEW r \in Req, Admit(r) PROVE Typed'
  <2>1. now \in 0..LastTick /\ Prune \in Seq(0..LastTick)
    BY PruneTyped
  <2>2. recent' \in Seq(0..LastTick)
    BY <1>3, <2>1, AppendProperties DEF Admit
  <2> QED
    BY <1>3, <2>2 DEF Admit
<1>4. ASSUME NEW r \in Req, BodyEnds(r) PROVE Typed'
  <2>1. /\ at' = [at EXCEPT ![r] = "done"] /\ active' = active - 1
        /\ UNCHANGED <<now, recent, admitted, gone, stopping, op, sent>>
    BY <1>4 DEF BodyEnds
  <2>2. reply' = reply \/ \E kind \in ReplyKind : reply' = [reply EXCEPT ![r] = kind]
    BY <1>4 DEF BodyEnds
  <2>3. reply' \in [Req -> ReplyKind]
    BY <2>2
  <2>4. at' \in [Req -> Place] /\ active' \in Int
    BY <2>1
  <2> QED
    BY <2>1, <2>3, <2>4
<1>5. ASSUME NEW r \in Req, Begin(r) PROVE Typed'
  BY <1>5 DEF Begin
<1>6. ASSUME NEW r \in Req, OpEnds(r) PROVE Typed'
  BY <1>6 DEF OpEnds
<1>7. ASSUME NEW r \in Req, OpStops(r) PROVE Typed'
  BY <1>7 DEF OpStops
<1>8. ASSUME NEW r \in Req, WatcherFires(r) PROVE Typed'
  BY <1>8 DEF WatcherFires
<1>9. ASSUME NEW r \in Req, Deadline(r) PROVE Typed'
  BY <1>9 DEF Deadline
<1>10. ASSUME NEW r \in Req, Unwound(r) PROVE Typed'
  BY <1>10 DEF Unwound
<1>11. ASSUME NEW r \in Req, Answer(r) PROVE Typed'
  <2>1. /\ at' = [at EXCEPT ![r] = "done"] /\ active' = active - 1
        /\ UNCHANGED <<now, recent, admitted, gone, stopping, op, sent>>
    BY <1>11 DEF Answer
  <2>2. \E kind \in ReplyKind : reply' = [reply EXCEPT ![r] = kind]
    BY <1>11 DEF Answer
  <2> QED
    BY <2>1, <2>2
<1>12. ASSUME NEW r \in Req, StartStream(r) PROVE Typed'
  BY <1>12 DEF StartStream
<1>13. ASSUME NEW r \in Req, SendEvent(r) PROVE Typed'
  BY <1>13 DEF SendEvent
<1>14. ASSUME NEW r \in Req, StreamEnds(r) PROVE Typed'
  BY <1>14 DEF StreamEnds
<1>15. ASSUME NEW r \in Req, Disconnect(r) PROVE Typed'
  BY <1>15 DEF Disconnect
<1>16. ASSUME NEW r \in Req, Cancel(r) PROVE Typed'
  <2>1. CASE Leave(r) /\ UNCHANGED <<op, reply, sent>>
    BY <2>1
  <2>2. CASE Unwind(r, "cancelled")
    BY <2>2
  <2>3. CASE Send(r, "cancelled") /\ UNCHANGED <<now, guardVars, at, op, sent, gone, stopping>>
    BY <2>3
  <2> QED
    BY <1>16, <2>1, <2>2, <2>3 DEF Cancel
<1>17. CASE Tick
  BY <1>17 DEF Tick
<1>18. CASE Stop
  BY <1>18 DEF Stop
<1>19. CASE UNCHANGED vars
  BY <1>19 DEF vars
<1> QED
  BY <1>1, <1>2, <1>3, <1>4, <1>5, <1>6, <1>7, <1>8, <1>9, <1>10, <1>11, <1>12,
     <1>13, <1>14, <1>15, <1>16, <1>17, <1>18, <1>19
  DEF Next, Progress, Terminating

\* Where an operation can be, by the place of its request.
LEMMA OpStep ==
  ASSUME Typed, OpInv, [Next]_vars
  PROVE  OpInv'
<1> USE LimitAssumption DEF Typed, OpInv, Place, Task, ReplyKind, Goto, Send, Leave, Unwind, guardVars
<1>1. ASSUME NEW r \in Req, Reject(r) PROVE OpInv'
  BY <1>1 DEF Reject
<1>2. ASSUME NEW r \in Req, Refuse(r) PROVE OpInv'
  BY <1>2 DEF Refuse
<1>3. ASSUME NEW r \in Req, Admit(r) PROVE OpInv'
  BY <1>3 DEF Admit
<1>4. ASSUME NEW r \in Req, BodyEnds(r) PROVE OpInv'
  BY <1>4 DEF BodyEnds
<1>5. ASSUME NEW r \in Req, Begin(r) PROVE OpInv'
  BY <1>5 DEF Begin
<1>6. ASSUME NEW r \in Req, OpEnds(r) PROVE OpInv'
  BY <1>6 DEF OpEnds
<1>7. ASSUME NEW r \in Req, OpStops(r) PROVE OpInv'
  BY <1>7 DEF OpStops
<1>8. ASSUME NEW r \in Req, WatcherFires(r) PROVE OpInv'
  BY <1>8 DEF WatcherFires
<1>9. ASSUME NEW r \in Req, Deadline(r) PROVE OpInv'
  BY <1>9 DEF Deadline
<1>10. ASSUME NEW r \in Req, Unwound(r) PROVE OpInv'
  BY <1>10 DEF Unwound
<1>11. ASSUME NEW r \in Req, Answer(r) PROVE OpInv'
  BY <1>11 DEF Answer
<1>12. ASSUME NEW r \in Req, StartStream(r) PROVE OpInv'
  BY <1>12 DEF StartStream
<1>13. ASSUME NEW r \in Req, SendEvent(r) PROVE OpInv'
  BY <1>13 DEF SendEvent
<1>14. ASSUME NEW r \in Req, StreamEnds(r) PROVE OpInv'
  BY <1>14 DEF StreamEnds
<1>15. ASSUME NEW r \in Req, Disconnect(r) PROVE OpInv'
  BY <1>15 DEF Disconnect
<1>16. ASSUME NEW r \in Req, Cancel(r) PROVE OpInv'
  <2>1. CASE at[r] \in {"body", "stream"} /\ Leave(r) /\ UNCHANGED <<op, reply, sent>>
    BY <2>1
  <2>2. CASE at[r] = "work" /\ Unwind(r, "cancelled")
    BY <2>2
  <2>3. CASE /\ at[r] = "unwind" /\ Send(r, "cancelled")
             /\ UNCHANGED <<now, guardVars, at, op, sent, gone, stopping>>
    BY <2>3
  <2> QED
    BY <1>16, <2>1, <2>2, <2>3 DEF Cancel
<1>17. CASE Tick
  BY <1>17 DEF Tick
<1>18. CASE Stop
  BY <1>18 DEF Stop
<1>19. CASE UNCHANGED vars
  BY <1>19 DEF vars
<1> QED
  BY <1>1, <1>2, <1>3, <1>4, <1>5, <1>6, <1>7, <1>8, <1>9, <1>10, <1>11, <1>12,
     <1>13, <1>14, <1>15, <1>16, <1>17, <1>18, <1>19
  DEF Next, Progress, Terminating

\* A step takes a slot while one is free, gives one back, or keeps both
\* the slots and the requests inside.
LEMMA StepKinds ==
  ASSUME Typed, [Next]_vars
  PROVE  \/ /\ active' = active /\ Inside' = Inside
         \/ \E r \in Req : /\ r \notin Inside /\ Inside' = Inside \cup {r}
                           /\ active < MaxInflight /\ active' = active + 1
         \/ \E r \in Req : /\ r \in Inside /\ Inside' = Inside \ {r}
                           /\ active' = active - 1
<1> DEFINE Kinds == \/ /\ active' = active /\ Inside' = Inside
                    \/ \E r \in Req : /\ r \notin Inside /\ Inside' = Inside \cup {r}
                                      /\ active < MaxInflight /\ active' = active + 1
                    \/ \E r \in Req : /\ r \in Inside /\ Inside' = Inside \ {r}
                                      /\ active' = active - 1
<1> USE LimitAssumption DEF Typed, Inside, Goto, Send, Leave, Unwind, guardVars, Place
<1>1. ASSUME NEW r \in Req, Reject(r) PROVE Kinds
  BY <1>1 DEF Reject
<1>2. ASSUME NEW r \in Req, Refuse(r) PROVE Kinds
  BY <1>2 DEF Refuse
<1>3. ASSUME NEW r \in Req, Admit(r) PROVE Kinds
  <2>1. active < MaxInflight
    BY <1>3 DEF Admit, Busy
  <2>2. r \notin Inside /\ Inside' = Inside \cup {r}
    BY <1>3 DEF Admit
  <2>3. active' = active + 1
    BY <1>3 DEF Admit
  <2> QED
    BY <2>1, <2>2, <2>3
<1>4. ASSUME NEW r \in Req, BodyEnds(r) PROVE Kinds
  BY <1>4 DEF BodyEnds
<1>5. ASSUME NEW r \in Req, Begin(r) PROVE Kinds
  BY <1>5 DEF Begin
<1>6. ASSUME NEW r \in Req, OpEnds(r) PROVE Kinds
  BY <1>6 DEF OpEnds
<1>7. ASSUME NEW r \in Req, OpStops(r) PROVE Kinds
  BY <1>7 DEF OpStops
<1>8. ASSUME NEW r \in Req, WatcherFires(r) PROVE Kinds
  BY <1>8 DEF WatcherFires
<1>9. ASSUME NEW r \in Req, Deadline(r) PROVE Kinds
  BY <1>9 DEF Deadline
<1>10. ASSUME NEW r \in Req, Unwound(r) PROVE Kinds
  BY <1>10 DEF Unwound
<1>11. ASSUME NEW r \in Req, Answer(r) PROVE Kinds
  BY <1>11 DEF Answer
<1>12. ASSUME NEW r \in Req, StartStream(r) PROVE Kinds
  BY <1>12 DEF StartStream
<1>13. ASSUME NEW r \in Req, SendEvent(r) PROVE Kinds
  BY <1>13 DEF SendEvent
<1>14. ASSUME NEW r \in Req, StreamEnds(r) PROVE Kinds
  BY <1>14 DEF StreamEnds
<1>15. ASSUME NEW r \in Req, Disconnect(r) PROVE Kinds
  BY <1>15 DEF Disconnect
<1>16. ASSUME NEW r \in Req, Cancel(r) PROVE Kinds
  BY <1>16 DEF Cancel
<1>17. CASE Tick
  BY <1>17 DEF Tick
<1>18. CASE Stop
  BY <1>18 DEF Stop
<1>19. CASE UNCHANGED vars
  BY <1>19 DEF vars
<1> QED
  BY <1>1, <1>2, <1>3, <1>4, <1>5, <1>6, <1>7, <1>8, <1>9, <1>10, <1>11, <1>12,
     <1>13, <1>14, <1>15, <1>16, <1>17, <1>18, <1>19
  DEF Next, Progress, Terminating

\* Nobody becomes a new request.
LEMMA StepKeepsOld ==
  ASSUME Typed, [Next]_vars
  PROVE  \A q \in Req : at'[q] = "new" => at[q] = "new"
<1> DEFINE Old == \A q \in Req : at'[q] = "new" => at[q] = "new"
<1> USE DEF Typed, Goto, Leave, Unwind
<1>1. ASSUME NEW r \in Req, Reject(r) PROVE Old
  BY <1>1 DEF Reject
<1>2. ASSUME NEW r \in Req, Refuse(r) PROVE Old
  BY <1>2 DEF Refuse
<1>3. ASSUME NEW r \in Req, Admit(r) PROVE Old
  BY <1>3 DEF Admit
<1>4. ASSUME NEW r \in Req, BodyEnds(r) PROVE Old
  BY <1>4 DEF BodyEnds
<1>5. ASSUME NEW r \in Req, Begin(r) PROVE Old
  BY <1>5 DEF Begin
<1>6. ASSUME NEW r \in Req, OpEnds(r) PROVE Old
  BY <1>6 DEF OpEnds
<1>7. ASSUME NEW r \in Req, OpStops(r) PROVE Old
  BY <1>7 DEF OpStops
<1>8. ASSUME NEW r \in Req, WatcherFires(r) PROVE Old
  BY <1>8 DEF WatcherFires
<1>9. ASSUME NEW r \in Req, Deadline(r) PROVE Old
  BY <1>9 DEF Deadline
<1>10. ASSUME NEW r \in Req, Unwound(r) PROVE Old
  BY <1>10 DEF Unwound
<1>11. ASSUME NEW r \in Req, Answer(r) PROVE Old
  BY <1>11 DEF Answer
<1>12. ASSUME NEW r \in Req, StartStream(r) PROVE Old
  BY <1>12 DEF StartStream
<1>13. ASSUME NEW r \in Req, SendEvent(r) PROVE Old
  BY <1>13 DEF SendEvent
<1>14. ASSUME NEW r \in Req, StreamEnds(r) PROVE Old
  BY <1>14 DEF StreamEnds
<1>15. ASSUME NEW r \in Req, Disconnect(r) PROVE Old
  BY <1>15 DEF Disconnect
<1>16. ASSUME NEW r \in Req, Cancel(r) PROVE Old
  BY <1>16 DEF Cancel
<1>17. CASE Tick
  BY <1>17 DEF Tick
<1>18. CASE Stop
  BY <1>18 DEF Stop
<1>19. CASE UNCHANGED vars
  BY <1>19 DEF vars
<1> QED
  BY <1>1, <1>2, <1>3, <1>4, <1>5, <1>6, <1>7, <1>8, <1>9, <1>10, <1>11, <1>12,
     <1>13, <1>14, <1>15, <1>16, <1>17, <1>18, <1>19
  DEF Next, Progress, Terminating

\* The slots are counted exactly.
LEMMA SlotsStep ==
  ASSUME Typed, SlotsExact, [Next]_vars
  PROVE  SlotsExact'
<1>fin. IsFiniteSet(Inside) /\ Cardinality(Inside) \in Nat
  BY ReqAssumption, FS_Subset, FS_CardinalityType DEF Inside
<1>1. CASE active' = active /\ Inside' = Inside
  BY <1>1 DEF SlotsExact
<1>2. ASSUME NEW r \in Req, r \notin Inside, Inside' = Inside \cup {r},
             active < MaxInflight, active' = active + 1
      PROVE  SlotsExact'
  <2>1. Cardinality(Inside') = Cardinality(Inside) + 1
    BY <1>fin, <1>2, FS_AddElement
  <2> QED
    BY <1>2, <1>fin, <2>1, LimitAssumption DEF SlotsExact
<1>3. ASSUME NEW r \in Req, r \in Inside, Inside' = Inside \ {r}, active' = active - 1
      PROVE  SlotsExact'
  <2>1. Cardinality(Inside') = Cardinality(Inside) - 1
    BY <1>fin, <1>3, FS_RemoveElement
  <2> QED
    BY <1>3, <1>fin, <2>1, LimitAssumption DEF SlotsExact
<1> QED
  BY StepKinds, <1>1, <1>2, <1>3

-----------------------------------------------------------------------------
(* The admission window *)

\* A set of positions that holds every position before one of its own is an
\* initial segment.
LEMMA InitialSegment ==
  ASSUME NEW n \in Nat, NEW S \in SUBSET (1..n),
         \A i \in S : \A j \in 1..i : j \in S
  PROVE  Cardinality(S) \in 0..n /\ S = 1..Cardinality(S)
<1>1. CASE S = 1..n
  <2>1. Cardinality(1..n) = n
    BY FS_Interval
  <2> QED
    BY <1>1, <2>1
<1>2. CASE S # 1..n
  <2> DEFINE T == (1..n) \ S
  <2>1. T # {} /\ T \subseteq Nat
    <3>1. S \subseteq 1..n /\ 1..n \subseteq Nat
      OBVIOUS
    <3> QED
      BY <1>2, <3>1
  <2>2. PICK m \in T : \A y \in T : ~(<<y, m>> \in OpToRel(<, Nat))
    BY <2>1, NatLessThanWellFounded, WFMin
  <2>3. \A y \in T : ~(y < m)
    BY <2>1, <2>2 DEF OpToRel
  <2>m. m \in 1..n /\ m \notin S
    OBVIOUS
  <2> HIDE DEF T
  <2>in. \A x \in 1..n : x < m => x \in S
    BY <2>3 DEF T
  <2>out. \A x \in S : x < m
    <3> SUFFICES ASSUME NEW x \in S, ~(x < m) PROVE FALSE
      OBVIOUS
    <3>1. x \in 1..n /\ m \in 1..x
      BY <2>m
    <3> QED
      BY <2>m, <3>1
  <2>int. m \in Int /\ m - 1 \in 0..n
    BY <2>m
  <2>4. S = 1..(m - 1)
    <3>1. ASSUME NEW x \in S PROVE x \in 1..(m - 1)
      <4>1. x \in 1..n /\ x < m
        BY <2>out
      <4> QED
        BY <4>1, <2>int
    <3>2. ASSUME NEW x \in 1..(m - 1) PROVE x \in S
      <4>1. x \in 1..n /\ x < m
        BY <2>int
      <4> QED
        BY <4>1, <2>in
    <3> QED
      BY <3>1, <3>2
  <2>5. Cardinality(1..(m - 1)) = m - 1
    BY <2>int, FS_Interval
  <2> QED
    BY <2>4, <2>5, <2>int
<1> QED
  BY <1>1, <1>2

\* What pruning leaves: the requests admitted in the window that ends now,
\* each once.
LEMMA PruneIsWindow ==
  ASSUME Typed, RecentInv
  PROVE  /\ \A i, j \in 1..Len(Prune) : i <= j => Prune[i] <= Prune[j]
         /\ \A i \in 1..Len(Prune) : Prune[i] <= now
         /\ \E g \in [1..Len(Prune) -> Req] :
              /\ \A i, j \in 1..Len(Prune) : g[i] = g[j] => i = j
              /\ \A i \in 1..Len(Prune) : admitted[g[i]] = Prune[i] /\ g[i] \in InWindow
              /\ \A r \in InWindow : \E i \in 1..Len(Prune) : g[i] = r
<1> DEFINE n == Len(recent)
           old == {i \in 1..n : \A j \in 1..i : recent[j] < now - Window}
           k == Cardinality(old)
<1>1. n \in Nat /\ recent \in Seq(0..LastTick)
  BY DEF Typed
<1>types. now \in Int /\ Window \in Int /\ \A i \in 1..n : recent[i] \in Int
  <2>1. \A i \in 1..n : recent[i] \in 0..LastTick
    BY <1>1, ElementOfSeq
  <2> QED
    BY <2>1, LimitAssumption DEF Typed
<1>2. k \in 0..n /\ old = 1..k
  <2>1. old \in SUBSET (1..n)
    OBVIOUS
  <2>2. \A i \in old : \A j \in 1..i : j \in old
    BY <1>1
  <2> HIDE DEF old
  <2> QED
    BY <1>1, <2>1, <2>2, InitialSegment
<1> HIDE DEF old, k
<1>3. \A i \in 1..n : i > k => recent[i] >= now - Window
  <2> SUFFICES ASSUME NEW i \in 1..n, i > k, recent[i] < now - Window PROVE FALSE
    BY <1>types
  <2>1. \A j \in 1..i : recent[j] < now - Window
    BY <1>1, <1>types DEF RecentInv
  <2>2. i \in old
    BY <2>1 DEF old
  <2> QED
    BY <1>2, <2>2
<1>4. \A i \in 1..k : recent[i] < now - Window
  BY <1>2 DEF old
<1>5. Prune = SubSeq(recent, k + 1, n)
  BY DEF Prune, k, old
<1> HIDE DEF n
<1>6. /\ Len(Prune) = n - k
      /\ \A i \in 1..(n - k) : Prune[i] = recent[k + i]
  BY <1>1, <1>2, <1>5 DEF n
<1>7. PICK f \in [1..n -> Req] :
        /\ \A i, j \in 1..n : f[i] = f[j] => i = j
        /\ \A i \in 1..n : admitted[f[i]] = recent[i]
        /\ \A r \in InWindow : \E i \in 1..n : f[i] = r
  BY DEF RecentInv, n
<1> DEFINE g == [i \in 1..(n - k) |-> f[k + i]]
<1>8. g \in [1..(n - k) -> Req] /\ \A i, j \in 1..(n - k) : g[i] = g[j] => i = j
  BY <1>1, <1>2, <1>7
<1>9. \A i \in 1..(n - k) : admitted[g[i]] = Prune[i] /\ g[i] \in InWindow
  <2> SUFFICES ASSUME NEW i \in 1..(n - k)
               PROVE  admitted[g[i]] = Prune[i] /\ g[i] \in InWindow
    OBVIOUS
  <2>1. k + i \in 1..n /\ k + i > k
    BY <1>1, <1>2
  <2>2. g[i] = f[k + i] /\ g[i] \in Req
    BY <2>1, <1>7
  <2>3. admitted[g[i]] = recent[k + i] /\ recent[k + i] = Prune[i]
    BY <2>1, <2>2, <1>7, <1>6
  <2>4. recent[k + i] >= now - Window /\ recent[k + i] <= now /\ recent[k + i] \in Int
    BY <2>1, <1>3, <1>types DEF RecentInv, n
  <2>5. recent[k + i] \in now - Window..now
    BY <2>4, <1>types
  <2> QED
    BY <2>2, <2>3, <2>5 DEF InWindow
<1>10. \A r \in InWindow : \E i \in 1..(n - k) : g[i] = r
  <2> SUFFICES ASSUME NEW r \in InWindow PROVE \E i \in 1..(n - k) : g[i] = r
    OBVIOUS
  <2>1. PICK i \in 1..n : f[i] = r
    BY <1>7
  <2>2. recent[i] >= now - Window
    BY <2>1, <1>7, <1>types DEF InWindow
  <2>3. i > k
    BY <1>1, <1>2, <1>4, <1>types, <2>2
  <2>4. i - k \in 1..(n - k) /\ g[i - k] = r
    BY <1>1, <1>2, <2>1, <2>3
  <2> QED
    BY <2>4
<1>11. /\ \A i, j \in 1..(n - k) : i <= j => Prune[i] <= Prune[j]
       /\ \A i \in 1..(n - k) : Prune[i] <= now
  <2>1. ASSUME NEW i \in 1..(n - k), NEW j \in 1..(n - k), i <= j
        PROVE  Prune[i] <= Prune[j] /\ Prune[i] <= now
    <3>1. k + i \in 1..n /\ k + j \in 1..n /\ k + i <= k + j
      BY <1>1, <1>2, <2>1
    <3>2. recent[k + i] <= recent[k + j] /\ recent[k + i] <= now
      BY <3>1 DEF RecentInv, n
    <3> QED
      BY <3>2, <1>6
  <2> QED
    BY <2>1, <1>1, <1>2
<1> HIDE DEF g
<1>12. Len(Prune) = n - k
  BY <1>6
<1>13. /\ g \in [1..Len(Prune) -> Req]
       /\ \A i, j \in 1..Len(Prune) : g[i] = g[j] => i = j
       /\ \A i \in 1..Len(Prune) : admitted[g[i]] = Prune[i] /\ g[i] \in InWindow
       /\ \A r \in InWindow : \E i \in 1..Len(Prune) : g[i] = r
  BY <1>8, <1>9, <1>10, <1>12
<1>14. /\ \A i, j \in 1..Len(Prune) : i <= j => Prune[i] <= Prune[j]
       /\ \A i \in 1..Len(Prune) : Prune[i] <= now
  BY <1>11, <1>12
<1> QED
  BY <1>13, <1>14

\* Busy looks at exactly the admissions of the window that ends now.
LEMMA WindowExact ==
  ASSUME Typed, RecentInv
  PROVE  Len(Prune) \in Nat /\ Cardinality(InWindow) = Len(Prune) /\ IsFiniteSet(InWindow)
<1>1. Len(Prune) \in Nat
  BY PruneTyped, LenProperties
<1>2. PICK g \in [1..Len(Prune) -> Req] :
        /\ \A i, j \in 1..Len(Prune) : g[i] = g[j] => i = j
        /\ \A i \in 1..Len(Prune) : g[i] \in InWindow
        /\ \A r \in InWindow : \E i \in 1..Len(Prune) : g[i] = r
  BY PruneIsWindow
<1>3. g \in Bijection(1..Len(Prune), InWindow)
  BY <1>2 DEF Bijection, Injection, Surjection, IsInjective
<1>4. Cardinality(InWindow) = Len(Prune)
  BY <1>1, <1>3, FS_CountingElements DEF ExistsBijection
<1>5. IsFiniteSet(InWindow)
  BY ReqAssumption, FS_Subset DEF InWindow
<1> QED
  BY <1>1, <1>4, <1>5

\* The positions of self.recent stay those of the requests in the window.
LEMMA RecentStep ==
  ASSUME Typed, RecentInv, [Next]_vars
  PROVE  RecentInv'
<1>1. CASE UNCHANGED <<recent, admitted, now>>
  <2>1. \A r \in Req : at'[r] = "new" => at[r] = "new"
    BY StepKeepsOld
  <2>2. InWindow' = InWindow
    BY <1>1 DEF InWindow
  <2> QED
    BY <1>1, <2>1, <2>2 DEF RecentInv, Never
<1>2. ASSUME NEW r \in Req, Refuse(r) PROVE RecentInv'
  <2>1. recent' = Prune /\ UNCHANGED <<admitted, now>>
    BY <1>2 DEF Refuse
  <2>2. InWindow' = InWindow
    BY <2>1 DEF InWindow
  <2>3. \A q \in Req : at'[q] = "new" => at[q] = "new"
    BY StepKeepsOld
  <2> QED
    BY <2>1, <2>2, <2>3, PruneIsWindow DEF RecentInv, Never
<1>3. CASE Tick
  <2>1. now' = now + 1 /\ UNCHANGED <<recent, admitted, at>> /\ now \in Int
    BY <1>3 DEF Tick, guardVars, Typed
  <2>2. InWindow' \subseteq InWindow
    <3>1. InWindow' = {q \in Req : admitted[q] \in now + 1 - Window..now + 1}
      <4>1. InWindow' = {q \in Req : admitted'[q] \in now' - Window..now'}
        BY Zenon DEF InWindow
      <4>2. now' = now + 1 /\ admitted' = admitted
        BY <2>1
      <4>3. ASSUME NEW q \in Req
            PROVE  admitted'[q] \in now' - Window..now' <=> admitted[q] \in now + 1 - Window..now + 1
        BY <4>2, <2>1, LimitAssumption
      <4> QED
        BY <4>1, <4>3
    <3>2. ASSUME NEW q \in Req, admitted[q] \in now + 1 - Window..now + 1
          PROVE  admitted[q] \in now - Window..now
      <4>1. admitted[q] <= now
        BY DEF RecentInv
      <4> QED
        BY <3>2, <4>1, <2>1, LimitAssumption
    <3> QED
      BY <3>1, <3>2 DEF InWindow
  <2>3. \A i \in 1..Len(recent) : recent[i] <= now + 1
    <3>1. recent \in Seq(0..LastTick)
      BY DEF Typed
    <3>2. \A i \in 1..Len(recent) : recent[i] \in Int
      BY <3>1, ElementOfSeq, LimitAssumption
    <3> QED
      BY <3>2, <2>1 DEF RecentInv
  <2>4. \A q \in Req : admitted[q] <= now + 1
    <3>1. \A q \in Req : admitted[q] \in Int
      BY LimitAssumption DEF Typed, Never
    <3> QED
      BY <3>1, <2>1 DEF RecentInv
  <2> QED
    BY <2>1, <2>2, <2>3, <2>4 DEF RecentInv, Never
<1>4. ASSUME NEW r \in Req, Admit(r) PROVE RecentInv'
  <2> DEFINE m == Len(Prune)
  <2>1. /\ at[r] = "new" /\ recent' = Append(Prune, now)
        /\ admitted' = [admitted EXCEPT ![r] = now] /\ now' = now
    BY <1>4 DEF Admit
  <2>2. m \in Nat /\ now \in 0..LastTick /\ Prune \in Seq(0..LastTick)
    BY PruneTyped, LenProperties DEF Typed
  <2>3. /\ Len(recent') = m + 1 /\ recent'[m + 1] = now
        /\ \A i \in 1..m : recent'[i] = Prune[i]
    BY <2>1, <2>2
  <2>4. PICK g \in [1..m -> Req] :
          /\ \A i, j \in 1..m : g[i] = g[j] => i = j
          /\ \A i \in 1..m : admitted[g[i]] = Prune[i] /\ g[i] \in InWindow
          /\ \A q \in InWindow : \E i \in 1..m : g[i] = q
    BY PruneIsWindow
  <2> HIDE DEF m
  <2>5. admitted[r] = Never /\ Never < now - Window /\ Never \in Int
    BY <2>1, <2>2, LimitAssumption DEF RecentInv, Never
  <2>6. r \notin InWindow
    BY <2>2, <2>5, LimitAssumption DEF InWindow
  <2>7. InWindow' = InWindow \cup {r}
    <3>1. admitted \in [Req -> Int]
      BY LimitAssumption DEF Typed, Never
    <3>2. ASSUME NEW q \in Req
          PROVE  admitted'[q] \in now - Window..now <=> admitted[q] \in now - Window..now \/ q = r
      BY <3>1, <2>1, <2>2, LimitAssumption
    <3> QED
      BY <3>2, <2>1 DEF InWindow
  <2> DEFINE h == [i \in 1..(m + 1) |-> IF i = m + 1 THEN r ELSE g[i]]
  <2>8. /\ h \in [1..(m + 1) -> Req]
        /\ \A i, j \in 1..(m + 1) : h[i] = h[j] => i = j
    BY <2>2, <2>4, <2>6
  <2>9. \A i \in 1..(m + 1) : admitted'[h[i]] = recent'[i]
    <3> SUFFICES ASSUME NEW i \in 1..(m + 1) PROVE admitted'[h[i]] = recent'[i]
      OBVIOUS
    <3>1. CASE i = m + 1
      BY <3>1, <2>1, <2>3 DEF Typed
    <3>2. CASE i # m + 1
      <4>1. i \in 1..m /\ h[i] = g[i] /\ g[i] # r /\ g[i] \in Req
        BY <3>2, <2>2, <2>4, <2>6
      <4> HIDE DEF h
      <4> QED
        BY <4>1, <2>1, <2>3, <2>4 DEF Typed
    <3> QED
      BY <3>1, <3>2
  <2>10. \A q \in InWindow' : \E i \in 1..(m + 1) : h[i] = q
    <3> SUFFICES ASSUME NEW q \in InWindow' PROVE \E i \in 1..(m + 1) : h[i] = q
      OBVIOUS
    <3>1. CASE q = r
      <4>1. m + 1 \in 1..(m + 1) /\ h[m + 1] = r
        BY <2>2
      <4> QED
        BY <3>1, <4>1
    <3>2. CASE q \in InWindow
      <4>1. PICK i \in 1..m : g[i] = q
        BY <3>2, <2>4
      <4>2. i \in 1..(m + 1) /\ h[i] = q
        BY <4>1, <2>2
      <4> QED
        BY <4>2
    <3> QED
      BY <3>1, <3>2, <2>7
  <2> HIDE DEF h
  <2>11. /\ \A i, j \in 1..(m + 1) : i <= j => recent'[i] <= recent'[j]
         /\ \A i \in 1..(m + 1) : recent'[i] <= now
    <3>1. \A i \in 1..m : Prune[i] <= now
      BY PruneIsWindow DEF m
    <3>2. \A i, j \in 1..m : i <= j => Prune[i] <= Prune[j]
      BY PruneIsWindow DEF m
    <3>3. ASSUME NEW i \in 1..(m + 1), NEW j \in 1..(m + 1), i <= j
          PROVE  recent'[i] <= recent'[j] /\ recent'[i] <= now
      <4>1. CASE j = m + 1
        BY <4>1, <3>1, <2>2, <2>3
      <4>2. CASE j # m + 1
        <5>1. i \in 1..m /\ j \in 1..m
          BY <4>2, <3>3, <2>2
        <5> QED
          BY <5>1, <3>1, <3>2, <3>3, <2>3
      <4> QED
        BY <4>1, <4>2
    <3>4. \A i \in 1..(m + 1) : i <= i
      BY <2>2
    <3> QED
      BY <3>3, <3>4
  <2>12. /\ \A q \in Req : at'[q] = "new" => admitted'[q] = Never'
         /\ \A q \in Req : admitted'[q] <= now
    <3>1. ASSUME NEW q \in Req PROVE at'[q] = "new" => at[q] = "new" /\ q # r
      BY <1>4 DEF Admit, Goto, Typed
    <3> QED
      BY <3>1, <2>1, <2>2 DEF RecentInv, Typed, Never
  <2>13. 1..Len(recent') = 1..(m + 1) /\ now' = now
    BY <2>1, <2>3
  <2>14. \E f \in [1..Len(recent') -> Req] :
           /\ \A i, j \in 1..Len(recent') : f[i] = f[j] => i = j
           /\ \A i \in 1..Len(recent') : admitted'[f[i]] = recent'[i]
           /\ \A q \in InWindow' : \E i \in 1..Len(recent') : f[i] = q
    <3>1. /\ h \in [1..Len(recent') -> Req]
          /\ \A i, j \in 1..Len(recent') : h[i] = h[j] => i = j
          /\ \A i \in 1..Len(recent') : admitted'[h[i]] = recent'[i]
          /\ \A q \in InWindow' : \E i \in 1..Len(recent') : h[i] = q
      BY <2>8, <2>9, <2>10, <2>13
    <3> QED
      BY <3>1
  <2>15. /\ \A i, j \in 1..Len(recent') : i <= j => recent'[i] <= recent'[j]
         /\ \A i \in 1..Len(recent') : recent'[i] <= now'
         /\ \A q \in Req : admitted'[q] <= now'
    BY <2>11, <2>12, <2>13
  <2> QED
    BY <2>12, <2>14, <2>15 DEF RecentInv
<1> QED
  BY <1>1, <1>2, <1>3, <1>4
  DEF Next, Progress, Reject, BodyEnds, Begin, OpEnds, OpStops, WatcherFires, Deadline,
      Unwound, Answer, StartStream, SendEvent, StreamEnds, Disconnect, Cancel, Stop,
      Terminating, vars, guardVars, Leave, Unwind

\* An admission never completes a window of more than requests_per_minute.
LEMMA RateStep ==
  ASSUME Typed, RecentInv, RateLimited, [Next]_vars
  PROVE  RateLimited'
<1>1. CASE admitted' = admitted
  BY <1>1 DEF RateLimited
<1>2. ASSUME NEW r \in Req, Admit(r) PROVE RateLimited'
  <2>1. /\ at[r] = "new" /\ Len(Prune) < PerMinute
        /\ admitted' = [admitted EXCEPT ![r] = now]
    BY <1>2, WindowExact, LimitAssumption DEF Admit, Busy
  <2>2. now \in 0..LastTick /\ Window \in Nat /\ PerMinute \in Nat
    BY LimitAssumption DEF Typed
  <2>3. admitted \in [Req -> Int] /\ admitted[r] < 0
    BY <2>1, LimitAssumption DEF Typed, RecentInv, Never
  <2> SUFFICES ASSUME NEW t \in 0..LastTick
               PROVE  Cardinality({q \in Req : admitted'[q] \in t..t + Window}) <= PerMinute
    BY DEF RateLimited
  <2> DEFINE new == {q \in Req : admitted'[q] \in t..t + Window}
  <2>4. CASE now \in t..t + Window
    <3>1. new \subseteq InWindow \cup {r}
      <4> SUFFICES ASSUME NEW q \in Req, admitted'[q] \in t..t + Window, q # r
                   PROVE  q \in InWindow
        OBVIOUS
      <4>1. admitted[q] \in t..t + Window /\ admitted[q] <= now
        BY <2>1, <2>3 DEF RecentInv
      <4>2. admitted[q] \in now - Window..now
        BY <4>1, <2>2, <2>3, <2>4
      <4> QED
        BY <4>2 DEF InWindow
    <3>2. /\ IsFiniteSet(InWindow \cup {r})
          /\ Cardinality(InWindow \cup {r}) <= Len(Prune) + 1
      <4>1. /\ Len(Prune) \in Nat /\ Cardinality(InWindow) = Len(Prune)
            /\ IsFiniteSet(InWindow)
        BY WindowExact
      <4>2. CASE r \in InWindow
        <5>1. InWindow \cup {r} = InWindow
          BY <4>2
        <5>2. Cardinality(InWindow) <= Len(Prune) + 1
          BY <4>1
        <5> QED
          BY <4>1, <5>1, <5>2
      <4>3. CASE r \notin InWindow
        <5>1. /\ IsFiniteSet(InWindow \cup {r})
              /\ Cardinality(InWindow \cup {r}) = Cardinality(InWindow) + 1
          BY <4>1, <4>3, FS_AddElement
        <5> QED
          BY <4>1, <5>1
      <4> QED
        BY <4>2, <4>3
    <3>3. /\ IsFiniteSet(new) /\ Cardinality(new) <= Cardinality(InWindow \cup {r})
      BY <3>1, <3>2, FS_Subset
    <3>4. Cardinality(new) \in Nat /\ Cardinality(InWindow \cup {r}) \in Nat
      BY <3>2, <3>3, FS_CardinalityType
    <3> HIDE DEF new
    <3>5. Cardinality(new) <= PerMinute
      BY <3>2, <3>3, <3>4, <2>1, <2>2, WindowExact
    <3> QED
      BY <3>5 DEF new
  <2>5. CASE now \notin t..t + Window
    <3>1. new = {q \in Req : admitted[q] \in t..t + Window}
      BY <2>1, <2>2, <2>3, <2>5
    <3> QED
      BY <3>1 DEF RateLimited
  <2> QED
    BY <2>4, <2>5
<1> QED
  BY <1>1, <1>2
  DEF Next, Progress, Reject, Refuse, BodyEnds, Begin, OpEnds, OpStops, WatcherFires,
      Deadline, Unwound, Answer, StartStream, SendEvent, StreamEnds, Disconnect, Cancel,
      Tick, Stop, Terminating, vars, guardVars, Leave, Unwind

-----------------------------------------------------------------------------
(* The theorems about the specification *)

\* The inductive invariant holds in every reachable state.
THEOREM Inductive == Spec => [](Typed /\ IInv)
<1>1. Init => Typed /\ IInv
  <2> SUFFICES ASSUME Init PROVE Typed /\ IInv
    OBVIOUS
  <2>1. Typed
    BY TypedInit
  <2>2. OpInv
    BY DEF Init, OpInv
  <2>3. Inside = {}
    BY DEF Init, Inside
  <2>4. SlotsExact
    BY <2>3, FS_EmptySet, LimitAssumption DEF Init, SlotsExact
  <2>5. RecentInv
    <3>1. recent = <<>> /\ now = 0 /\ admitted = [r \in Req |-> Never]
      BY DEF Init
    <3>2. 1..Len(recent) = {}
      BY <3>1
    <3>3. Never \in Int /\ Never < 0 - Window /\ Never <= 0
      BY LimitAssumption DEF Never
    <3>4. InWindow = {}
      BY <3>1, <3>3, LimitAssumption DEF InWindow
    <3>5. \E f \in [1..Len(recent) -> Req] :
            /\ \A i, j \in 1..Len(recent) : f[i] = f[j] => i = j
            /\ \A i \in 1..Len(recent) : admitted[f[i]] = recent[i]
            /\ \A r \in InWindow : \E i \in 1..Len(recent) : f[i] = r
      <4>1. [i \in 1..Len(recent) |-> CHOOSE r \in Req : TRUE] \in [1..Len(recent) -> Req]
        BY <3>2
      <4> QED
        BY <3>2, <3>4, <4>1
    <3>6. /\ \A r \in Req : at[r] = "new" => admitted[r] = Never
          /\ \A r \in Req : admitted[r] <= now
      BY <3>1, <3>3
    <3> QED
      BY <3>2, <3>5, <3>6 DEF RecentInv
  <2>6. RateLimited
    <3> SUFFICES ASSUME NEW t \in 0..LastTick
                 PROVE  Cardinality({r \in Req : admitted[r] \in t..t + Window}) <= PerMinute
      BY DEF RateLimited
    <3>1. admitted = [r \in Req |-> Never] /\ Never \in Int /\ Never < 0
      BY LimitAssumption DEF Init, Never
    <3>2. {r \in Req : admitted[r] \in t..t + Window} = {}
      BY <3>1
    <3> QED
      BY <3>2, FS_EmptySet, LimitAssumption
  <2> QED
    BY <2>1, <2>2, <2>4, <2>5, <2>6 DEF IInv
<1>2. Typed /\ IInv /\ [Next]_vars => (Typed /\ IInv)'
  BY TypedStep, OpStep, SlotsStep, RecentStep, RateStep DEF IInv
<1> QED
  BY <1>1, <1>2, PTL DEF Spec

\* For any number of requests, self.active is the number of requests inside
\* Guard and never exceeds max_inflight.
THEOREM SlotsAreExact == Spec => [](TypeOK /\ SlotsExact)
<1>1. Typed /\ IInv => TypeOK /\ SlotsExact
  <2> SUFFICES ASSUME Typed, SlotsExact PROVE TypeOK
    BY DEF IInv
  <2>1. Cardinality(Inside) \in Nat
    BY ReqAssumption, FS_Subset, FS_CardinalityType DEF Inside
  <2> QED
    BY <2>1, LimitAssumption DEF TypeOK, SlotsExact, Typed
<1> QED
  BY <1>1, Inductive, PTL

\* For any number of requests, any window and any limit, no window sees more
\* admissions than requests_per_minute.
THEOREM WindowHolds == Spec => []RateLimited
<1>1. Typed /\ IInv => RateLimited
  BY DEF IInv
<1> QED
  BY <1>1, Inductive, PTL

\* A client is answered 429 only when the slots are taken or the window is
\* full: what was pruned and what was refused does not count.
THEOREM RefusalsAreJustified == Spec => RefusedWhenBusy
<1>1. ASSUME Typed, IInv, [Next]_vars, NEW r \in Req, reply[r] = "none", reply'[r] = "busy"
      PROVE  Cardinality(Inside) = MaxInflight \/ Cardinality(InWindow) >= PerMinute
  <2>1. Busy
    BY <1>1
    DEF Typed, Next, Progress, Reject, Refuse, Admit, BodyEnds, Begin, OpEnds, OpStops,
        WatcherFires, Deadline, Unwound, Answer, StartStream, SendEvent, StreamEnds,
        Disconnect, Cancel, Tick, Stop, Terminating, vars, Leave, Unwind, Send
  <2>2. Typed /\ RecentInv /\ SlotsExact
    BY <1>1 DEF IInv
  <2>3. Cardinality(InWindow) = Len(Prune)
    BY <2>2, WindowExact
  <2>4. active = Cardinality(Inside) /\ active <= MaxInflight /\ active \in Int
    BY <2>2 DEF Typed, SlotsExact
  <2> QED
    BY <2>1, <2>3, <2>4, LimitAssumption DEF Busy
<1>2. Typed /\ IInv /\ [Next]_vars =>
        [\A r \in Req : reply[r] = "none" /\ reply'[r] = "busy" =>
           \/ Cardinality(Inside) = MaxInflight
           \/ Cardinality(InWindow) >= PerMinute]_vars
  BY <1>1
<1> QED
  BY <1>2, Inductive, PTL DEF Spec, RefusedWhenBusy

\* A request that has left has no operation left: cancellable waits for the
\* task on every way out of it.
THEOREM NothingLeftBehind == Spec => []NoWorkLeftBehind
<1>1. Typed /\ IInv => NoWorkLeftBehind
  BY DEF IInv, OpInv, NoWorkLeftBehind
<1> QED
  BY <1>1, Inductive, PTL

\* A chunk is sent only for an operation that has succeeded.
THEOREM WholeBeforeChunks == Spec => []ErrorsBeforeFirstChunk
<1>1. Typed /\ IInv => ErrorsBeforeFirstChunk
  BY DEF IInv, OpInv, ErrorsBeforeFirstChunk
<1> QED
  BY <1>1, Inductive, PTL

\* Types, and the state of one actor against that of the others, hold at every
\* step.
THEOREM ConsistentAlways == Spec => []Consistent
<1>1. TypeOK /\ IInv => Consistent
  BY DEF Consistent
<1> QED
  BY <1>1, SlotsAreExact, Inductive, PTL

=============================================================================
