---------------------------- MODULE ProviderProofs ----------------------------
(***************************************************************************)
(* What TLAPS proves about Provider, for any calls and any bounds.         *)
(*                                                                         *)
(* An action touches one call.  Frame says so once: what remains of each   *)
(* action is that the row of its own call is typed and keeps CallInv.      *)
(***************************************************************************)
EXTENDS Provider, TLAPS

\* The row of one call has its types.
Typed(c) ==
  /\ at[c] \in Place
  /\ attempt[c] \in 0..2
  /\ posted[c] \in 0..2
  /\ billable[c] \in 0..2
  /\ size[c] \in 0..MaxBytes + MaxLine + 1
  /\ held[c] \in 0..MaxLine
  /\ buffer[c] \in Seq(DataLine)
  /\ eventBytes[c] \in Nat
  /\ textBytes[c] \in Nat
  /\ sawData[c] \in BOOLEAN
  /\ parts[c] \in Nat
  /\ seen[c] \in 0..2
  /\ outcome[c] \in Outcome
  /\ reported[c] \in 0..2
  /\ served[c] \in Nat
  /\ whole[c] \in BOOLEAN

\* A step changes at most the row of c.
OnlyAt(c) ==
  /\ at' = at \/ at' = [at EXCEPT ![c] = at'[c]]
  /\ attempt' = attempt \/ attempt' = [attempt EXCEPT ![c] = attempt'[c]]
  /\ posted' = posted \/ posted' = [posted EXCEPT ![c] = posted'[c]]
  /\ billable' = billable \/ billable' = [billable EXCEPT ![c] = billable'[c]]
  /\ size' = size \/ size' = [size EXCEPT ![c] = size'[c]]
  /\ held' = held \/ held' = [held EXCEPT ![c] = held'[c]]
  /\ buffer' = buffer \/ buffer' = [buffer EXCEPT ![c] = buffer'[c]]
  /\ eventBytes' = eventBytes \/ eventBytes' = [eventBytes EXCEPT ![c] = eventBytes'[c]]
  /\ textBytes' = textBytes \/ textBytes' = [textBytes EXCEPT ![c] = textBytes'[c]]
  /\ sawData' = sawData \/ sawData' = [sawData EXCEPT ![c] = sawData'[c]]
  /\ parts' = parts \/ parts' = [parts EXCEPT ![c] = parts'[c]]
  /\ seen' = seen \/ seen' = [seen EXCEPT ![c] = seen'[c]]
  /\ outcome' = outcome \/ outcome' = [outcome EXCEPT ![c] = outcome'[c]]
  /\ reported' = reported \/ reported' = [reported EXCEPT ![c] = reported'[c]]
  /\ served' = served \/ served' = [served EXCEPT ![c] = served'[c]]
  /\ whole' = whole \/ whole' = [whole EXCEPT ![c] = whole'[c]]

\* Every variable has its type at the start.
LEMMA TypedInit == Init => TypeOK
  BY SizeAssumption DEF Init, TypeOK, Place, DataLine, Outcome, Error

LEMMA CallsInit == Init => IInv
<1> SUFFICES ASSUME Init, NEW c \in Call PROVE CallInv(c)
  BY DEF IInv
<1>1. /\ at[c] = "idle" /\ attempt[c] = 0 /\ posted[c] = 0 /\ billable[c] = 0
      /\ size[c] = 0 /\ eventBytes[c] = 0 /\ textBytes[c] = 0 /\ parts[c] = 0
      /\ served[c] = 0 /\ outcome[c] = "none"
  BY DEF Init
<1> QED
  BY <1>1, SizeAssumption DEF CallInv

\* No lines are a sequence of lines.
LEMMA NoLines == <<>> \in Seq(DataLine)
  OBVIOUS

LEMMA RowTyped == ASSUME TypeOK, NEW c \in Call PROVE Typed(c)
  BY DEF TypeOK, Typed

\* A step that changes one row, to a typed row with its invariant, keeps both.
LEMMA Frame ==
  ASSUME TypeOK, IInv, NEW c \in Call, OnlyAt(c), Typed(c)', CallInv(c)'
  PROVE  TypeOK' /\ IInv'
<1>1. TypeOK'
  <2>1. at' \in [Call -> Place]
    <3>1. at \in [Call -> Place] /\ at'[c] \in Place
      BY DEF TypeOK, Typed
    <3>2. at' = at \/ at' = [at EXCEPT ![c] = at'[c]]
      BY DEF OnlyAt
    <3> QED
      BY <3>1, <3>2, Zenon
  <2>2. attempt' \in [Call -> 0..2]
    <3>1. attempt \in [Call -> 0..2] /\ attempt'[c] \in 0..2
      BY DEF TypeOK, Typed
    <3>2. attempt' = attempt \/ attempt' = [attempt EXCEPT ![c] = attempt'[c]]
      BY DEF OnlyAt
    <3> QED
      BY <3>1, <3>2, Zenon
  <2>3. posted' \in [Call -> 0..2]
    <3>1. posted \in [Call -> 0..2] /\ posted'[c] \in 0..2
      BY DEF TypeOK, Typed
    <3>2. posted' = posted \/ posted' = [posted EXCEPT ![c] = posted'[c]]
      BY DEF OnlyAt
    <3> QED
      BY <3>1, <3>2, Zenon
  <2>4. billable' \in [Call -> 0..2]
    <3>1. billable \in [Call -> 0..2] /\ billable'[c] \in 0..2
      BY DEF TypeOK, Typed
    <3>2. billable' = billable \/ billable' = [billable EXCEPT ![c] = billable'[c]]
      BY DEF OnlyAt
    <3> QED
      BY <3>1, <3>2, Zenon
  <2>5. size' \in [Call -> 0..MaxBytes + MaxLine + 1]
    <3>1. size \in [Call -> 0..MaxBytes + MaxLine + 1] /\ size'[c] \in 0..MaxBytes + MaxLine + 1
      BY DEF TypeOK, Typed
    <3>2. size' = size \/ size' = [size EXCEPT ![c] = size'[c]]
      BY DEF OnlyAt
    <3> QED
      BY <3>1, <3>2, Zenon
  <2>6. buffer' \in [Call -> Seq(DataLine)]
    <3>1. buffer \in [Call -> Seq(DataLine)] /\ buffer'[c] \in Seq(DataLine)
      BY DEF TypeOK, Typed
    <3>2. buffer' = buffer \/ buffer' = [buffer EXCEPT ![c] = buffer'[c]]
      BY DEF OnlyAt
    <3> QED
      BY <3>1, <3>2, Zenon
  <2>7. textBytes' \in [Call -> Nat]
    <3>1. textBytes \in [Call -> Nat] /\ textBytes'[c] \in Nat
      BY DEF TypeOK, Typed
    <3>2. textBytes' = textBytes \/ textBytes' = [textBytes EXCEPT ![c] = textBytes'[c]]
      BY DEF OnlyAt
    <3> QED
      BY <3>1, <3>2, Zenon
  <2>8. sawData' \in [Call -> BOOLEAN]
    <3>1. sawData \in [Call -> BOOLEAN] /\ sawData'[c] \in BOOLEAN
      BY DEF TypeOK, Typed
    <3>2. sawData' = sawData \/ sawData' = [sawData EXCEPT ![c] = sawData'[c]]
      BY DEF OnlyAt
    <3> QED
      BY <3>1, <3>2, Zenon
  <2>9. parts' \in [Call -> Nat]
    <3>1. parts \in [Call -> Nat] /\ parts'[c] \in Nat
      BY DEF TypeOK, Typed
    <3>2. parts' = parts \/ parts' = [parts EXCEPT ![c] = parts'[c]]
      BY DEF OnlyAt
    <3> QED
      BY <3>1, <3>2, Zenon
  <2>10. seen' \in [Call -> 0..2]
    <3>1. seen \in [Call -> 0..2] /\ seen'[c] \in 0..2
      BY DEF TypeOK, Typed
    <3>2. seen' = seen \/ seen' = [seen EXCEPT ![c] = seen'[c]]
      BY DEF OnlyAt
    <3> QED
      BY <3>1, <3>2, Zenon
  <2>11. outcome' \in [Call -> Outcome]
    <3>1. outcome \in [Call -> Outcome] /\ outcome'[c] \in Outcome
      BY DEF TypeOK, Typed
    <3>2. outcome' = outcome \/ outcome' = [outcome EXCEPT ![c] = outcome'[c]]
      BY DEF OnlyAt
    <3> QED
      BY <3>1, <3>2, Zenon
  <2>12. reported' \in [Call -> 0..2]
    <3>1. reported \in [Call -> 0..2] /\ reported'[c] \in 0..2
      BY DEF TypeOK, Typed
    <3>2. reported' = reported \/ reported' = [reported EXCEPT ![c] = reported'[c]]
      BY DEF OnlyAt
    <3> QED
      BY <3>1, <3>2, Zenon
  <2>13. served' \in [Call -> Nat]
    <3>1. served \in [Call -> Nat] /\ served'[c] \in Nat
      BY DEF TypeOK, Typed
    <3>2. served' = served \/ served' = [served EXCEPT ![c] = served'[c]]
      BY DEF OnlyAt
    <3> QED
      BY <3>1, <3>2, Zenon
  <2>14. whole' \in [Call -> BOOLEAN]
    <3>1. whole \in [Call -> BOOLEAN] /\ whole'[c] \in BOOLEAN
      BY DEF TypeOK, Typed
    <3>2. whole' = whole \/ whole' = [whole EXCEPT ![c] = whole'[c]]
      BY DEF OnlyAt
    <3> QED
      BY <3>1, <3>2, Zenon
  <2>15. held' \in [Call -> 0..MaxLine]
    <3>1. held \in [Call -> 0..MaxLine] /\ held'[c] \in 0..MaxLine
      BY DEF TypeOK, Typed
    <3>2. held' = held \/ held' = [held EXCEPT ![c] = held'[c]]
      BY DEF OnlyAt
    <3> QED
      BY <3>1, <3>2, Zenon
  <2>16. eventBytes' \in [Call -> Nat]
    <3>1. eventBytes \in [Call -> Nat] /\ eventBytes'[c] \in Nat
      BY DEF TypeOK, Typed
    <3>2. eventBytes' = eventBytes \/ eventBytes' = [eventBytes EXCEPT ![c] = eventBytes'[c]]
      BY DEF OnlyAt
    <3> QED
      BY <3>1, <3>2, Zenon
  <2> QED
    BY <2>1, <2>2, <2>3, <2>4, <2>5, <2>6, <2>7, <2>8, <2>9, <2>10, <2>11, <2>12, <2>13,
       <2>14, <2>15, <2>16 DEF TypeOK
<1>2. ASSUME NEW d \in Call PROVE CallInv(d)'
  <2>1. CASE d = c
    BY <2>1
  <2>2. CASE d # c
    <3>1. at'[d] = at[d]
      BY <2>2 DEF OnlyAt, TypeOK
    <3>2. attempt'[d] = attempt[d]
      BY <2>2 DEF OnlyAt, TypeOK
    <3>3. posted'[d] = posted[d]
      BY <2>2 DEF OnlyAt, TypeOK
    <3>4. billable'[d] = billable[d]
      BY <2>2 DEF OnlyAt, TypeOK
    <3>5. size'[d] = size[d]
      BY <2>2 DEF OnlyAt, TypeOK
    <3>6. eventBytes'[d] = eventBytes[d]
      BY <2>2 DEF OnlyAt, TypeOK
    <3>7. textBytes'[d] = textBytes[d]
      BY <2>2 DEF OnlyAt, TypeOK
    <3>8. sawData'[d] = sawData[d]
      BY <2>2 DEF OnlyAt, TypeOK
    <3>9. parts'[d] = parts[d]
      BY <2>2 DEF OnlyAt, TypeOK
    <3>10. seen'[d] = seen[d]
      BY <2>2 DEF OnlyAt, TypeOK
    <3>11. outcome'[d] = outcome[d]
      BY <2>2 DEF OnlyAt, TypeOK
    <3>12. reported'[d] = reported[d]
      BY <2>2 DEF OnlyAt, TypeOK
    <3>13. served'[d] = served[d]
      BY <2>2 DEF OnlyAt, TypeOK
    <3>14. whole'[d] = whole[d]
      BY <2>2 DEF OnlyAt, TypeOK
    <3>15. CallInv(d)
      BY DEF IInv
    <3> QED
      BY <3>15, <3>1, <3>2, <3>3, <3>4, <3>5, <3>6, <3>7, <3>8, <3>9, <3>10, <3>11, <3>12, <3>13, <3>14 DEF CallInv
  <2> QED
    BY <2>1, <2>2
<1> QED
  BY <1>1, <1>2 DEF IInv

-----------------------------------------------------------------------------
(* The helpers of the actions, on the row of their call *)

LEMMA GotoRow ==
  ASSUME TypeOK, NEW c \in Call, NEW place, Goto(c, place)
  PROVE  at'[c] = place /\ at' = [at EXCEPT ![c] = at'[c]]
  BY DEF Goto, TypeOK

LEMMA EndRow ==
  ASSUME TypeOK, NEW c \in Call, NEW kind, NEW n, End(c, kind, n)
  PROVE  /\ at'[c] = "done" /\ outcome'[c] = kind /\ reported'[c] = n
         /\ at' = [at EXCEPT ![c] = at'[c]]
         /\ outcome' = [outcome EXCEPT ![c] = outcome'[c]]
         /\ reported' = [reported EXCEPT ![c] = reported'[c]]
  BY DEF End, Goto, TypeOK

\* A call that ends without a result and changes nothing else.
LEMMA FailsQuietly ==
  ASSUME TypeOK, IInv, NEW c \in Call, NEW kind \in Outcome \ {"ok"}, NEW n \in 0..2,
         End(c, kind, n),
         UNCHANGED <<attempt, posted, billable, bodyVars, parts, seen>>
  PROVE  TypeOK' /\ IInv'
<1>1. Typed(c) /\ CallInv(c)
  BY RowTyped DEF IInv
<1>2. OnlyAt(c)
  BY EndRow DEF OnlyAt, bodyVars, lineVars
<1>3. /\ at'[c] = "done" /\ outcome'[c] = kind /\ reported'[c] = n
      /\ UNCHANGED <<attempt, posted, billable, size, held, buffer, eventBytes, textBytes,
                     sawData, served, whole, parts, seen>>
  BY EndRow DEF bodyVars, lineVars
<1>4. Typed(c)'
  BY <1>1, <1>3 DEF Typed, Place
<1>5. CallInv(c)'
  BY <1>1, <1>3 DEF CallInv
<1> QED
  BY <1>2, <1>4, <1>5, Frame

\* The head of the loop, reached from idle or after the backoff.
LEMMA AttemptStep ==
  ASSUME TypeOK, IInv, NEW c \in Call, NEW n \in 1..2,
         at[c] = IF n = 1 THEN "idle" ELSE "backoff", Attempt(c, n)
  PROVE  TypeOK' /\ IInv'
<1>1. Typed(c) /\ CallInv(c)
  BY RowTyped DEF IInv
<1>2. /\ at'[c] = "pool" /\ attempt'[c] = n /\ size'[c] = 0 /\ held'[c] = 0
      /\ buffer'[c] = <<>> /\ eventBytes'[c] = 0
      /\ textBytes'[c] = 0 /\ sawData'[c] = FALSE /\ served'[c] = 0 /\ whole'[c] = FALSE
      /\ UNCHANGED <<posted, billable, parts, seen, outcome, reported>>
  BY DEF Attempt, Goto, TypeOK
<1>3. OnlyAt(c)
  <2>1. at' = [at EXCEPT ![c] = at'[c]] /\ attempt' = [attempt EXCEPT ![c] = attempt'[c]]
    BY <1>2 DEF Attempt, Goto
  <2>2. /\ size' = [size EXCEPT ![c] = size'[c]] /\ held' = [held EXCEPT ![c] = held'[c]]
        /\ buffer' = [buffer EXCEPT ![c] = buffer'[c]]
        /\ eventBytes' = [eventBytes EXCEPT ![c] = eventBytes'[c]]
    BY <1>2 DEF Attempt
  <2>3. /\ textBytes' = [textBytes EXCEPT ![c] = textBytes'[c]]
        /\ sawData' = [sawData EXCEPT ![c] = sawData'[c]]
    BY <1>2 DEF Attempt
  <2>4. served' = [served EXCEPT ![c] = served'[c]] /\ whole' = [whole EXCEPT ![c] = whole'[c]]
    BY <1>2 DEF Attempt
  <2> QED
    BY <1>2, <2>1, <2>2, <2>3, <2>4 DEF OnlyAt
<1>4. Typed(c)'
  <2>1. sawData'[c] \in BOOLEAN /\ whole'[c] \in BOOLEAN
    BY <1>2, Zenon
  <2> QED
    BY <1>1, <1>2, <2>1, SizeAssumption DEF Typed, Place
<1>5. CallInv(c)'
  BY <1>1, <1>2, SizeAssumption DEF CallInv, Typed
<1> QED
  BY <1>3, <1>4, <1>5, Frame

-----------------------------------------------------------------------------
(* One lemma per action *)

LEMMA StartStep ==
  ASSUME TypeOK, IInv, NEW c \in Call, Start(c)
  PROVE  TypeOK' /\ IInv'
<1>1. CASE Attempt(c, 1)
  BY <1>1, AttemptStep DEF Start
<1>2. CASE /\ End(c, "credentials_missing", 0)
           /\ UNCHANGED <<attempt, posted, billable, bodyVars, parts, seen>>
  BY <1>2, FailsQuietly DEF Outcome, Error
<1> QED
  BY <1>1, <1>2 DEF Start

LEMMA PostStep ==
  ASSUME TypeOK, IInv, NEW c \in Call, Post(c)
  PROVE  TypeOK' /\ IInv'
<1>1. Typed(c) /\ CallInv(c) /\ at[c] = "pool"
  BY RowTyped DEF IInv, Post
<1>2. /\ at'[c] = "posted" /\ posted'[c] = posted[c] + 1 /\ billable'[c] = billable[c] + 1
      /\ UNCHANGED <<attempt, size, held, buffer, eventBytes, textBytes, sawData, served, whole,
                     parts, seen, outcome, reported>>
  BY DEF Post, Goto, TypeOK, bodyVars, lineVars
<1>3. OnlyAt(c)
  <2>1. at' = [at EXCEPT ![c] = at'[c]]
    BY <1>2 DEF Post, Goto
  <2>2. /\ posted' = [posted EXCEPT ![c] = posted'[c]]
        /\ billable' = [billable EXCEPT ![c] = billable'[c]]
    BY <1>2 DEF Post
  <2> QED
    BY <1>2, <2>1, <2>2 DEF OnlyAt
<1>4. posted[c] = attempt[c] - 1 /\ attempt[c] \in 1..2 /\ billable[c] = 0
  BY <1>1 DEF CallInv, Typed
<1>5. Typed(c)'
  BY <1>1, <1>2, <1>4 DEF Typed, Place
<1>6. CallInv(c)'
  BY <1>1, <1>2, <1>4 DEF CallInv, Typed
<1> QED
  BY <1>3, <1>5, <1>6, Frame

LEMMA RateLimitedStep ==
  ASSUME TypeOK, IInv, NEW c \in Call, RateLimited(c)
  PROVE  TypeOK' /\ IInv'
<1>1. Typed(c) /\ CallInv(c) /\ at[c] = "posted"
  BY RowTyped DEF IInv, RateLimited
<1>2. billable'[c] = billable[c] - 1 /\ billable' = [billable EXCEPT ![c] = billable'[c]]
  BY DEF RateLimited, TypeOK
<1>3. UNCHANGED <<attempt, posted, size, held, buffer, eventBytes, textBytes, sawData,
                 served, whole, parts, seen>>
  BY DEF RateLimited, bodyVars, lineVars
<1>4. billable'[c] = 0 /\ posted[c] = attempt[c]
  BY <1>1, <1>2 DEF CallInv, Typed
<1>5. CASE attempt[c] = 2 /\ Raise(c, "rate_limited")
  <2>1. End(c, "rate_limited", attempt[c])
    BY <1>5 DEF Raise
  <2>2. at'[c] = "done" /\ outcome'[c] = "rate_limited" /\ reported'[c] = attempt[c]
    BY <2>1, EndRow
  <2>3. OnlyAt(c)
    BY <1>2, <1>3, <2>1, EndRow DEF OnlyAt
  <2>4. Typed(c)'
    BY <1>1, <1>3, <1>4, <2>2 DEF Typed, Place, Outcome, Error
  <2>5. CallInv(c)'
    BY <1>1, <1>3, <1>4, <2>2 DEF CallInv, Typed
  <2> QED
    BY <2>3, <2>4, <2>5, Frame
<1>6. CASE attempt[c] = 1 /\ Goto(c, "backoff") /\ UNCHANGED <<outcome, reported>>
  <2>1. at'[c] = "backoff"
    BY <1>6, GotoRow
  <2>2. OnlyAt(c)
    BY <1>2, <1>3, <1>6, GotoRow DEF OnlyAt
  <2>3. Typed(c)'
    BY <1>1, <1>3, <1>4, <1>6, <2>1 DEF Typed, Place
  <2>4. CallInv(c)'
    BY <1>1, <1>3, <1>4, <1>6, <2>1 DEF CallInv, Typed
  <2> QED
    BY <2>2, <2>3, <2>4, Frame
<1> QED
  BY <1>5, <1>6 DEF RateLimited

LEMMA RetryStep ==
  ASSUME TypeOK, IInv, NEW c \in Call, Retry(c)
  PROVE  TypeOK' /\ IInv'
  BY AttemptStep DEF Retry

LEMMA StatusStep ==
  ASSUME TypeOK, IInv, NEW c \in Call, Status(c)
  PROVE  TypeOK' /\ IInv'
<1>1. Typed(c) /\ CallInv(c) /\ at[c] = "posted"
  BY RowTyped DEF IInv, Status
<1>2. UNCHANGED <<attempt, posted, billable, bodyVars, parts, seen>>
  BY DEF Status
<1>3. CASE Goto(c, "reading") /\ UNCHANGED <<outcome, reported>>
  <2>1. at'[c] = "reading"
    BY <1>3, GotoRow
  <2>2. OnlyAt(c)
    BY <1>2, <1>3, GotoRow DEF OnlyAt, bodyVars, lineVars
  <2>3. Typed(c)'
    BY <1>1, <1>2, <1>3, <2>1 DEF Typed, Place, bodyVars, lineVars
  <2>4. CallInv(c)'
    BY <1>1, <1>2, <1>3, <2>1 DEF CallInv, bodyVars, lineVars
  <2> QED
    BY <2>2, <2>3, <2>4, Frame
<1>4. CASE Raise(c, "status")
  BY <1>1, <1>2, <1>4, FailsQuietly DEF Raise, Typed, Outcome, Error
<1> QED
  BY <1>3, <1>4 DEF Status

LEMMA NetworkFailsStep ==
  ASSUME TypeOK, IInv, NEW c \in Call, NetworkFails(c)
  PROVE  TypeOK' /\ IInv'
<1>1. attempt[c] \in 0..2
  BY DEF TypeOK
<1>2. UNCHANGED <<attempt, posted, billable, bodyVars, parts, seen>>
  BY DEF NetworkFails
<1>3. CASE Raise(c, "timeout")
  BY <1>1, <1>2, <1>3, FailsQuietly DEF Raise, Outcome
<1>4. CASE Raise(c, "transport")
  BY <1>1, <1>2, <1>4, FailsQuietly DEF Raise, Outcome
<1> QED
  BY <1>3, <1>4 DEF NetworkFails

LEMMA CancelStep ==
  ASSUME TypeOK, IInv, NEW c \in Call, Cancel(c)
  PROVE  TypeOK' /\ IInv'
  BY FailsQuietly DEF Cancel, Outcome

LEMMA ChunkStep ==
  ASSUME TypeOK, IInv, NEW c \in Call, Chunk(c)
  PROVE  TypeOK' /\ IInv'
<1>1. Typed(c) /\ CallInv(c) /\ at[c] = "reading"
  BY RowTyped DEF IInv, Chunk
<1>2. UNCHANGED <<attempt, posted, billable, held, buffer, eventBytes, textBytes, sawData,
                 served, whole, parts, seen>>
  BY DEF Chunk, lineVars
<1>3. CASE Raise(c, "too_large") /\ UNCHANGED size
  BY <1>1, <1>2, <1>3, FailsQuietly DEF Raise, Typed, Outcome, Error, bodyVars, lineVars
<1>4. CASE /\ size[c] + 1 <= MaxBytes /\ size' = [size EXCEPT ![c] = @ + 1]
           /\ UNCHANGED <<at, outcome, reported>>
  <2>1. size'[c] = size[c] + 1 /\ size' = [size EXCEPT ![c] = size'[c]]
    BY <1>4 DEF TypeOK
  <2>2. OnlyAt(c)
    BY <1>2, <1>4, <2>1 DEF OnlyAt
  <2>3. Typed(c)'
    BY <1>1, <1>2, <1>4, <2>1, SizeAssumption DEF Typed
  <2>4. /\ eventBytes'[c] + parts'[c] <= size'[c] /\ size'[c] <= MaxBytes
        /\ eventBytes'[c] + parts'[c] <= MaxBytes
    <3>1. eventBytes[c] \in Nat /\ parts[c] \in Nat /\ size[c] \in Nat
      BY <1>1, SizeAssumption DEF Typed
    <3>2. eventBytes[c] + parts[c] <= size[c]
      BY <1>1 DEF CallInv
    <3>3. eventBytes'[c] = eventBytes[c] /\ parts'[c] = parts[c]
      BY <1>2
    <3> QED
      BY <1>4, <2>1, <3>1, <3>2, <3>3, SizeAssumption
  <2>5. CallInv(c)'
    BY <1>1, <1>2, <1>4, <2>4 DEF CallInv
  <2> QED
    BY <2>2, <2>3, <2>5, Frame
<1> QED
  BY <1>3, <1>4 DEF Chunk

LEMMA BodyEndsStep ==
  ASSUME TypeOK, IInv, NEW c \in Call, BodyEnds(c)
  PROVE  TypeOK' /\ IInv'
<1>1. Typed(c) /\ CallInv(c) /\ at[c] = "reading" /\ c \notin Streamed
  BY RowTyped DEF IInv, BodyEnds
<1>2. /\ UNCHANGED <<attempt, posted, billable, size, held, buffer, eventBytes, textBytes,
                     sawData, seen>>
      /\ whole'[c] = TRUE /\ whole' = [whole EXCEPT ![c] = whole'[c]]
  BY DEF BodyEnds, TypeOK, lineVars
<1>3. whole'[c] \in BOOLEAN
  BY <1>2, Zenon
<1>4. ASSUME NEW n \in 1..size[c], served' = [served EXCEPT ![c] = n],
             \/ n > MaxText /\ Raise(c, "too_large") /\ UNCHANGED parts
             \/ n <= MaxText /\ End(c, "ok", attempt[c]) /\ parts' = [parts EXCEPT ![c] = n]
      PROVE  TypeOK' /\ IInv'
  <2>1. /\ n \in Nat \ {0} /\ n <= size[c]
        /\ served'[c] = n /\ served' = [served EXCEPT ![c] = served'[c]]
    BY <1>1, <1>4 DEF TypeOK, Typed
  <2>2. CASE Raise(c, "too_large") /\ UNCHANGED parts
    <3>1. End(c, "too_large", attempt[c])
      BY <2>2 DEF Raise
    <3>2. at'[c] = "done" /\ outcome'[c] = "too_large" /\ reported'[c] = attempt[c]
      BY <3>1, EndRow
    <3>3. OnlyAt(c)
      BY <1>2, <2>1, <2>2, <3>1, EndRow DEF OnlyAt
    <3>4. Typed(c)'
      BY <1>1, <1>2, <1>3, <2>1, <2>2, <3>2 DEF Typed, Place, Outcome, Error
    <3>5. CallInv(c)'
      BY <1>1, <1>2, <2>2, <3>2 DEF CallInv
    <3> QED
      BY <3>3, <3>4, <3>5, Frame
  <2>3. CASE n <= MaxText /\ End(c, "ok", attempt[c]) /\ parts' = [parts EXCEPT ![c] = n]
    <3>1. parts'[c] = n /\ parts' = [parts EXCEPT ![c] = parts'[c]]
      BY <2>3 DEF TypeOK
    <3>2. at'[c] = "done" /\ outcome'[c] = "ok" /\ reported'[c] = attempt[c]
      BY <2>3, EndRow
    <3>3. OnlyAt(c)
      BY <1>2, <2>1, <2>3, <3>1, EndRow DEF OnlyAt
    <3>4. Typed(c)'
      BY <1>1, <1>2, <1>3, <2>1, <3>1, <3>2 DEF Typed, Place, Outcome
    <3>5. /\ eventBytes'[c] = 0 /\ eventBytes'[c] + parts'[c] = n
          /\ size'[c] = size[c] /\ size[c] \in Nat /\ size[c] <= MaxBytes
      BY <1>1, <1>2, <2>1, <3>1, SizeAssumption DEF CallInv, Typed
    <3>6. n <= MaxBytes /\ n > 0 /\ n <= MaxText
      BY <2>1, <2>3, <3>5, SizeAssumption
    <3>7. CallInv(c)'
      BY <1>1, <1>2, <2>1, <2>3, <3>1, <3>2, <3>5, <3>6 DEF CallInv
    <3> QED
      BY <3>3, <3>4, <3>7, Frame
  <2> QED
    BY <1>4, <2>2, <2>3
<1>5. ASSUME NEW kind \in {"invalid", "unhandled"}, NEW n \in 0..2, End(c, kind, n),
             UNCHANGED <<served, parts>>
      PROVE  TypeOK' /\ IInv'
  <2>1. at'[c] = "done" /\ outcome'[c] = kind /\ reported'[c] = n
    BY <1>5, EndRow
  <2>2. OnlyAt(c)
    BY <1>2, <1>5, EndRow DEF OnlyAt
  <2>3. Typed(c)'
    BY <1>1, <1>2, <1>3, <1>5, <2>1 DEF Typed, Place, Outcome, Error
  <2>4. CallInv(c)'
    BY <1>1, <1>2, <1>5, <2>1 DEF CallInv
  <2> QED
    BY <2>2, <2>3, <2>4, Frame
<1>6. CASE Raise(c, "invalid") /\ UNCHANGED <<served, parts>>
  BY <1>1, <1>5, <1>6 DEF Raise, Typed
<1>7. CASE End(c, "unhandled", 0) /\ UNCHANGED <<served, parts>>
  BY <1>5, <1>7
<1> QED
  BY <1>4, <1>6, <1>7 DEF BodyEnds

\* The generator returns, from a line or from the end of the body: the event
\* being read is kept or dropped.
LEMMA ReturnStep ==
  ASSUME TypeOK, IInv, NEW c \in Call, at[c] = "reading", c \in Streamed, Return(c),
         UNCHANGED <<attempt, posted, billable>>,
         size' = size \/ size' = [size EXCEPT ![c] = size'[c]],
         held' = held \/ held' = [held EXCEPT ![c] = held'[c]],
         buffer' = buffer \/ buffer' = [buffer EXCEPT ![c] = buffer'[c]],
         eventBytes' = eventBytes \/ eventBytes' = [eventBytes EXCEPT ![c] = eventBytes'[c]],
         size'[c] \in 0..MaxBytes + MaxLine + 1, size'[c] >= size[c],
         held'[c] \in 0..MaxLine, buffer'[c] \in Seq(DataLine),
         eventBytes'[c] \in 0..eventBytes[c]
  PROVE  TypeOK' /\ IInv'
<1>1. Typed(c) /\ CallInv(c)
  BY RowTyped DEF IInv
<1>2. /\ UNCHANGED <<sawData, textBytes, served, parts, seen>>
      /\ whole'[c] = TRUE /\ whole' = [whole EXCEPT ![c] = whole'[c]]
  BY DEF Return, TypeOK
<1>3. whole'[c] \in BOOLEAN
  BY <1>2, Zenon
<1>4. eventBytes'[c] \in Nat /\ eventBytes'[c] <= eventBytes[c]
  BY <1>1 DEF Typed
<1>5. ASSUME NEW kind \in {"ok", "empty"}, End(c, kind, seen[c]), kind = "ok" => parts[c] > 0
      PROVE  TypeOK' /\ IInv'
  <2>1. at'[c] = "done" /\ outcome'[c] = kind /\ reported'[c] = seen[c]
    BY <1>5, EndRow
  <2>2. OnlyAt(c)
    BY <1>2, <1>5, EndRow DEF OnlyAt
  <2>3. Typed(c)'
    BY <1>1, <1>2, <1>3, <1>4, <2>1 DEF Typed, Place, Outcome, Error
  <2>4. CallInv(c)'
    BY <1>1, <1>2, <1>4, <1>5, <2>1, SizeAssumption DEF CallInv, Typed
  <2> QED
    BY <2>2, <2>3, <2>4, Frame
<1> QED
  BY <1>5 DEF Return

LEMMA StreamEndsStep ==
  ASSUME TypeOK, IInv, NEW c \in Call, StreamEnds(c)
  PROVE  TypeOK' /\ IInv'
<1>1. Typed(c) /\ CallInv(c) /\ at[c] = "reading" /\ c \in Streamed
  BY RowTyped DEF IInv, StreamEnds
<1>2. UNCHANGED <<attempt, posted, billable, size, held, buffer, eventBytes>>
  BY DEF StreamEnds
<1>3. CASE Return(c)
  BY <1>1, <1>2, <1>3, ReturnStep DEF Typed
<1>4. CASE /\ Raise(c, IF sawData[c] THEN "incomplete" ELSE "no_data")
           /\ UNCHANGED <<textBytes, sawData, served, whole, parts, seen>>
  BY <1>1, <1>2, <1>4, FailsQuietly DEF Raise, Typed, Outcome, Error, bodyVars, lineVars
<1> QED
  BY <1>3, <1>4 DEF StreamEnds

\* More of a line touches nothing that is bounded.
LEMMA PieceStep ==
  ASSUME TypeOK, IInv, NEW c \in Call, Piece(c)
  PROVE  TypeOK' /\ IInv'
<1>1. Typed(c) /\ CallInv(c) /\ held[c] < MaxLine
  BY RowTyped DEF IInv, Piece
<1>2. held'[c] = held[c] + 1 /\ held' = [held EXCEPT ![c] = held'[c]]
  BY DEF Piece, TypeOK
<1>3. UNCHANGED <<at, attempt, posted, billable, size, buffer, eventBytes, textBytes, sawData,
                 served, whole, parts, seen, outcome, reported>>
  BY DEF Piece
<1>4. OnlyAt(c)
  BY <1>2, <1>3 DEF OnlyAt
<1>5. Typed(c)'
  BY <1>1, <1>2, <1>3, SizeAssumption DEF Typed
<1>6. CallInv(c)'
  BY <1>1, <1>3 DEF CallInv
<1> QED
  BY <1>4, <1>5, <1>6, Frame

\* A line that has ended is counted, and is no longer held.
Counted(c) ==
  /\ held' = [held EXCEPT ![c] = 0]
  /\ size' = [size EXCEPT ![c] = @ + LineBytes(c)]
  /\ UNCHANGED <<attempt, posted, billable>>

LEMMA CountedRow ==
  ASSUME TypeOK, IInv, NEW c \in Call, at[c] = "reading", Counted(c)
  PROVE  /\ size'[c] = size[c] + held[c] + 1 /\ size' = [size EXCEPT ![c] = size'[c]]
         /\ held'[c] = 0 /\ held' = [held EXCEPT ![c] = held'[c]]
         /\ size'[c] \in 0..MaxBytes + MaxLine + 1 /\ held'[c] \in 0..MaxLine
         /\ size[c] \in 0..MaxBytes /\ held[c] \in 0..MaxLine
         /\ size[c] \in Nat /\ size'[c] \in Nat /\ size[c] <= size'[c] /\ MaxBytes \in Nat
<1>1. Typed(c) /\ CallInv(c)
  BY RowTyped DEF IInv
<1>2. /\ size'[c] = size[c] + held[c] + 1 /\ size' = [size EXCEPT ![c] = size'[c]]
      /\ held'[c] = 0 /\ held' = [held EXCEPT ![c] = held'[c]]
  BY DEF Counted, LineBytes, TypeOK
<1>3. size[c] \in 0..MaxBytes /\ held[c] \in 0..MaxLine
  BY <1>1, SizeAssumption DEF Typed, CallInv
<1> QED
  BY <1>2, <1>3, SizeAssumption

\* A line that ends the call without a result, its event dropped or not.
LEMMA LineFails ==
  ASSUME TypeOK, IInv, NEW c \in Call, at[c] = "reading", c \in Streamed, Counted(c),
         NEW kind \in {"too_large", "event_too_large", "invalid"}, End(c, kind, attempt[c]),
         \/ UNCHANGED <<buffer, eventBytes>>
         \/ buffer' = [buffer EXCEPT ![c] = <<>>] /\ eventBytes' = [eventBytes EXCEPT ![c] = 0],
         UNCHANGED <<textBytes, sawData, served, whole, parts, seen>>
  PROVE  TypeOK' /\ IInv'
<1>1. Typed(c) /\ CallInv(c)
  BY RowTyped DEF IInv
<1>2. /\ size'[c] = size[c] + held[c] + 1 /\ size' = [size EXCEPT ![c] = size'[c]]
      /\ held' = [held EXCEPT ![c] = held'[c]]
      /\ size'[c] \in 0..MaxBytes + MaxLine + 1 /\ held'[c] \in 0..MaxLine
      /\ size[c] \in 0..MaxBytes /\ held[c] \in 0..MaxLine
  BY CountedRow
<1>3. /\ buffer'[c] = buffer[c] \/ buffer'[c] = <<>>
      /\ buffer' = buffer \/ buffer' = [buffer EXCEPT ![c] = buffer'[c]]
      /\ eventBytes'[c] = eventBytes[c] \/ eventBytes'[c] = 0
      /\ eventBytes' = eventBytes \/ eventBytes' = [eventBytes EXCEPT ![c] = eventBytes'[c]]
  BY DEF TypeOK
<1>4. buffer'[c] \in Seq(DataLine) /\ eventBytes'[c] \in Nat /\ eventBytes'[c] <= eventBytes[c]
  <2>1. buffer[c] \in Seq(DataLine) /\ eventBytes[c] \in Nat
    BY <1>1 DEF Typed
  <2>2. eventBytes'[c] \in Nat /\ eventBytes'[c] <= eventBytes[c]
    BY <1>3, <2>1
  <2> QED
    BY <1>3, <2>1, <2>2, NoLines, Zenon
<1>5. /\ at'[c] = "done" /\ outcome'[c] = kind /\ reported'[c] = attempt[c]
      /\ UNCHANGED <<attempt, posted, billable>>
  BY EndRow DEF Counted
<1>6. OnlyAt(c)
  BY <1>2, <1>3, <1>5, EndRow DEF OnlyAt
<1>7. Typed(c)'
  BY <1>1, <1>2, <1>4, <1>5 DEF Typed, Place, Outcome, Error
<1>8. parts'[c] = parts[c]
  OBVIOUS
<1>9. eventBytes'[c] + parts'[c] <= size'[c] /\ eventBytes'[c] + parts'[c] <= MaxBytes
  <2>1. /\ eventBytes[c] + parts[c] <= size[c] /\ eventBytes[c] + parts[c] <= MaxBytes
        /\ parts[c] \in Nat /\ eventBytes[c] \in Nat
    BY <1>1 DEF CallInv, Typed
  <2>2. size'[c] \in Nat /\ size[c] \in Nat /\ size[c] <= size'[c] /\ MaxBytes \in Nat
    BY CountedRow
  <2>3. eventBytes'[c] \in Nat /\ eventBytes'[c] <= eventBytes[c]
    BY <1>4
  <2> QED
    BY <1>8, <2>1, <2>2, <2>3
<1>10. CallInv(c)'
  BY <1>1, <1>5, <1>9 DEF CallInv
<1> QED
  BY <1>6, <1>7, <1>10, Frame

\* An event with n units of text, which are no more than it had bytes.
LEMMA YieldStep ==
  ASSUME TypeOK, IInv, NEW c \in Call, at[c] = "reading", c \in Streamed, Counted(c),
         size[c] + LineBytes(c) <= MaxBytes,
         NEW n \in 0..eventBytes[c], Yield(c, n),
         buffer' = [buffer EXCEPT ![c] = <<>>], eventBytes' = [eventBytes EXCEPT ![c] = 0]
  PROVE  TypeOK' /\ IInv'
<1>1. Typed(c) /\ CallInv(c)
  BY RowTyped DEF IInv
<1>2. /\ size'[c] = size[c] + held[c] + 1 /\ size' = [size EXCEPT ![c] = size'[c]]
      /\ held' = [held EXCEPT ![c] = held'[c]]
      /\ size'[c] \in 0..MaxBytes + MaxLine + 1 /\ held'[c] \in 0..MaxLine
      /\ size[c] \in 0..MaxBytes /\ held[c] \in 0..MaxLine
  BY CountedRow
<1>3. /\ buffer'[c] = <<>> /\ buffer' = [buffer EXCEPT ![c] = buffer'[c]]
      /\ eventBytes'[c] = 0 /\ eventBytes' = [eventBytes EXCEPT ![c] = eventBytes'[c]]
      /\ UNCHANGED <<attempt, posted, billable>>
  BY DEF TypeOK, Counted
<1>4. /\ sawData'[c] = TRUE /\ sawData' = [sawData EXCEPT ![c] = sawData'[c]]
      /\ textBytes'[c] = textBytes[c] + n /\ textBytes' = [textBytes EXCEPT ![c] = textBytes'[c]]
      /\ served'[c] = served[c] + n /\ served' = [served EXCEPT ![c] = served'[c]]
      /\ UNCHANGED whole
  BY DEF Yield, TypeOK
<1>5. sawData'[c] \in BOOLEAN
  BY <1>4, Zenon
<1>6. /\ n \in Nat /\ n <= eventBytes[c] /\ eventBytes[c] \in Nat
      /\ textBytes'[c] \in Nat /\ served'[c] \in Nat
  BY <1>1, <1>4 DEF Typed
<1>7. buffer'[c] \in Seq(DataLine) /\ eventBytes'[c] \in Nat
  <2>1. eventBytes'[c] \in Nat
    BY <1>3
  <2> QED
    BY <1>3, <2>1, NoLines, Zenon
<1>8. CASE Raise(c, "too_large") /\ UNCHANGED <<parts, seen>>
  <2>1. End(c, "too_large", attempt[c])
    BY <1>8 DEF Raise
  <2>2. at'[c] = "done" /\ outcome'[c] = "too_large" /\ reported'[c] = attempt[c]
    BY <2>1, EndRow
  <2>3. OnlyAt(c)
    BY <1>2, <1>3, <1>4, <1>8, <2>1, EndRow DEF OnlyAt
  <2>4. outcome'[c] \in Outcome /\ at'[c] \in Place /\ reported'[c] \in 0..2
    BY <1>1, <2>2 DEF Typed, Place, Outcome, Error
  <2>5. Typed(c)'
    BY <1>1, <1>2, <1>3, <1>4, <1>5, <1>6, <1>7, <1>8, <2>4 DEF Typed
  <2>6. CallInv(c)'
    <3>1. eventBytes[c] + parts[c] <= size[c] /\ parts[c] \in Nat /\ parts'[c] = parts[c]
      BY <1>1, <1>8 DEF CallInv, Typed
    <3>2. eventBytes[c] + parts[c] <= MaxBytes
      BY <1>1 DEF CallInv
    <3>3. /\ size'[c] \in Nat /\ size[c] \in Nat /\ size[c] <= size'[c] /\ MaxBytes \in Nat
          /\ eventBytes'[c] = 0
      BY <1>3, CountedRow
    <3>4. eventBytes'[c] + parts'[c] <= size'[c] /\ eventBytes'[c] + parts'[c] <= MaxBytes
      BY <1>6, <3>1, <3>2, <3>3
    <3> QED
      BY <1>1, <1>3, <1>8, <2>2, <3>4 DEF CallInv
  <2> QED
    BY <2>3, <2>5, <2>6, Frame
<1>9. CASE /\ textBytes[c] + n <= MaxText
           /\ parts' = [parts EXCEPT ![c] = @ + n] /\ seen' = [seen EXCEPT ![c] = attempt[c]]
           /\ UNCHANGED <<at, outcome, reported>>
  <2>1. /\ parts'[c] = parts[c] + n /\ parts' = [parts EXCEPT ![c] = parts'[c]]
        /\ seen'[c] = attempt[c] /\ seen' = [seen EXCEPT ![c] = seen'[c]]
    BY <1>9 DEF TypeOK
  <2>2. OnlyAt(c)
    BY <1>2, <1>3, <1>4, <1>9, <2>1 DEF OnlyAt
  <2>3. parts'[c] \in Nat /\ seen'[c] \in 0..2
    BY <1>1, <1>6, <2>1 DEF Typed
  <2>4. Typed(c)'
    BY <1>1, <1>2, <1>3, <1>4, <1>5, <1>6, <1>7, <1>9, <2>3 DEF Typed
  <2>5. CallInv(c)'
    <3>1. at'[c] = "reading" /\ outcome'[c] # "ok"
      BY <1>1, <1>9 DEF CallInv
    <3>2. attempt'[c] # 0 /\ posted'[c] = attempt'[c] /\ billable'[c] = 1
      BY <1>1, <1>3 DEF CallInv
    <3>3. /\ parts'[c] = served'[c] /\ textBytes'[c] = parts'[c] /\ parts'[c] <= MaxText
          /\ seen'[c] = attempt'[c]
      BY <1>1, <1>3, <1>4, <1>9, <2>1 DEF CallInv
    <3>4. size'[c] <= MaxBytes
      BY <1>2 DEF LineBytes
    <3>5. parts[c] \in Nat /\ eventBytes[c] + parts[c] <= size[c]
      BY <1>1 DEF CallInv, Typed
    <3>6. eventBytes'[c] + parts'[c] <= size'[c] /\ eventBytes'[c] + parts'[c] <= MaxBytes
      <4>1. eventBytes'[c] = 0 /\ parts'[c] = parts[c] + n
        BY <1>3, <2>1
      <4>2. /\ size'[c] \in Nat /\ size[c] \in Nat /\ size[c] <= size'[c] /\ MaxBytes \in Nat
        BY CountedRow
      <4> QED
        BY <1>6, <3>4, <3>5, <4>1, <4>2
    <3> QED
      BY <3>1, <3>2, <3>3, <3>4, <3>6 DEF CallInv
  <2> QED
    BY <2>2, <2>4, <2>5, Frame
<1> QED
  BY <1>8, <1>9 DEF Yield

\* A line that leaves the call reading: a data line, or one of no use.
LEMMA LineKept ==
  ASSUME TypeOK, IInv, NEW c \in Call, at[c] = "reading", c \in Streamed, Counted(c),
         size[c] + LineBytes(c) <= MaxBytes, DataArrives(c) \/ Ignored(c)
  PROVE  TypeOK' /\ IInv'
<1>1. Typed(c) /\ CallInv(c)
  BY RowTyped DEF IInv
<1>2. /\ size'[c] = size[c] + held[c] + 1 /\ size' = [size EXCEPT ![c] = size'[c]]
      /\ held' = [held EXCEPT ![c] = held'[c]]
      /\ size'[c] \in 0..MaxBytes + MaxLine + 1 /\ held'[c] \in 0..MaxLine
      /\ size[c] \in 0..MaxBytes /\ held[c] \in 0..MaxLine
  BY CountedRow
<1>3. UNCHANGED <<at, attempt, posted, billable, textBytes, sawData, served, whole, parts, seen,
                 outcome, reported>>
  BY DEF DataArrives, Ignored, Counted
<1>4. /\ buffer' = buffer \/ buffer' = [buffer EXCEPT ![c] = buffer'[c]]
      /\ buffer'[c] \in Seq(DataLine)
  <2>1. buffer[c] \in Seq(DataLine)
    BY <1>1 DEF Typed
  <2>2. CASE DataArrives(c)
    <3>1. PICK line \in DataLine : buffer' = [buffer EXCEPT ![c] = Append(@, line)]
      BY <2>2 DEF DataArrives
    <3>2. buffer'[c] = Append(buffer[c], line) /\ buffer' = [buffer EXCEPT ![c] = buffer'[c]]
      BY <3>1 DEF TypeOK
    <3> QED
      BY <2>1, <3>2
  <2>3. CASE Ignored(c)
    BY <2>1, <2>3 DEF Ignored
  <2> QED
    BY <2>2, <2>3
<1>5. /\ eventBytes' = eventBytes \/ eventBytes' = [eventBytes EXCEPT ![c] = eventBytes'[c]]
      /\ eventBytes'[c] \in Nat /\ eventBytes'[c] <= eventBytes[c] + held[c] + 1
  <2>1. eventBytes[c] \in Nat /\ held[c] \in Nat
    BY <1>1, SizeAssumption DEF Typed
  <2>2. CASE DataArrives(c)
    <3>1. /\ eventBytes'[c] = (IF buffer[c] = <<>> THEN 0 ELSE eventBytes[c] + 1) + held[c]
          /\ eventBytes' = [eventBytes EXCEPT ![c] = eventBytes'[c]]
      BY <2>2 DEF DataArrives, TypeOK
    <3> QED
      BY <2>1, <3>1
  <2>3. CASE Ignored(c)
    BY <2>1, <2>3 DEF Ignored
  <2> QED
    BY <2>2, <2>3
<1>6. OnlyAt(c)
  BY <1>2, <1>3, <1>4, <1>5 DEF OnlyAt
<1>7. Typed(c)'
  BY <1>1, <1>2, <1>3, <1>4, <1>5 DEF Typed
<1>8. CallInv(c)'
  <2>1. size'[c] <= MaxBytes
    BY <1>2 DEF LineBytes
  <2>2. parts[c] \in Nat /\ eventBytes[c] \in Nat /\ eventBytes[c] + parts[c] <= size[c]
    BY <1>1 DEF CallInv, Typed
  <2>3. eventBytes'[c] + parts'[c] <= size'[c] /\ eventBytes'[c] + parts'[c] <= MaxBytes
    BY <1>2, <1>3, <1>5, <2>1, <2>2, SizeAssumption
  <2> QED
    BY <1>1, <1>3, <2>1, <2>3 DEF CallInv
<1> QED
  BY <1>6, <1>7, <1>8, Frame

LEMMA LineStep ==
  ASSUME TypeOK, IInv, NEW c \in Call, Line(c)
  PROVE  TypeOK' /\ IInv'
<1>1. at[c] = "reading" /\ c \in Streamed /\ Counted(c)
  BY DEF Line, Counted
<1>2. CASE /\ Raise(c, "too_large")
           /\ UNCHANGED <<buffer, eventBytes, textBytes, sawData, served, whole, parts, seen>>
  BY <1>1, <1>2, LineFails DEF Raise
<1>3. CASE size[c] + LineBytes(c) <= MaxBytes /\ Event(c)
  <2>1. /\ buffer' = [buffer EXCEPT ![c] = <<>>] /\ buffer'[c] = <<>>
        /\ eventBytes' = [eventBytes EXCEPT ![c] = 0] /\ eventBytes'[c] = 0
        /\ eventBytes[c] \in Nat
    BY <1>3 DEF Event, TypeOK
  <2>2. CASE \/ Raise(c, "event_too_large") /\ UNCHANGED <<sawData, textBytes, served, whole, parts, seen>>
             \/ Raise(c, "invalid") /\ UNCHANGED <<sawData, textBytes, served, whole, parts, seen>>
    BY <1>1, <2>1, <2>2, LineFails DEF Raise
  <2>3. CASE Return(c)
    <3>1. /\ size'[c] \in 0..MaxBytes + MaxLine + 1 /\ size'[c] >= size[c]
          /\ size' = [size EXCEPT ![c] = size'[c]]
          /\ held'[c] \in 0..MaxLine /\ held' = [held EXCEPT ![c] = held'[c]]
      BY <1>1, CountedRow, SizeAssumption
    <3>2. buffer'[c] \in Seq(DataLine)
      BY <2>1, NoLines, Zenon
    <3>3. eventBytes'[c] \in 0..eventBytes[c]
      BY <2>1
    <3>4. UNCHANGED <<attempt, posted, billable>>
      BY <1>1 DEF Counted
    <3> QED
      BY <1>1, <2>1, <2>3, <3>1, <3>2, <3>3, <3>4, ReturnStep
  <2>4. ASSUME NEW n \in 0..eventBytes[c], Yield(c, n) PROVE TypeOK' /\ IInv'
    BY <1>1, <1>3, <2>1, <2>4, YieldStep
  <2>5. CASE Yield(c, 0) \/ \E n \in 1..eventBytes[c] : Yield(c, n)
    <3>1. 0 \in 0..eventBytes[c] /\ \A n \in 1..eventBytes[c] : n \in 0..eventBytes[c]
      BY <2>1
    <3> QED
      BY <2>4, <2>5, <3>1
  <2> QED
    BY <1>3, <2>2, <2>3, <2>5 DEF Event
<1>4. CASE size[c] + LineBytes(c) <= MaxBytes /\ (DataArrives(c) \/ Ignored(c))
  BY <1>1, <1>4, LineKept
<1> QED
  BY <1>2, <1>3, <1>4 DEF Line

-----------------------------------------------------------------------------
(* The theorems *)

LEMMA StepKeeps == ASSUME TypeOK, IInv, NEW c \in Call, Step(c) PROVE TypeOK' /\ IInv'
  BY StartStep, PostStep, RateLimitedStep, RetryStep, StatusStep, NetworkFailsStep,
     CancelStep, ChunkStep, BodyEndsStep, PieceStep, LineStep, StreamEndsStep DEF Step

\* The inductive invariant of complete and collect_stream.
THEOREM Inductive == Spec => [](TypeOK /\ IInv)
<1>1. Init => TypeOK /\ IInv
  BY TypedInit, CallsInit
<1>2. ASSUME TypeOK, IInv, [Next]_vars PROVE TypeOK' /\ IInv'
  <2>1. CASE \E c \in Call : Step(c)
    BY <1>2, <2>1, StepKeeps
  <2>2. CASE UNCHANGED vars
    <3>1. TypeOK'
      BY <1>2, <2>2 DEF TypeOK, vars, bodyVars, lineVars
    <3>2. IInv'
      BY <1>2, <2>2 DEF IInv, CallInv, vars, bodyVars, lineVars
    <3> QED
      BY <3>1, <3>2
  <2> QED
    BY <1>2, <2>1, <2>2 DEF Next, Terminating
<1> QED
  BY <1>1, <1>2, PTL DEF Spec

\* Every variable has its type, whatever arrives and however many calls run.
THEOREM Typing == Spec => []TypeOK
  BY Inductive, PTL

\* A request that may have been billed is never sent again.
THEOREM NeverReplayed == Spec => []NotReplayed
<1>1. IInv => NotReplayed
  BY DEF IInv, CallInv, NotReplayed
<1> QED
  BY <1>1, Inductive, PTL

\* A result is the whole answer of the one attempt that was not rejected.
THEOREM WholeAnswers == Spec => []WholeAnswer
<1>1. IInv => WholeAnswer
  BY DEF IInv, CallInv, WholeAnswer
<1> QED
  BY <1>1, Inductive, PTL

\* What the parser keeps, collected text and the event being read together,
\* stays within MAX_RESPONSE_BYTES, and the text within MAX_TEXT_BYTES, for
\* lines of any length; the line that has not ended is not part of it.
THEOREM MemoryBounded == Spec => []Bounded
<1>1. IInv => Bounded
  BY DEF IInv, CallInv, Bounded
<1> QED
  BY <1>1, Inductive, PTL

-----------------------------------------------------------------------------
(* The promise of Upstream: each step is one of its steps or a stutter *)

\* How one call looks, by its place.
LEMMA LinkOfCall ==
  ASSUME TypeOK, IInv, NEW c \in Call
  PROVE  /\ at[c] = "idle" => linkOf[c] = "idle"
         /\ at[c] = "pool" => attempt[c] \in 1..2
         /\ at[c] = "pool" /\ attempt[c] = 1 => linkOf[c] = "idle"
         /\ at[c] = "pool" /\ attempt[c] = 2 => linkOf[c] = "rejected"
         /\ at[c] = "backoff" => linkOf[c] = "rejected"
         /\ at[c] \in {"posted", "reading"} => linkOf[c] = "posted"
         /\ at[c] = "done" => linkOf[c] = IF outcome[c] = "ok" THEN "ok" ELSE "failed"
<1>1. Typed(c) /\ CallInv(c)
  BY RowTyped DEF IInv
<1> QED
  BY <1>1 DEF linkOf, Link, Typed, CallInv

\* How the other calls look does not change.
LEMMA LinkFrame ==
  ASSUME TypeOK, NEW c \in Call,
         at' = at \/ at' = [at EXCEPT ![c] = at'[c]],
         attempt' = attempt \/ attempt' = [attempt EXCEPT ![c] = attempt'[c]],
         outcome' = outcome \/ outcome' = [outcome EXCEPT ![c] = outcome'[c]]
  PROVE  linkOf' = [linkOf EXCEPT ![c] = linkOf'[c]]
<1>1. ASSUME NEW d \in Call, d # c PROVE linkOf'[d] = linkOf[d]
  <2>1. at'[d] = at[d] /\ attempt'[d] = attempt[d] /\ outcome'[d] = outcome[d]
    BY <1>1 DEF TypeOK
  <2> QED
    BY <2>1 DEF linkOf, Link
<1>2. linkOf = [d \in Call |-> Link(d)] /\ linkOf' = [d \in Call |-> Link(d)']
  BY DEF linkOf
<1> QED
  BY <1>1, <1>2

\* A call that ends with a result has succeeded, with anything else failed.
LEMMA EndMap ==
  ASSUME TypeOK, IInv, TypeOK', IInv', NEW c \in Call, NEW kind, NEW n, End(c, kind, n),
         at[c] # "done", kind = "ok" => at[c] = "reading",
         UNCHANGED <<attempt, posted, billable>>
  PROVE  Up!UpstreamNext
<1>1. at'[c] = "done" /\ outcome'[c] = kind
  BY EndRow
<1>2. linkOf' = [linkOf EXCEPT ![c] = linkOf'[c]]
  BY EndRow, LinkFrame
<1>3. linkOf'[c] = IF outcome'[c] = "ok" THEN "ok" ELSE "failed"
  BY <1>1 DEF linkOf, Link
<1>4. at[c] \in Place
  BY DEF TypeOK
<1>5. linkOf[c] \in {"idle", "posted", "rejected"}
  BY <1>4, LinkOfCall DEF Place
<1>6. CASE kind = "ok"
  <2>1. linkOf[c] = "posted"
    BY <1>6, LinkOfCall
  <2>2. Up!Succeed(c)
    BY <1>1, <1>2, <1>3, <1>6, <2>1 DEF Up!Succeed, Up!LinkTo
  <2> QED
    BY <2>2 DEF Up!UpstreamNext
<1>7. CASE kind # "ok"
  <2>1. Up!Fail(c)
    BY <1>1, <1>2, <1>3, <1>5, <1>7 DEF Up!Fail, Up!LinkTo
  <2> QED
    BY <2>1 DEF Up!UpstreamNext
<1> QED
  BY <1>6, <1>7

\* A step that moves a call without changing how it looks.
LEMMA StutterMap ==
  ASSUME TypeOK, NEW c \in Call,
         at' = at \/ at' = [at EXCEPT ![c] = at'[c]],
         attempt' = attempt \/ attempt' = [attempt EXCEPT ![c] = attempt'[c]],
         outcome' = outcome, UNCHANGED <<posted, billable>>,
         linkOf'[c] = linkOf[c]
  PROVE  UNCHANGED Up!upstreamVars
<1>1. linkOf' = [linkOf EXCEPT ![c] = linkOf[c]]
  BY LinkFrame
<1>2. linkOf = [d \in Call |-> Link(d)]
  BY DEF linkOf
<1>3. linkOf' = linkOf
  BY <1>1, <1>2
<1> QED
  BY <1>3 DEF Up!upstreamVars

LEMMA AttemptMap ==
  ASSUME TypeOK, IInv, TypeOK', IInv', NEW c \in Call, NEW n \in 1..2,
         at[c] = IF n = 1 THEN "idle" ELSE "backoff", Attempt(c, n)
  PROVE  UNCHANGED Up!upstreamVars
<1>1. /\ at'[c] = "pool" /\ attempt'[c] = n
      /\ at' = [at EXCEPT ![c] = at'[c]] /\ attempt' = [attempt EXCEPT ![c] = attempt'[c]]
      /\ UNCHANGED <<posted, billable, outcome>>
  BY DEF Attempt, Goto, TypeOK
<1>2. linkOf'[c] = IF n = 1 THEN "idle" ELSE "rejected"
  BY <1>1 DEF linkOf, Link
<1>3. linkOf[c] = IF n = 1 THEN "idle" ELSE "rejected"
  BY LinkOfCall
<1> QED
  BY <1>1, <1>2, <1>3, StutterMap

LEMMA PostMap ==
  ASSUME TypeOK, IInv, TypeOK', IInv', NEW c \in Call, Post(c)
  PROVE  Up!UpstreamNext
<1>1. /\ at[c] = "pool" /\ at'[c] = "posted" /\ at' = [at EXCEPT ![c] = at'[c]]
      /\ UNCHANGED <<attempt, outcome>>
  BY DEF Post, Goto, TypeOK
<1>2. linkOf' = [linkOf EXCEPT ![c] = linkOf'[c]]
  BY <1>1, LinkFrame
<1>3. linkOf'[c] = "posted"
  BY <1>1 DEF linkOf, Link
<1>4. linkOf[c] \in {"idle", "rejected"}
  BY <1>1, LinkOfCall
<1>5. Up!Post(c)
  BY <1>2, <1>3, <1>4 DEF Up!Post, Up!LinkTo, Post
<1> QED
  BY <1>5 DEF Up!UpstreamNext

LEMMA RateLimitedMap ==
  ASSUME TypeOK, IInv, TypeOK', IInv', NEW c \in Call, RateLimited(c)
  PROVE  Up!UpstreamNext
<1>1. /\ at[c] = "posted" /\ UNCHANGED <<attempt, posted>>
      /\ billable' = [billable EXCEPT ![c] = @ - 1]
  BY DEF RateLimited
<1>2. posted[c] = attempt[c]
  BY <1>1 DEF IInv, CallInv
<1>3. linkOf[c] = "posted"
  BY <1>1, LinkOfCall
<1>4. linkOf' = [linkOf EXCEPT ![c] = IF posted[c] = 1 THEN "rejected" ELSE "failed"]
  <2>1. CASE attempt[c] = 2 /\ Raise(c, "rate_limited")
    <3>1. End(c, "rate_limited", attempt[c])
      BY <2>1 DEF Raise
    <3>2. at'[c] = "done" /\ outcome'[c] = "rate_limited"
      BY <3>1, EndRow
    <3>3. linkOf'[c] = "failed"
      BY <3>2 DEF linkOf, Link
    <3>4. linkOf' = [linkOf EXCEPT ![c] = linkOf'[c]]
      BY <1>1, <3>1, EndRow, LinkFrame
    <3> QED
      BY <1>2, <2>1, <3>3, <3>4
  <2>2. CASE attempt[c] = 1 /\ Goto(c, "backoff") /\ UNCHANGED <<outcome, reported>>
    <3>1. at'[c] = "backoff"
      BY <2>2, GotoRow
    <3>2. linkOf'[c] = "rejected"
      BY <3>1 DEF linkOf, Link
    <3>3. linkOf' = [linkOf EXCEPT ![c] = linkOf'[c]]
      BY <1>1, <2>2, GotoRow, LinkFrame
    <3> QED
      BY <1>2, <2>2, <3>2, <3>3
  <2> QED
    BY <2>1, <2>2 DEF RateLimited
<1>5. Up!Reject(c)
  BY <1>1, <1>3, <1>4 DEF Up!Reject, Up!LinkTo, Up!NotBilled
<1> QED
  BY <1>5 DEF Up!UpstreamNext

\* What a step of a call that is being read does to how it looks.
LEMMA ReadingMap ==
  ASSUME TypeOK, IInv, TypeOK', IInv', NEW c \in Call, at[c] = "reading",
         UNCHANGED <<attempt, posted, billable>>,
         (\E kind \in Outcome, n \in 0..2 : End(c, kind, n)) \/ UNCHANGED <<at, outcome>>
  PROVE  Up!UpstreamNext \/ UNCHANGED Up!upstreamVars
<1>1. ASSUME NEW kind \in Outcome, NEW n \in 0..2, End(c, kind, n) PROVE Up!UpstreamNext
  BY <1>1, EndMap
<1>2. CASE UNCHANGED <<at, outcome>>
  <2>1. linkOf' = linkOf
    BY <1>2 DEF linkOf, Link
  <2> QED
    BY <2>1 DEF Up!upstreamVars
<1> QED
  BY <1>1, <1>2

\* A reading step ends the call or leaves it where it is.
LEMMA ReadingEnds ==
  ASSUME TypeOK, NEW c \in Call, Chunk(c) \/ BodyEnds(c) \/ Piece(c) \/ Line(c) \/ StreamEnds(c)
  PROVE  /\ at[c] = "reading" /\ UNCHANGED <<attempt, posted, billable>>
         /\ (\E kind \in Outcome, n \in 0..2 : End(c, kind, n)) \/ UNCHANGED <<at, outcome>>
<1>1. attempt[c] \in 0..2 /\ seen[c] \in 0..2
  BY DEF TypeOK
<1>2. ASSUME NEW kind \in Error, Raise(c, kind)
      PROVE  \E k \in Outcome, n \in 0..2 : End(c, k, n)
  BY <1>1, <1>2 DEF Raise, Outcome
<1>3. ASSUME Return(c) PROVE \E k \in Outcome, n \in 0..2 : End(c, k, n)
  BY <1>1, <1>3 DEF Return, Outcome, Error
<1>4. CASE Chunk(c) \/ Piece(c)
  BY <1>2, <1>4 DEF Chunk, Piece, Error
<1>5. CASE BodyEnds(c)
  <2>1. CASE End(c, "ok", attempt[c]) \/ End(c, "unhandled", 0)
    BY <1>1, <1>5, <2>1 DEF BodyEnds, Outcome
  <2>2. CASE Raise(c, "too_large") \/ Raise(c, "invalid")
    BY <1>2, <1>5, <2>2 DEF BodyEnds, Error
  <2> QED
    BY <1>5, <2>1, <2>2 DEF BodyEnds
<1>6. CASE Line(c)
  <2>1. at[c] = "reading" /\ UNCHANGED <<attempt, posted, billable>>
    BY <1>6 DEF Line
  <2>2. CASE Raise(c, "too_large")
    BY <1>2, <2>1, <2>2 DEF Error
  <2>3. CASE DataArrives(c) \/ Ignored(c)
    BY <2>1, <2>3 DEF DataArrives, Ignored
  <2>4. CASE Event(c)
    <3>1. CASE Raise(c, "event_too_large") \/ Raise(c, "invalid")
      BY <1>2, <2>1, <3>1 DEF Error
    <3>2. CASE Return(c)
      BY <1>3, <2>1, <3>2
    <3>3. ASSUME NEW n, Yield(c, n)
          PROVE  Raise(c, "too_large") \/ UNCHANGED <<at, outcome>>
      BY <3>3 DEF Yield
    <3>4. CASE Yield(c, 0) \/ \E n \in 1..eventBytes[c] : Yield(c, n)
      BY <2>1, <2>2, <3>3, <3>4
    <3> QED
      BY <2>4, <3>1, <3>2, <3>4 DEF Event
  <2> QED
    BY <1>6, <2>2, <2>3, <2>4 DEF Line
<1>7. CASE StreamEnds(c)
  BY <1>2, <1>3, <1>7 DEF StreamEnds, Error
<1> QED
  BY <1>4, <1>5, <1>6, <1>7

LEMMA StepMap ==
  ASSUME TypeOK, IInv, TypeOK', IInv', NEW c \in Call, Step(c)
  PROVE  Up!UpstreamNext \/ UNCHANGED Up!upstreamVars
<1>1. CASE Start(c)
  <2>1. CASE Attempt(c, 1)
    BY <1>1, <2>1, AttemptMap DEF Start
  <2>2. CASE End(c, "credentials_missing", 0) /\ UNCHANGED <<attempt, posted, billable>>
    BY <1>1, <2>2, EndMap DEF Start
  <2> QED
    BY <1>1, <2>1, <2>2 DEF Start
<1>2. CASE Post(c) \/ RateLimited(c)
  BY <1>2, PostMap, RateLimitedMap
<1>3. CASE Retry(c)
  BY <1>3, AttemptMap DEF Retry
<1>4. CASE Status(c)
  <2>1. at[c] = "posted" /\ UNCHANGED <<attempt, posted, billable>>
    BY <1>4 DEF Status
  <2>2. CASE Goto(c, "reading") /\ UNCHANGED <<outcome, reported>>
    <3>1. at'[c] = "reading" /\ at' = [at EXCEPT ![c] = at'[c]]
      BY <2>2, GotoRow
    <3>2. linkOf'[c] = "posted" /\ linkOf[c] = "posted"
      BY <2>1, <3>1 DEF linkOf, Link
    <3> QED
      BY <2>1, <2>2, <3>1, <3>2, StutterMap
  <2>3. CASE Raise(c, "status")
    BY <2>1, <2>3, EndMap DEF Raise
  <2> QED
    BY <1>4, <2>2, <2>3 DEF Status
<1>5. CASE NetworkFails(c)
  <2>1. at[c] # "done" /\ UNCHANGED <<attempt, posted, billable>>
    BY <1>5 DEF NetworkFails
  <2>2. End(c, "timeout", attempt[c]) \/ End(c, "transport", attempt[c])
    BY <1>5 DEF NetworkFails, Raise
  <2> QED
    BY <2>1, <2>2, EndMap
<1>6. CASE Cancel(c)
  BY <1>6, EndMap DEF Cancel
<1>7. CASE Chunk(c) \/ BodyEnds(c) \/ Piece(c) \/ Line(c) \/ StreamEnds(c)
  BY <1>7, ReadingEnds, ReadingMap
<1> QED
  BY <1>1, <1>2, <1>3, <1>4, <1>5, <1>6, <1>7 DEF Step

\* complete and collect_stream keep the promise of Upstream.
THEOREM Promise == Spec => KeepsPromise
<1>1. Init => Up!UpstreamInit
  BY DEF Init, Up!UpstreamInit, linkOf, Link
<1>2. ASSUME TypeOK, IInv, TypeOK', IInv', [Next]_vars
      PROVE  [Up!UpstreamNext]_Up!upstreamVars
  <2>1. CASE \E c \in Call : Step(c)
    BY <1>2, <2>1, StepMap
  <2>2. CASE UNCHANGED vars
    BY <2>2 DEF vars, Up!upstreamVars, linkOf, Link
  <2> QED
    BY <1>2, <2>1, <2>2 DEF Next, Terminating
<1> QED
  BY <1>1, <1>2, Inductive, PTL DEF Spec, KeepsPromise, Up!UpstreamSpec

=============================================================================
