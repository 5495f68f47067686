---------------------------- MODULE ReleaseProofs ----------------------------
(* What TLAPS proves about Release, for any paths, versions, commits, trees  *)
(* and number of builds.                                                     *)
EXTENDS Release, FoldLemmas

-----------------------------------------------------------------------------
(* What the reader makes of Git's fields *)

Field == Path \cup {<<"M">>, <<"R">>, <<>>}
ReadState == [owed : 0..2, paths : Seq(Field), bad : BOOLEAN]
Start == [owed |-> 0, paths |-> <<>>, bad |-> FALSE]
ReadOf(fields) == FoldLeft(TakeField, Start, fields)

\* The reader keeps a small counter, the paths so far, and whether it gave up.
LEMMA ReadTyped ==
  /\ Start \in ReadState
  /\ \A read \in ReadState, field \in Field : TakeField(read, field) \in ReadState
<1>1. Start \in ReadState /\ Malformed \in ReadState
  BY DEF Start, ReadState, Malformed
<1>2. ASSUME NEW read \in ReadState, NEW field \in Field PROVE TakeField(read, field) \in ReadState
  <2>1. /\ read.owed \in 0..2 /\ read.paths \in Seq(Field) /\ read.bad \in BOOLEAN
        /\ read = [owed |-> read.owed, paths |-> read.paths, bad |-> read.bad]
    BY DEF ReadState
  <2>2. ASSUME read.owed > 0
        PROVE  [read EXCEPT !.owed = @ - 1, !.paths = Append(@, field)] \in ReadState
    <3>1. read.owed - 1 \in 0..2 /\ Append(read.paths, field) \in Seq(Field)
      BY <2>1, <2>2
    <3>. QED
      BY <2>1, <3>1 DEF ReadState
  <2>3. [read EXCEPT !.owed = IF field = <<"R">> THEN 2 ELSE 1] \in ReadState
    BY <2>1 DEF ReadState
  <2>. QED
    BY <1>1, <2>1, <2>2, <2>3 DEF TakeField
<1>. QED
  BY <1>1, <1>2

\* The state after a status, and after a path.
LEMMA StatusTaken ==
  ASSUME NEW read \in ReadState, read.owed = 0, read.bad = FALSE, NEW k \in Field, k # <<>>
  PROVE  /\ TakeField(read, k).owed = IF k = <<"R">> THEN 2 ELSE 1
         /\ TakeField(read, k).bad = FALSE /\ TakeField(read, k).paths = read.paths
<1>1. TakeField(read, k) = [read EXCEPT !.owed = IF k = <<"R">> THEN 2 ELSE 1]
  BY DEF TakeField
<1>. QED
  BY <1>1 DEF ReadState

LEMMA PathTaken ==
  ASSUME NEW read \in ReadState, read.owed > 0, read.bad = FALSE, NEW p \in Field, p # <<>>
  PROVE  /\ TakeField(read, p).owed = read.owed - 1
         /\ TakeField(read, p).bad = FALSE /\ TakeField(read, p).paths = Append(read.paths, p)
<1>1. TakeField(read, p) = [read EXCEPT !.owed = @ - 1, !.paths = Append(@, p)]
  BY DEF TakeField
<1>. QED
  BY <1>1 DEF ReadState

\* The largest index of a set of indices.
LEMMA LargestIndex ==
  ASSUME NEW n \in Nat, NEW t \in SUBSET (1..n), t # {}
  PROVE  Max(t) \in t /\ \A i \in t : i <= Max(t)
<1>. DEFINE T == {n - i : i \in t}
<1>0. \A i \in t : i \in Int /\ n - i \in Nat
  OBVIOUS
<1>1. T \in SUBSET Nat /\ T # {}
  BY <1>0
<1>2. PICK m \in T : \A j \in T : m <= j
  BY <1>1, LeastNatural
<1>3. PICK i \in t : m = n - i
  BY <1>2
<1>4. ASSUME NEW j \in t PROVE i >= j
  <2>1. n - i <= n - j
    BY <1>2, <1>3
  <2>. QED
    BY <1>0, <2>1
<1>5. \E x \in t : \A y \in t : x >= y
  BY <1>4
<1>. QED
  BY <1>5 DEF Max

\* The state after each field.
Chained(s, h) == h[0] = Start /\ \A i \in 1..Len(s) : h[i] = TakeField(h[i - 1], s[i])

ReadBy(s, iter) ==
  iter = [t \in SUBSET DOMAIN s |->
            IF t = {} THEN Start ELSE TakeField(iter[t \ {Max(t)}], s[Max(t)])]

\* The fold over the fields is the state after each field in turn.
LEMMA ReadUnfolds ==
  ASSUME NEW s \in Seq(Field)
  PROVE  \E h \in [0..Len(s) -> ReadState] : Chained(s, h) /\ ReadOf(s) = h[Len(s)]
<1>. DEFINE n == Len(s)
            pick == [t \in SUBSET (1..n) |-> Max(t)]
            step == [i \in 1..n |-> [v \in ReadState |-> TakeField(v, s[i])]]
            c == CHOOSE iter : ReadBy(s, iter)
            h == [i \in 0..n |-> c[1..i]]
<1>1. n \in Nat /\ DOMAIN s = 1..n /\ \A i \in 1..n : s[i] \in Field
  OBVIOUS
<1>2. Picks(1..n, pick)
  BY <1>1, LargestIndex DEF Picks
<1>3. step \in [1..n -> [ReadState -> ReadState]]
  BY <1>1, ReadTyped
<1>4. IsFiniteSet(1..n)
  BY <1>1, FS_Interval
<1>. HIDE DEF step, pick
<1>5. PICK iter \in [SUBSET (1..n) -> ReadState] : Folded(1..n, Start, step, pick, iter)
  BY <1>2, <1>3, <1>4, ReadTyped, SetFoldExists
<1>6. ReadBy(s, iter)
  <2>1. ASSUME NEW t \in SUBSET (1..n), t # {}
        PROVE  iter[t] = TakeField(iter[t \ {Max(t)}], s[Max(t)])
    <3>1. pick[t] = Max(t) /\ Max(t) \in 1..n /\ iter[t \ {Max(t)}] \in ReadState
      BY <1>1, <2>1, LargestIndex DEF pick
    <3>2. iter[t] = step[pick[t]][iter[t \ {pick[t]}]]
      BY <1>5, <2>1 DEF Folded
    <3>. QED
      BY <3>1, <3>2 DEF step
  <2>2. iter[{}] = Start
    BY <1>5 DEF Folded
  <2>. QED
    BY <1>1, <1>5, <2>1, <2>2 DEF ReadBy
<1>7. ReadBy(s, c)
  BY <1>6
<1>. HIDE DEF c
<1>8. h[0] = Start
  BY <1>1, <1>7 DEF ReadBy
<1>9. ASSUME NEW i \in 1..n PROVE h[i] = TakeField(h[i - 1], s[i])
  <2>1. 1..i \in SUBSET (1..n) /\ 1..i # {} /\ i \in Nat
    <3>1. i \in Nat /\ 1 <= i /\ i <= n /\ i \in 1..i
      BY <1>1
    <3>2. \A j \in 1..i : j \in 1..n
      BY <1>1, <3>1
    <3>. QED
      BY <3>1, <3>2
  <2>2. Max(1..i) = i
    <3>1. Max(1..i) \in 1..i /\ \A j \in 1..i : j <= Max(1..i)
      BY <2>1, LargestIndex
    <3>. QED
      BY <2>1, <3>1
  <2>3. (1..i) \ {i} = 1..(i - 1)
    BY <2>1
  <2>4. c[1..i] = TakeField(c[(1..i) \ {Max(1..i)}], s[Max(1..i)])
    BY <1>1, <1>7, <2>1 DEF ReadBy
  <2>5. c[1..i] = TakeField(c[1..(i - 1)], s[i])
    BY <2>2, <2>3, <2>4
  <2>6. i \in 0..n /\ i - 1 \in 0..n
    BY <1>1
  <2>. QED
    BY <2>5, <2>6
<1>10. \A i \in 0..n : h[i] \in ReadState
  <2>. DEFINE T == {i \in Nat : i \in 0..n => h[i] \in ReadState}
  <2>. HIDE DEF h
  <2>1. 0 \in T
    BY <1>8, ReadTyped
  <2>2. ASSUME NEW i \in Nat, i \in T PROVE i + 1 \in T
    <3>. SUFFICES ASSUME i + 1 \in 0..n PROVE h[i + 1] \in ReadState
      OBVIOUS
    <3>1. i + 1 \in 1..n /\ i \in 0..n /\ i + 1 - 1 = i
      BY <1>1
    <3>2. h[i] \in ReadState
      BY <2>2, <3>1
    <3>. QED
      BY <1>1, <1>9, <3>1, <3>2, ReadTyped
  <2>. HIDE DEF T
  <2>3. \A i \in Nat : i \in T
    BY <2>1, <2>2, NatSetInduction
  <2>. QED
    BY <2>3 DEF T
<1>11. ReadOf(s) = c[DOMAIN s]
  BY DEF ReadOf, FoldLeft, MapThenFoldSet, ReadBy, c
<1>12. h \in [0..n -> ReadState] /\ ReadOf(s) = h[n]
  BY <1>1, <1>10, <1>11
<1>13. Chained(s, h)
  BY <1>8, <1>9 DEF Chained
<1>. QED
  BY <1>12, <1>13

\* Two readings that begin alike are alike as far as they begin alike.
LEMMA ChainsAgree ==
  ASSUME NEW s, NEW t, NEW g, NEW h, Chained(s, g), Chained(t, h), NEW n \in Nat,
         Len(s) \in Nat, Len(t) \in Nat, n <= Len(s), n <= Len(t), \A i \in 1..n : s[i] = t[i]
  PROVE  g[n] = h[n]
<1>. DEFINE T == {i \in Nat : i <= n => g[i] = h[i]}
<1>1. 0 \in T
  BY DEF Chained
<1>2. ASSUME NEW i \in Nat, i \in T PROVE i + 1 \in T
  <2>. SUFFICES ASSUME i + 1 <= n PROVE g[i + 1] = h[i + 1]
    OBVIOUS
  <2>1. i + 1 \in 1..n /\ i + 1 \in 1..Len(s) /\ i + 1 \in 1..Len(t) /\ i + 1 - 1 = i
    OBVIOUS
  <2>2. g[i + 1] = TakeField(g[i], s[i + 1]) /\ h[i + 1] = TakeField(h[i], t[i + 1])
    BY <2>1 DEF Chained
  <2>. QED
    BY <1>2, <2>1, <2>2
<1>. HIDE DEF T
<1>3. \A i \in Nat : i \in T
  BY <1>1, <1>2, NatSetInduction
<1>. QED
  BY <1>3 DEF T

\* One more field is read in the state that the fields before it leave.
LEMMA ReadMore ==
  ASSUME NEW s \in Seq(Field), NEW x \in Field
  PROVE  ReadOf(s) \in ReadState /\ ReadOf(Append(s, x)) = TakeField(ReadOf(s), x)
<1>. DEFINE t == Append(s, x)
<1>1. /\ t \in Seq(Field) /\ Len(s) \in Nat /\ Len(t) = Len(s) + 1
      /\ t[Len(s) + 1] = x /\ \A i \in 1..Len(s) : s[i] = t[i]
  OBVIOUS
<1>. HIDE DEF t
<1>2. PICK g \in [0..Len(s) -> ReadState] : Chained(s, g) /\ ReadOf(s) = g[Len(s)]
  BY ReadUnfolds
<1>3. PICK h \in [0..Len(t) -> ReadState] : Chained(t, h) /\ ReadOf(t) = h[Len(t)]
  BY <1>1, ReadUnfolds
<1>4. g[Len(s)] = h[Len(s)]
  BY <1>1, <1>2, <1>3, ChainsAgree
<1>5. h[Len(s) + 1] = TakeField(h[Len(s)], t[Len(s) + 1])
  BY <1>1, <1>3 DEF Chained
<1>. QED
  BY <1>1, <1>2, <1>3, <1>4, <1>5 DEF t

\* Nothing has been read of an empty list.
LEMMA ReadNothing == ReadOf(<<>>) = Start
<1>1. <<>> \in Seq(Field) /\ Len(<<>>) = 0
  OBVIOUS
<1>. QED
  BY <1>1, ReadUnfolds DEF Chained

-----------------------------------------------------------------------------
(* What Git writes is read back *)

Written(change) == <<change.kind>> \o change.paths

\* The last element and what is in front of it.
LEMMA FrontOfAppend ==
  ASSUME NEW S, NEW s \in Seq(S), NEW x \in S
  PROVE  Front(Append(s, x)) = s /\ Last(Append(s, x)) = x
<1>1. Len(Append(s, x)) = Len(s) + 1 /\ Len(s) \in Nat
  OBVIOUS
<1>2. SubSeq(Append(s, x), 1, Len(s)) = s
  OBVIOUS
<1>. QED
  BY <1>1, <1>2 DEF Front, Last

\* The elements of two lists, one after the other.
LEMMA RangeOfConcatenation ==
  ASSUME NEW S, NEW s \in Seq(S), NEW t \in Seq(S)
  PROVE  Range(s \o t) = Range(s) \cup Range(t)
<1>. DEFINE u == s \o t
<1>1. /\ Len(s) \in Nat /\ Len(t) \in Nat /\ Len(u) = Len(s) + Len(t)
      /\ DOMAIN s = 1..Len(s) /\ DOMAIN t = 1..Len(t) /\ DOMAIN u = 1..Len(s) + Len(t)
      /\ \A i \in 1..Len(s) : u[i] = s[i]
      /\ \A i \in 1..Len(t) : u[Len(s) + i] = t[i]
      /\ \A i \in 1..Len(u) : i \notin 1..Len(s) => i - Len(s) \in 1..Len(t) /\ u[i] = t[i - Len(s)]
  OBVIOUS
<1>. HIDE DEF u
<1>2. \A i \in DOMAIN u : u[i] \in Range(s) \cup Range(t)
  BY <1>1 DEF Range
<1>3. \A i \in DOMAIN s : i \in DOMAIN u /\ u[i] = s[i]
  BY <1>1
<1>4. \A i \in DOMAIN t : Len(s) + i \in DOMAIN u /\ u[Len(s) + i] = t[i]
  BY <1>1
<1>5. \A x \in Range(u) : x \in Range(s) \cup Range(t)
  BY <1>2 DEF Range
<1>6. \A x \in Range(s) : x \in Range(u)
  BY <1>3 DEF Range
<1>7. \A x \in Range(t) : x \in Range(u)
  BY <1>4 DEF Range
<1>8. Range(u) = Range(s) \cup Range(t)
  BY <1>5, <1>6, <1>7
<1>. QED
  BY <1>8 DEF u

\* A change is a letter and one path, or two.
LEMMA ChangeTyped ==
  ASSUME NEW change \in Change \cup Move
  PROVE  /\ change.kind \in Field /\ change.kind # <<>>
         /\ change.paths \in Seq(Path)
         /\ \/ change.kind # <<"R">> /\ \E p \in Path : change.paths = <<p>>
            \/ change.kind = <<"R">> /\ \E p, q \in Path : change.paths = <<p, q>>
<1>1. <<"M">> \in Field /\ <<"R">> \in Field /\ <<"M">> # <<"R">> /\ <<"M">> # <<>> /\ <<"R">> # <<>>
  <2>1. <<"M">> \in Field /\ <<"R">> \in Field
    BY DEF Field
  <2>2. <<"M">>[1] # <<"R">>[1] /\ Len(<<"M">>) = 1 /\ Len(<<"R">>) = 1 /\ Len(<<>>) = 0
    OBVIOUS
  <2>. QED
    BY <2>1, <2>2
<1>2. CASE change \in Change
  <2>1. change.kind = <<"M">> /\ \E p \in Path : change.paths = <<p>>
    BY <1>2 DEF Change
  <2>. QED
    BY <1>1, <2>1
<1>3. CASE change \in Move
  <2>1. change.kind = <<"R">> /\ \E p, q \in Path : change.paths = <<p, q>>
    BY <1>3 DEF Move
  <2>. QED
    BY <1>1, <2>1
<1>. QED
  BY <1>2, <1>3

\* A path is a field that is not empty.
LEMMA PathTyped ==
  ASSUME NEW p \in Path
  PROVE  p \in Field /\ p # <<>>
BY PathAssumption DEF Field

\* A path that is owed is read.
LEMMA ReadPath ==
  ASSUME NEW t \in Seq(Field), NEW p \in Path, NEW n \in Nat, ReadOf(t).owed = n + 1,
         ReadOf(t).bad = FALSE
  PROVE  /\ Append(t, p) \in Seq(Field) /\ Front(Append(t, p)) = t
         /\ ReadOf(Append(t, p)).owed = n /\ ReadOf(Append(t, p)).bad = FALSE
         /\ ReadOf(Append(t, p)).paths = Append(ReadOf(t).paths, p)
<1>1. p \in Field /\ p # <<>> /\ ReadOf(t) \in ReadState
  BY PathTyped, ReadMore
<1>2. ReadOf(Append(t, p)) = TakeField(ReadOf(t), p)
  BY <1>1, ReadMore
<1>3. Append(t, p) \in Seq(Field)
  BY <1>1
<1>4. Front(Append(t, p)) = t
  BY <1>1, FrontOfAppend
<1>5. ReadOf(t).owed > 0 /\ n + 1 - 1 = n
  OBVIOUS
<1>6. /\ TakeField(ReadOf(t), p).owed = ReadOf(t).owed - 1
      /\ TakeField(ReadOf(t), p).bad = FALSE
      /\ TakeField(ReadOf(t), p).paths = Append(ReadOf(t).paths, p)
  BY <1>1, <1>5, PathTaken
<1>. QED
  BY <1>2, <1>3, <1>4, <1>5, <1>6

\* The fields of a change are added one by one.
LEMMA WrittenAppends ==
  ASSUME NEW s \in Seq(Field), NEW k \in Field, NEW P \in Seq(Field), NEW p \in Field, NEW q \in Field
  PROVE  /\ s \o (<<k>> \o <<p>>) = Append(Append(s, k), p)
         /\ s \o (<<k>> \o <<p, q>>) = Append(Append(Append(s, k), p), q)
         /\ P \o <<p>> = Append(P, p) /\ P \o <<p, q>> = Append(Append(P, p), q)
OBVIOUS

\* Between two changes the reader is owed nothing; within one it is owed the
\* path that a list which is cut off there lacks.
LEMMA ReadChange ==
  ASSUME NEW s \in Seq(Field), ReadOf(s).owed = 0, ReadOf(s).bad = FALSE,
         NEW change \in Change \cup Move
  PROVE  /\ s \o Written(change) \in Seq(Field)
         /\ ReadOf(s \o Written(change)).owed = 0 /\ ReadOf(s \o Written(change)).bad = FALSE
         /\ ReadOf(s \o Written(change)).paths = ReadOf(s).paths \o change.paths
         /\ Front(s \o Written(change)) \in Seq(Field)
         /\ ReadOf(Front(s \o Written(change))).owed = 1
         /\ ReadOf(Front(s \o Written(change))).bad = FALSE
<1>. DEFINE k == change.kind
            a == Append(s, k)
            P == ReadOf(s).paths
<1>1. k \in Field /\ k # <<>> /\ a \in Seq(Field)
  BY ChangeTyped
<1>2. ReadOf(s) \in ReadState /\ ReadOf(a) \in ReadState /\ P \in Seq(Field)
  BY <1>1, ReadMore DEF ReadState
<1>3. ReadOf(a) = TakeField(ReadOf(s), k)
  BY <1>1, ReadMore
<1>4. /\ ReadOf(a).owed = IF k = <<"R">> THEN 2 ELSE 1
      /\ ReadOf(a).bad = FALSE /\ ReadOf(a).paths = P
  BY <1>1, <1>2, <1>3, StatusTaken
<1>. HIDE DEF P
<1>6. CASE k # <<"R">>
  <2>1. PICK p \in Path : change.paths = <<p>>
    BY <1>6, ChangeTyped
  <2>2. s \o Written(change) = Append(a, p) /\ Append(P, p) = P \o <<p>>
    <3>1. p \in Field
      BY PathTyped
    <3>. QED
      BY <1>1, <1>2, <2>1, <3>1, WrittenAppends DEF Written
  <2>3. ReadOf(a).owed = 0 + 1 /\ ReadOf(a).owed = 1 /\ 0 \in Nat
    BY <1>4, <1>6
  <2>. HIDE DEF a, k
  <2>4. /\ Append(a, p) \in Seq(Field) /\ Front(Append(a, p)) = a
        /\ ReadOf(Append(a, p)).owed = 0 /\ ReadOf(Append(a, p)).bad = FALSE
        /\ ReadOf(Append(a, p)).paths = Append(P, p)
    BY <1>1, <1>4, <2>3, ReadPath
  <2>. QED
    BY <1>1, <1>4, <2>1, <2>2, <2>3, <2>4 DEF P
<1>7. CASE k = <<"R">>
  <2>1. PICK p \in Path, q \in Path : change.paths = <<p, q>>
    BY <1>7, ChangeTyped
  <2>. DEFINE b == Append(a, p)
  <2>2. s \o Written(change) = Append(b, q) /\ Append(Append(P, p), q) = P \o <<p, q>>
    <3>1. p \in Field /\ q \in Field
      BY PathTyped
    <3>. QED
      BY <1>1, <1>2, <2>1, <3>1, WrittenAppends DEF Written
  <2>3. ReadOf(a).owed = 1 + 1 /\ 1 \in Nat
    BY <1>4, <1>7
  <2>. HIDE DEF a, k
  <2>4. b \in Seq(Field) /\ ReadOf(b).owed = 1 /\ ReadOf(b).bad = FALSE /\ ReadOf(b).paths = Append(P, p)
    BY <1>1, <1>4, <2>3, ReadPath
  <2>. HIDE DEF b
  <2>5. /\ Append(b, q) \in Seq(Field) /\ Front(Append(b, q)) = b
        /\ ReadOf(Append(b, q)).owed = 0 /\ ReadOf(Append(b, q)).bad = FALSE
        /\ ReadOf(Append(b, q)).paths = Append(Append(P, p), q)
    <3>1. ReadOf(b).owed = 0 + 1 /\ 0 \in Nat
      BY <2>4
    <3>. QED
      BY <2>4, <3>1, ReadPath
  <2>. QED
    BY <2>1, <2>2, <2>4, <2>5 DEF P
<1>. QED
  BY <1>6, <1>7

\* What Git writes of the first so many changes.
Chunks(changes, f) ==
  /\ f[0] = <<>>
  /\ \A i \in 1..Len(changes) : f[i] = f[i - 1] \o Written(changes[i])

\* Git's output is the changes one after the other, and an empty field.
LEMMA FieldsUnfold ==
  ASSUME NEW changes \in Seq(Change \cup Move)
  PROVE  \E f \in [0..Len(changes) -> Seq(Field)] :
           /\ Chunks(changes, f)
           /\ Fields(changes) = Append(f[Len(changes)], <<>>)
<1>. DEFINE n == Len(changes)
            seqs == [i \in DOMAIN changes |-> Written(changes[i])]
            step == [i \in 1..n |-> [v \in Seq(Field) |-> v \o seqs[i]]]
            by(g) == g = [i \in 1..Len(seqs) |-> IF i = 1 THEN seqs[i] ELSE g[i - 1] \o seqs[i]]
            c == CHOOSE g : by(g)
<1>1. n \in Nat /\ DOMAIN changes = 1..n /\ \A i \in 1..n : changes[i] \in Change \cup Move
  OBVIOUS
<1>2. \A i \in 1..n : Written(changes[i]) \in Seq(Field)
  <2>. SUFFICES ASSUME NEW i \in 1..n PROVE Written(changes[i]) \in Seq(Field)
    OBVIOUS
  <2>1. changes[i].kind \in Field /\ changes[i].paths \in Seq(Path)
    BY <1>1, ChangeTyped
  <2>2. changes[i].paths \in Seq(Field)
    BY <2>1, PathTyped
  <2>. QED
    BY <2>1, <2>2 DEF Written
<1>3. /\ seqs \in [1..n -> Seq(Field)] /\ \A i \in 1..n : seqs[i] = Written(changes[i])
      /\ seqs \in Seq(Seq(Field)) /\ Len(seqs) = n
  BY <1>1, <1>2
<1>. HIDE DEF seqs
<1>4. step \in [1..n -> [Seq(Field) -> Seq(Field)]] /\ <<>> \in Seq(Field)
  BY <1>3
<1>. HIDE DEF step
<1>5. PICK f \in [0..n -> Seq(Field)] :
        Along(n, <<>>, step, f)
  BY <1>1, <1>4, ChainExists
<1>5a. f[0] = <<>> /\ \A i \in 1..n : f[i] = step[i][f[i - 1]]
  BY <1>5 DEF Along
<1>6. ASSUME NEW i \in 1..n PROVE f[i] = f[i - 1] \o seqs[i]
  <2>1. f[i - 1] \in Seq(Field)
    BY <1>1, <1>5
  <2>. QED
    BY <1>5a, <2>1 DEF step
<1>6a. ASSUME NEW i \in 1..n, i = 1 PROVE f[i] = seqs[i]
  <2>1. i - 1 = 0 /\ seqs[i] \in Seq(Field)
    BY <1>3, <1>6a
  <2>2. f[i] = <<>> \o seqs[i]
    BY <1>5a, <1>6, <2>1
  <2>. QED
    BY <2>1, <2>2
<1>7. Chunks(changes, f)
  BY <1>3, <1>5a, <1>6 DEF Chunks
<1>8. FlattenSeq(seqs) = f[n]
  <2>1. CASE n = 0
    BY <1>3, <1>5a, <2>1 DEF FlattenSeq
  <2>2. CASE n # 0
    <3>1. by([i \in 1..n |-> f[i]])
      <4>1. \A i \in 1..n : i = 1 => f[i] = seqs[i]
        BY <1>6a
      <4>2. \A i \in 1..n : i # 1 => i - 1 \in 1..n
        BY <1>1
      <4>. QED
        BY <1>3, <1>6, <4>1, <4>2
    <3>2. by(c)
      BY <3>1
    <3>. HIDE DEF c
    <3>0. \A j \in 1..n : c[j] = IF j = 1 THEN seqs[j] ELSE c[j - 1] \o seqs[j]
      BY <1>3, <3>2
    <3>3. \A i \in Nat : i + 1 \in 1..n => c[i + 1] = f[i + 1]
      <4>. DEFINE T == {i \in Nat : i + 1 \in 1..n => c[i + 1] = f[i + 1]}
      <4>1. ASSUME NEW j \in 1..n, j = 1 \/ c[j - 1] = f[j - 1] PROVE c[j] = f[j]
        BY <1>6, <1>6a, <3>0, <4>1
      <4>2. 0 \in T
        BY <4>1
      <4>3. ASSUME NEW i \in Nat, i \in T PROVE i + 1 \in T
        <5>. SUFFICES ASSUME NEW j \in 1..n, j = i + 1 + 1 PROVE c[j] = f[j]
          OBVIOUS
        <5>1. i + 1 \in 1..n /\ j - 1 = i + 1
          BY <1>1
        <5>. QED
          BY <4>1, <4>3, <5>1
      <4>. HIDE DEF T
      <4>4. \A i \in Nat : i \in T
        BY <4>2, <4>3, NatSetInduction
      <4>. QED
        BY <4>4 DEF T
    <3>4. n - 1 \in Nat /\ n - 1 + 1 = n /\ n \in 1..n
      BY <1>1, <2>2
    <3>5. c[n] = f[n]
      BY <3>3, <3>4
    <3>6. FlattenSeq(seqs) = c[Len(seqs)]
      BY <1>3, <2>2 DEF FlattenSeq, c
    <3>. QED
      BY <1>3, <3>5, <3>6
  <2>. QED
    BY <2>1, <2>2
<1>9. Fields(changes) = FlattenSeq(seqs) \o << <<>> >>
  BY DEF Fields, seqs, Written
<1>10. f[n] \in Seq(Field) /\ <<>> \in Field
  BY <1>1, <1>5 DEF Field
<1>11. f[n] \o << <<>> >> = Append(f[n], <<>>)
  BY <1>10
<1>. QED
  BY <1>5, <1>7, <1>8, <1>9, <1>11

\* Every chunk is read back whole.
PathsOf(changes, k) == UNION {Range(changes[i].paths) : i \in 1..k}

ReadsBack(changes, fields, k) ==
  /\ ReadOf(fields).owed = 0 /\ ReadOf(fields).bad = FALSE
  /\ ReadOf(fields).paths \in Seq(Path)
  /\ Range(ReadOf(fields).paths) = PathsOf(changes, k)

\* After every whole change, the reader has all the paths up to there.
LEMMA ChunksRead ==
  ASSUME NEW changes \in Seq(Change \cup Move),
         NEW f \in [0..Len(changes) -> Seq(Field)], Chunks(changes, f), NEW k \in 0..Len(changes)
  PROVE  ReadsBack(changes, f[k], k)
<1>. DEFINE T == {i \in Nat : i <= Len(changes) => ReadsBack(changes, f[i], i)}
<1>0. Len(changes) \in Nat /\ \A i \in 1..Len(changes) : changes[i] \in Change \cup Move
  OBVIOUS
<1>1. 0 \in T
  <2>1. f[0] = <<>>
    BY DEF Chunks
  <2>2. PathsOf(changes, 0) = {}
    BY DEF PathsOf
  <2>3. Range(<<>>) = {} /\ <<>> \in Seq(Path)
    BY DEF Range
  <2>4. ReadOf(f[0]).owed = 0 /\ ReadOf(f[0]).bad = FALSE /\ ReadOf(f[0]).paths = <<>>
    BY <2>1, ReadNothing DEF Start
  <2>5. ReadsBack(changes, f[0], 0)
    BY <2>2, <2>3, <2>4 DEF ReadsBack
  <2>. QED
    BY <2>5
<1>2. ASSUME NEW i \in Nat, i \in T PROVE i + 1 \in T
  <2>. SUFFICES ASSUME NEW j \in 1..Len(changes), j = i + 1 PROVE ReadsBack(changes, f[j], j)
    BY <1>0
  <2>1. i = j - 1 /\ i \in 0..Len(changes) /\ ReadsBack(changes, f[i], i)
    BY <1>0, <1>2
  <2>2. f[i] \in Seq(Field) /\ f[j] = f[i] \o Written(changes[j]) /\ changes[j] \in Change \cup Move
    BY <1>0, <2>1 DEF Chunks
  <2>3. /\ ReadOf(f[j]).owed = 0 /\ ReadOf(f[j]).bad = FALSE
        /\ ReadOf(f[j]).paths = ReadOf(f[i]).paths \o changes[j].paths
    <3>1. ReadOf(f[i]).owed = 0 /\ ReadOf(f[i]).bad = FALSE
      BY <2>1 DEF ReadsBack
    <3>2. PICK t \in Seq(Field), change \in Change \cup Move : t = f[i] /\ change = changes[j]
      BY <2>2
    <3>3. /\ ReadOf(t \o Written(change)).owed = 0 /\ ReadOf(t \o Written(change)).bad = FALSE
          /\ ReadOf(t \o Written(change)).paths = ReadOf(t).paths \o change.paths
      BY <3>1, <3>2, ReadChange
    <3>. QED
      BY <2>2, <3>2, <3>3
  <2>4. ReadOf(f[i]).paths \in Seq(Path) /\ changes[j].paths \in Seq(Path)
    BY <2>1, <2>2, ChangeTyped DEF ReadsBack
  <2>5. /\ ReadOf(f[j]).paths \in Seq(Path)
        /\ Range(ReadOf(f[j]).paths) = Range(ReadOf(f[i]).paths) \cup Range(changes[j].paths)
    BY <2>3, <2>4, RangeOfConcatenation
  <2>6. PathsOf(changes, j) = PathsOf(changes, i) \cup Range(changes[j].paths)
    <3>1. 1..j = (1..i) \cup {j}
      BY <1>0, <2>1
    <3>. QED
      BY <3>1 DEF PathsOf
  <2>. QED
    BY <2>1, <2>3, <2>5, <2>6 DEF ReadsBack
<1>. HIDE DEF T
<1>3. \A i \in Nat : i \in T
  BY <1>1, <1>2, NatSetInduction
<1>. QED
  BY <1>0, <1>3 DEF T

\* The parser, on a list that ends as Git's lists do.
LEMMA Parsed ==
  ASSUME NEW g \in Seq(Field)
  PROVE  ParseNameStatus(Append(g, <<>>)) = IF ReadOf(g).owed > 0 THEN Malformed ELSE ReadOf(g)
<1>1. <<>> \in Field
  BY DEF Field
<1>2. Front(Append(g, <<>>)) = g /\ Last(Append(g, <<>>)) = <<>>
  BY <1>1, FrontOfAppend
<1>3. FoldLeft(TakeField, [owed |-> 0, paths |-> <<>>, bad |-> FALSE], g) = ReadOf(g)
  BY DEF ReadOf, Start
<1>4. ReadOf(g).owed > 0 => TakeField(ReadOf(g), <<>>) = Malformed
  BY DEF TakeField
<1>5. ~(Malformed.owed > 0)
  BY DEF Malformed
<1>. QED
  BY <1>2, <1>3, <1>4, <1>5 DEF ParseNameStatus

\* A list that does not end after a status, however long it is: what is read is
\* marked as bad, or is every path of every change.
LEMMA NothingLost ==
  ASSUME NEW changes \in Seq(Change \cup Move), NEW how \in Event \ {"cut_status"}
  PROVE  /\ ChangedPaths(how, changes).bad \in BOOLEAN
         /\ ~ChangedPaths(how, changes).bad =>
              /\ ChangedPaths(how, changes).paths \in Seq(Path)
              /\ Range(ChangedPaths(how, changes).paths) = PathsOf(changes, Len(changes))
<1>. DEFINE n == Len(changes)
            read == ChangedPaths(how, changes)
<1>1. PICK f \in [0..n -> Seq(Field)] :
        Chunks(changes, f) /\ Fields(changes) = Append(f[n], <<>>)
  BY FieldsUnfold
<1>2. n \in Nat /\ n \in 0..n /\ f[n] \in Seq(Field) /\ <<>> \in Field
  BY <1>1 DEF Field
<1>3. ReadsBack(changes, f[n], n)
  BY <1>1, <1>2, ChunksRead
<1>4. CASE how \in {"forced", "no_revision", "git_fails"}
  <2>1. read.bad = TRUE
    BY <1>4 DEF ChangedPaths, Malformed
  <2>. QED
    BY <2>1
<1>5. CASE how = "diff"
  <2>1. read = ParseNameStatus(Append(f[n], <<>>))
    BY <1>1, <1>5 DEF ChangedPaths, Read, Output
  <2>2. read = ReadOf(f[n])
    BY <1>2, <1>3, <2>1, Parsed DEF ReadsBack
  <2>. HIDE DEF read
  <2>. QED
    BY <1>3, <2>2 DEF ReadsBack, read
<1>6. CASE how = "cut"
  <2>1. Front(Fields(changes)) = f[n]
    BY <1>1, <1>2, FrontOfAppend
  <2>2. read = ParseNameStatus(Append(Front(f[n]), <<>>))
    BY <2>1, <1>6 DEF ChangedPaths, Read, Output
  <2>3. CASE n = 0
    <3>1. f[n] = <<>> /\ Front(f[n]) = <<>>
      BY <1>1, <2>3 DEF Chunks, Front
    <3>2. read = ReadOf(f[n])
      BY <1>2, <1>3, <2>2, <3>1, Parsed DEF ReadsBack
    <3>. HIDE DEF read
    <3>. QED
      BY <1>3, <3>2 DEF ReadsBack, read
  <2>4. CASE n # 0
    <3>1. n \in 1..n /\ n - 1 \in 0..n /\ changes[n] \in Change \cup Move
      BY <1>2, <2>4
    <3>2. f[n] = f[n - 1] \o Written(changes[n]) /\ f[n - 1] \in Seq(Field)
      BY <1>1, <3>1 DEF Chunks
    <3>3. ReadsBack(changes, f[n - 1], n - 1)
      BY <1>1, <3>1, ChunksRead
    <3>4. Front(f[n]) \in Seq(Field) /\ ReadOf(Front(f[n])).owed = 1
      <4>1. ReadOf(f[n - 1]).owed = 0 /\ ReadOf(f[n - 1]).bad = FALSE
        BY <3>3 DEF ReadsBack
      <4>2. PICK t \in Seq(Field), change \in Change \cup Move : t = f[n - 1] /\ change = changes[n]
        BY <3>1, <3>2
      <4>3. Front(t \o Written(change)) \in Seq(Field) /\ ReadOf(Front(t \o Written(change))).owed = 1
        BY <4>1, <4>2, ReadChange
      <4>. QED
        BY <3>2, <4>2, <4>3
    <3>5. read = Malformed
      BY <2>2, <3>4, Parsed
    <3>6. read.bad = TRUE
      BY <3>5 DEF Malformed
    <3>. QED
      BY <3>6
  <2>. QED
    BY <2>3, <2>4
<1>. QED
  BY <1>4, <1>5, <1>6 DEF Event

-----------------------------------------------------------------------------
(* What the paths select *)

\* A path is unknown or answers with suites.
LEMMA SuitesOnly ==
  ASSUME NEW p
  PROVE  ClassifyPath(p) = Unknown \/ ClassifyPath(p) \in SUBSET Suite
BY DEF ClassifyPath, Suite

\* A list of one element.
LEMMA OneElement ==
  ASSUME NEW S, NEW q \in Seq(S), Len(q) = 1
  PROVE  q = <<q[1]>>
OBVIOUS

\* What is left of a list when the rest is cut off.
LEMMA FirstOnly ==
  ASSUME NEW S, NEW q \in Seq(S), Len(q) >= 1
  PROVE  SubSeq(q, 1, 1) = <<q[1]>>
<1>1. SubSeq(q, 1, 1) \in Seq(S) /\ Len(SubSeq(q, 1, 1)) = 1 /\ SubSeq(q, 1, 1)[1] = q[1]
  OBVIOUS
<1>2. SubSeq(q, 1, 1) = <<SubSeq(q, 1, 1)[1]>>
  BY <1>1, OneElement
<1>. QED
  BY <1>1, <1>2

\* A pair without its second element.
LEMMA FrontOfPair ==
  ASSUME NEW S, NEW d \in S, NEW e \in S
  PROVE  Front(<<d, e>>) = <<d>>
<1>1. PICK q \in Seq(S) : q = <<d, e>>
  <2>1. <<d, e>> \in Seq(S)
    OBVIOUS
  <2>. QED
    BY <2>1
<1>2. Len(q) = 2 /\ q[1] = d
  BY <1>1
<1>3. Len(q) >= 1
  BY <1>2
<1>4. SubSeq(q, 1, 1) = <<q[1]>>
  BY <1>3, FirstOnly
<1>. QED
  BY <1>1, <1>2, <1>4 DEF Front

\* A path has a first part.
LEMMA PartsTyped ==
  ASSUME NEW p \in Path
  PROVE  p \in Seq(STRING) /\ Len(p) \in Nat /\ Len(p) >= 1
BY PathAssumption

\* A directory's pattern matches what lies in it.
LEMMA DirectoryMatches ==
  ASSUME NEW d, NEW p \in Path
  PROVE  IsStrictPrefix(Front(<<d, "">>), p) <=> Len(p) >= 2 /\ p[1] = d
<1>1. Front(<<d, "">>) = <<d>>
  <2>1. d \in {d, ""} /\ "" \in {d, ""}
    OBVIOUS
  <2>. QED
    BY <2>1, FrontOfPair
<1>2. p \in Seq(STRING) /\ Len(p) \in Nat /\ Len(p) >= 1
  BY PartsTyped
<1>3. SubSeq(<<d>>, 1, 1) = <<d>> /\ Len(<<d>>) = 1
  <2>1. PICK q \in Seq({d}) : q = <<d>>
    <3>1. <<d>> \in Seq({d})
      OBVIOUS
    <3>. QED
      BY <3>1
  <2>2. Len(q) >= 1 /\ q[1] = d /\ Len(q) = 1
    BY <2>1
  <2>. QED
    BY <2>1, <2>2, FirstOnly
<1>4. SubSeq(p, 1, 1) = <<p[1]>>
  BY <1>2, FirstOnly
<1>5. IsPrefix(<<d>>, p) <=> p[1] = d
  BY <1>2, <1>3, <1>4 DEF IsPrefix
<1>6. ASSUME p[1] = d PROVE p # <<d>> <=> Len(p) >= 2
  <2>1. Len(p) = 1 => p = <<p[1]>>
    BY <1>2, OneElement
  <2>. QED
    BY <1>2, <1>3, <1>6, <2>1
<1>. QED
  BY <1>1, <1>5, <1>6 DEF IsStrictPrefix

Directories(names) == {<<d, "">> : d \in names}
FilesOnly(files) == \A t \in files : Last(t) # ""

\* A list of directories and files matches the files and what lies in the
\* directories.
LEMMA MatchesEither ==
  ASSUME NEW names, NEW files, FilesOnly(files), NEW p \in Path
  PROVE  Matches(p, Directories(names) \cup files) <=>
           \/ p \in files \/ p \in Directories(names)
           \/ Len(p) >= 2 /\ p[1] \in names
<1>1. ASSUME NEW d PROVE Last(<<d, "">>) = ""
  BY DEF Last
<1>2. \A d : IsStrictPrefix(Front(<<d, "">>), p) <=> Len(p) >= 2 /\ p[1] = d
  BY DirectoryMatches
<1>3. \A t \in files : Last(t) # ""
  BY DEF FilesOnly
<1>4. \A t \in Directories(names) : \E d \in names : t = <<d, "">>
  BY DEF Directories
<1>5. \A d \in names : <<d, "">> \in Directories(names)
  BY DEF Directories
<1>6. ASSUME Matches(p, Directories(names) \cup files)
      PROVE  p \in files \/ p \in Directories(names) \/ (Len(p) >= 2 /\ p[1] \in names)
  <2>1. PICK t \in Directories(names) \cup files :
          p = t \/ (Last(t) = "" /\ IsStrictPrefix(Front(t), p))
    BY <1>6 DEF Matches
  <2>1a. CASE p = t
    BY <2>1, <2>1a
  <2>2. CASE Last(t) = "" /\ IsStrictPrefix(Front(t), p)
    <3>1. t \in Directories(names)
      BY <1>3, <2>1, <2>2
    <3>2. PICK d \in names : t = <<d, "">>
      BY <1>4, <3>1
    <3>3. IsStrictPrefix(Front(<<d, "">>), p)
      BY <2>2, <3>2
    <3>. QED
      BY <3>2, <3>3, DirectoryMatches
  <2>. QED
    BY <2>1, <2>1a, <2>2
<1>7. ASSUME p \in files \/ p \in Directories(names) \/ (Len(p) >= 2 /\ p[1] \in names)
      PROVE  Matches(p, Directories(names) \cup files)
  BY <1>1, <1>2, <1>5, <1>7 DEF Matches
<1>. QED
  BY <1>6, <1>7

\* One path's answer, by the lists it is on.
LEMMA AnswerHas ==
  ASSUME NEW p, p \notin CiOnly
  PROVE  /\ p \in ModelOnly => "model" \in ClassifyPath(p)
         /\ p \in ContainerOnly /\ p \notin ModelOnly => "container" \in ClassifyPath(p)
         /\ (Matches(p, ModelPath) \/ Matches(p, DependencyPath)) /\ p \notin ContainerOnly =>
              "model" \in ClassifyPath(p)
         /\ (Matches(p, ContainerPath) \/ Matches(p, DependencyPath)) /\ p \notin ModelOnly =>
              "container" \in ClassifyPath(p)
<1>. DEFINE hit == {s \in Suite : Matches(p, IF s = "model" THEN ModelPath ELSE ContainerPath)}
<1>1. ClassifyPath(p) = IF p \in ModelOnly THEN {"model"}
                        ELSE IF p \in ContainerOnly THEN {"container"}
                        ELSE IF Matches(p, DependencyPath) THEN Suite
                        ELSE IF hit # {} THEN hit
                        ELSE IF p \in RelevantWorkflow THEN Suite
                        ELSE IF ~Matches(p, {<<".github", "workflows", "">>}) /\ IsDocumentation(p) THEN {}
                        ELSE Unknown
  BY DEF ClassifyPath
<1>2. "model" \in Suite /\ "container" \in Suite /\ "container" # "model"
  BY DEF Suite
<1>3. Matches(p, ModelPath) => "model" \in hit
  BY <1>2
<1>4. Matches(p, ContainerPath) => "container" \in hit
  BY <1>2
<1>. HIDE DEF hit
<1>5. (Matches(p, ModelPath) \/ Matches(p, DependencyPath)) /\ p \notin ContainerOnly =>
        "model" \in ClassifyPath(p)
  BY <1>1, <1>2, <1>3
<1>6. (Matches(p, ContainerPath) \/ Matches(p, DependencyPath)) /\ p \notin ModelOnly =>
        "container" \in ClassifyPath(p)
  BY <1>1, <1>2, <1>4
<1>. QED
  BY <1>1, <1>5, <1>6

\* A path on none of the lists answers for nothing less than everything.
LEMMA AnswerIsUnknown ==
  ASSUME NEW p, p \notin CiOnly, p \notin ModelOnly, p \notin ContainerOnly,
         ~Matches(p, ModelPath), ~Matches(p, ContainerPath), ~IsDocumentation(p)
  PROVE  ClassifyPath(p) \in {Suite, Unknown}
BY DEF ClassifyPath, Suite

\* The files of the two lists; the rest of them is directories.
ModelFile == {<<"scripts", "download_model.py">>, <<"tests", "test_real_model.py">>, <<"uv.lock">>}
ContainerFile ==
  {<<".dockerignore">>, <<"Dockerfile">>, <<"compose.yaml">>,
   <<"scripts", "container_smoke.py">>, <<"uv.lock">>}

\* The last parts of short paths.
LEMMA LastOf ==
  ASSUME NEW a, NEW b
  PROVE Last(<<a>>) = a /\ Last(<<a, b>>) = b
BY DEF Last

\* What the three lists match, part by part.
LEMMA ModelListed ==
  ASSUME NEW p \in Path
  PROVE  Matches(p, ModelPath) <=>
           \/ p \in ModelFile \/ p \in Directories({"config", "evaluation", "models", "src", "training"})
           \/ Len(p) >= 2 /\ p[1] \in {"config", "evaluation", "models", "src", "training"}
<1>. DEFINE names == {"config", "evaluation", "models", "src", "training"}
<1>1. ModelPath = Directories(names) \cup ModelFile
  BY Zenon DEF ModelPath, Directories, ModelFile
<1>2. FilesOnly(ModelFile)
  <2>1. ASSUME NEW t \in ModelFile PROVE Last(t) \in {"download_model.py", "test_real_model.py", "uv.lock"}
    BY DEF Last, ModelFile
  <2>. QED
    BY <2>1 DEF FilesOnly
<1>. HIDE DEF names
<1>3. Matches(p, Directories(names) \cup ModelFile) <=>
           \/ p \in ModelFile \/ p \in Directories(names)
           \/ Len(p) >= 2 /\ p[1] \in names
  BY <1>2, MatchesEither
<1>. QED
  BY <1>1, <1>3 DEF names

LEMMA ContainerListed ==
  ASSUME NEW p \in Path
  PROVE  Matches(p, ContainerPath) <=>
           \/ p \in ContainerFile \/ p \in Directories({"config", "models", "src"})
           \/ Len(p) >= 2 /\ p[1] \in {"config", "models", "src"}
<1>. DEFINE names == {"config", "models", "src"}
<1>1. ContainerPath = Directories(names) \cup ContainerFile
  BY Zenon DEF ContainerPath, Directories, ContainerFile
<1>2. FilesOnly(ContainerFile)
  <2>1. ASSUME NEW t \in ContainerFile PROVE Last(t) \in {".dockerignore", "Dockerfile", "compose.yaml", "container_smoke.py", "uv.lock"}
    BY DEF Last, ContainerFile
  <2>. QED
    BY <2>1 DEF FilesOnly
<1>. HIDE DEF names
<1>3. Matches(p, Directories(names) \cup ContainerFile) <=>
           \/ p \in ContainerFile \/ p \in Directories(names)
           \/ Len(p) >= 2 /\ p[1] \in names
  BY <1>2, MatchesEither
<1>. QED
  BY <1>1, <1>3 DEF names

LEMMA DocumentationListed ==
  ASSUME NEW p \in Path
  PROVE  IsDocumentation(p) <=>
           \/ p \in DocumentationFile \/ p = <<"docs", "">>
           \/ Len(p) >= 2 /\ p[1] = "docs"
           \/ Last(p) \in Markdown
<1>. DEFINE names == {"docs"}
<1>1. DocumentationFile \cup {<<"docs", "">>} = Directories(names) \cup DocumentationFile
  BY DEF Directories
<1>2. FilesOnly(DocumentationFile)
  BY LastOf DEF FilesOnly, DocumentationFile
<1>3. Matches(p, Directories(names) \cup DocumentationFile) <=>
           \/ p \in DocumentationFile \/ p \in Directories(names)
           \/ Len(p) >= 2 /\ p[1] \in names
  <2>. HIDE DEF names
  <2>. QED
    BY <1>2, MatchesEither
<1>4. p \in Directories(names) <=> p = <<"docs", "">>
  BY DEF Directories
<1>. QED
  BY <1>1, <1>3, <1>4 DEF IsDocumentation

\* What the lists' files begin with.
LEMMA ListedParts ==
  /\ \A p \in CiOnly : Len(p) >= 2 /\ p[1] \in {"config", "scripts", ".github"}
  /\ \A p \in ModelOnly : Len(p) = 2 /\ p[1] \in {"config", "evaluation", "scripts"}
  /\ \A p \in ContainerOnly : Len(p) = 2 /\ p[1] = "scripts"
  /\ \A p \in DocumentationFile :
        Len(p) = 1 /\ p[1] \in {"CHANGELOG.md", "CONTRIBUTING.md", "LICENSE", "NOTICE",
                  "PROJECT_DEFINITION.md", "README.md", "SECURITY.md", "TODO.md"}
  /\ \A p \in ModelFile : p[1] \in {"scripts", "tests", "uv.lock"}
  /\ \A p \in ContainerFile : p[1] \in {".dockerignore", "Dockerfile", "compose.yaml", "scripts", "uv.lock"}
  /\ \A names : \A p \in Directories(names) : Len(p) = 2 /\ p[1] \in names
<1>1. \A p \in CiOnly : Len(p) >= 2 /\ p[1] \in {"config", "scripts", ".github"}
  BY DEF CiOnly
<1>2. \A p \in ModelOnly : Len(p) = 2 /\ p[1] \in {"config", "evaluation", "scripts"}
  BY DEF ModelOnly
<1>3. \A p \in ContainerOnly : Len(p) = 2 /\ p[1] = "scripts"
  BY DEF ContainerOnly
<1>4. \A p \in DocumentationFile :
        Len(p) = 1 /\ p[1] \in {"CHANGELOG.md", "CONTRIBUTING.md", "LICENSE", "NOTICE",
                  "PROJECT_DEFINITION.md", "README.md", "SECURITY.md", "TODO.md"}
  BY DEF DocumentationFile
<1>5. \A p \in ModelFile : p[1] \in {"scripts", "tests", "uv.lock"}
  BY DEF ModelFile
<1>6. \A p \in ContainerFile : p[1] \in {".dockerignore", "Dockerfile", "compose.yaml", "scripts", "uv.lock"}
  BY DEF ContainerFile
<1>7. ASSUME NEW names, NEW p \in Directories(names) PROVE Len(p) = 2 /\ p[1] \in names
  <2>1. PICK d \in names : p = <<d, "">>
    BY DEF Directories
  <2>. QED
    BY <2>1
<1>. QED
  BY <1>1, <1>2, <1>3, <1>4, <1>5, <1>6, <1>7

\* The last part of a path of one.
LEMMA SinglePart ==
  ASSUME NEW p \in Path, Len(p) = 1
  PROVE  Last(p) = p[1]
BY DEF Last

\* What tells a path from the patterns of directories.
LEMMA NotTheDocsDirectory ==
  ASSUME NEW p, p[1] # "docs"
  PROVE  p # <<"docs", "">>
<1>. SUFFICES ASSUME p = <<"docs", "">> PROVE FALSE
  OBVIOUS
<1>1. <<"docs", "">>[1] = "docs"
  OBVIOUS
<1>. QED
  BY <1>1

LEMMA NotInDirectory ==
  ASSUME NEW p, NEW names, Len(p) # 2 \/ p[1] \notin names
  PROVE  p \notin Directories(names)
BY ListedParts

\* A file that is named like one of the directories is on no list.
LEMMA BareNameAnswers ==
  ASSUME NEW p \in Path, Len(p) = 1, p[1] \in {"src", "models", "evaluation", "training"}
  PROVE  ClassifyPath(p) \in {Suite, Unknown}
<1>1. p \notin CiOnly /\ p \notin ModelOnly /\ p \notin ContainerOnly
  BY ListedParts
<1>2. ~Matches(p, ModelPath) /\ ~Matches(p, ContainerPath)
  <2>1. p \notin ModelFile /\ p \notin ContainerFile
    BY ListedParts
  <2>2. ~(Len(p) >= 2) /\ \A names : p \notin Directories(names)
    BY NotInDirectory
  <2>. QED
    BY <2>1, <2>2, ModelListed, ContainerListed
<1>3. ~IsDocumentation(p)
  <2>1. Last(p) \notin Markdown
    BY SinglePart, MarkdownAssumption
  <2>2. p # <<"docs", "">>
    BY NotTheDocsDirectory
  <2>3. p \notin DocumentationFile
    BY ListedParts
  <2>. QED
    BY <2>1, <2>2, <2>3, DocumentationListed
<1>. QED
  BY <1>1, <1>2, <1>3, AnswerIsUnknown

\* What the real-model job runs or reads is on the model suite's lists, or on none.
LEMMA ModelInputAnswers ==
  ASSUME NEW p \in ModelInput
  PROVE  ClassifyPath(p) \in {Suite, Unknown} \/ "model" \in ClassifyPath(p)
<1>1. p \in Path /\ Len(p) \in Nat /\ Len(p) >= 1
  BY PartsTyped DEF ModelInput
<1>2. CASE Len(p) >= 2 /\ p[1] \in {"src", "models", "evaluation", "training"}
  <2>1. Matches(p, ModelPath)
    BY <1>1, <1>2, ModelListed
  <2>2. p \notin CiOnly /\ p \notin ContainerOnly
    BY <1>2, ListedParts
  <2>. QED
    BY <2>1, <2>2, AnswerHas
<1>3. CASE Len(p) = 1 /\ p[1] \in {"src", "models", "evaluation", "training"}
  BY <1>1, <1>3, BareNameAnswers
<1>4. CASE p \in ModelFile
  <2>1. Matches(p, ModelPath)
    BY <1>1, <1>4, ModelListed
  <2>2. p \notin CiOnly /\ p \notin ContainerOnly
    BY <1>4 DEF ModelFile, CiOnly, ContainerOnly
  <2>. QED
    BY <2>1, <2>2, AnswerHas
<1>5. CASE p \in DependencyPath
  <2>1. Matches(p, DependencyPath)
    BY <1>5 DEF Matches
  <2>2. p \notin CiOnly /\ p \notin ContainerOnly
    BY <1>5 DEF DependencyPath, CiOnly, ContainerOnly
  <2>. QED
    BY <2>1, <2>2, AnswerHas
<1>6. CASE p = <<"config", "training.yaml">>
  <2>1. p \in ModelOnly /\ p \notin CiOnly
    BY <1>6 DEF ModelOnly, CiOnly
  <2>. QED
    BY <2>1, AnswerHas
<1>7. CASE p = <<"tests", "conftest.py">>
  <2>0. p[1] = "tests" /\ Len(p) = 2 /\ p[2] = "conftest.py"
    BY <1>7
  <2>1. p \notin CiOnly /\ p \notin ModelOnly /\ p \notin ContainerOnly
    BY <2>0, ListedParts
  <2>2. ~Matches(p, ModelPath) /\ ~Matches(p, ContainerPath)
    <3>1. p \notin ModelFile /\ p \notin ContainerFile
      BY <1>7 DEF ModelFile, ContainerFile
    <3>2. /\ p \notin Directories({"config", "evaluation", "models", "src", "training"})
          /\ p \notin Directories({"config", "models", "src"})
      BY <2>0, NotInDirectory
    <3>. QED
      BY <1>1, <2>0, <3>1, <3>2, ModelListed, ContainerListed
  <2>3. ~IsDocumentation(p)
    <3>1. Last(p) \notin Markdown
      BY <2>0, MarkdownAssumption DEF Last
    <3>2. p # <<"docs", "">> /\ p \notin DocumentationFile
      BY <1>7, <2>0, NotTheDocsDirectory DEF DocumentationFile
    <3>. QED
      BY <1>1, <2>0, <3>1, <3>2, DocumentationListed
  <2>. QED
    BY <2>1, <2>2, <2>3, AnswerIsUnknown
<1>. QED
  <2>1. Head(p) = p[1]
    BY <1>1, PartsTyped
  <2>2. \/ p[1] \in {"src", "models", "evaluation", "training"}
        \/ p \in ModelFile \/ p \in DependencyPath
        \/ p = <<"config", "training.yaml">> \/ p = <<"tests", "conftest.py">>
    BY <2>1 DEF ModelInput, ModelFile, DependencyPath
  <2>3. Len(p) >= 2 \/ Len(p) = 1
    <3>1. PICK n \in Nat : n = Len(p) /\ n >= 1
      BY <1>1
    <3>. QED
      BY <3>1
  <2>. QED
    BY <1>2, <1>3, <1>4, <1>5, <1>6, <1>7, <2>2, <2>3

\* The same of the image and what runs in it, but for what is left out.
LEMMA RuntimeInputAnswers ==
  ASSUME NEW p \in RuntimeInput \ LeftOut
  PROVE  ClassifyPath(p) \in {Suite, Unknown} \/ "container" \in ClassifyPath(p)
<1>1. p \in Path /\ Len(p) \in Nat /\ Len(p) >= 1
  BY PartsTyped DEF RuntimeInput
<1>2. CASE Len(p) >= 2 /\ p[1] \in {"src", "models"}
  <2>1. Matches(p, ContainerPath)
    BY <1>1, <1>2, ContainerListed
  <2>2. p \notin CiOnly /\ p \notin ModelOnly
    BY <1>2, ListedParts
  <2>. QED
    BY <2>1, <2>2, AnswerHas
<1>3. CASE Len(p) = 1 /\ p[1] \in {"src", "models"}
  BY <1>1, <1>3, BareNameAnswers
<1>4. CASE p \in {<<"uv.lock">>, <<"Dockerfile">>, <<".dockerignore">>,
                <<"scripts", "container_smoke.py">>}
  <2>1. Matches(p, ContainerPath)
    <3>1. p \in ContainerFile
      BY <1>4 DEF ContainerFile
    <3>. QED
      BY <1>1, <3>1, ContainerListed
  <2>2. p \notin CiOnly /\ p \notin ModelOnly
    BY <1>4 DEF CiOnly, ModelOnly
  <2>. QED
    BY <2>1, <2>2, AnswerHas
<1>5. CASE p \in {<<"config", "default.yaml">>, <<"config", "registry.yaml">>}
  <2>1. Matches(p, ContainerPath)
    <3>1. Len(p) >= 2 /\ p[1] = "config"
      BY <1>5
    <3>. QED
      BY <1>1, <3>1, ContainerListed
  <2>2. p \notin CiOnly /\ p \notin ModelOnly
    BY <1>5 DEF CiOnly, ModelOnly
  <2>. QED
    BY <2>1, <2>2, AnswerHas
<1>6. CASE p \in DependencyPath
  <2>1. Matches(p, DependencyPath)
    BY <1>6 DEF Matches
  <2>2. p \notin CiOnly /\ p \notin ModelOnly
    BY <1>6 DEF DependencyPath, CiOnly, ModelOnly
  <2>. QED
    BY <2>1, <2>2, AnswerHas
<1>7. CASE p = <<"scripts", "check_security_report.py">>
  <2>1. p \in ContainerOnly /\ p \notin ModelOnly /\ p \notin CiOnly
    BY <1>7 DEF ContainerOnly, ModelOnly, CiOnly
  <2>. QED
    BY <2>1, AnswerHas
<1>. QED
  <2>1. Head(p) = p[1]
    BY <1>1, PartsTyped
  <2>2. \/ p[1] \in {"src", "models"}
        \/ p \in {<<"uv.lock">>, <<"Dockerfile">>, <<".dockerignore">>,
                 <<"scripts", "container_smoke.py">>}
        \/ p \in {<<"config", "default.yaml">>, <<"config", "registry.yaml">>}
        \/ p \in DependencyPath \/ p = <<"scripts", "check_security_report.py">>
    BY <2>1 DEF RuntimeInput, DependencyPath, LeftOut
  <2>3. Len(p) >= 2 \/ Len(p) = 1
    <3>1. PICK n \in Nat : n = Len(p) /\ n >= 1
      BY <1>1
    <3>. QED
      BY <3>1
  <2>. QED
    BY <1>2, <1>3, <1>4, <1>5, <1>6, <1>7, <2>2, <2>3

\* A suite that one changed path needs is selected, whatever else has changed.
LEMMA SelectedForOne ==
  ASSUME NEW changes \in Seq(Change \cup Move), NEW how \in Event \ {"cut_status"},
         NEW p \in PathsOf(changes, Len(changes)), NEW s \in Suite,
         ClassifyPath(p) \in {Suite, Unknown} \/ s \in ClassifyPath(p)
  PROVE  s \in Select(ChangedPaths(how, changes))
<1>. DEFINE paths == ChangedPaths(how, changes).paths
            answers == {ClassifyPath(q) : q \in Range(paths)}
<1>1. CASE ChangedPaths(how, changes).bad
  BY <1>1 DEF Select
<1>2. CASE ~ChangedPaths(how, changes).bad
  <2>1. Range(paths) = PathsOf(changes, Len(changes))
    BY <1>2, NothingLost
  <2>2. ClassifyPath(p) \in answers
    BY <2>1
  <2>3. Classify(paths) = Suite \/ (Unknown \notin answers /\ Classify(paths) = UNION answers)
    BY DEF Classify
  <2>. HIDE DEF answers, paths
  <2>4. s \in Classify(paths)
    BY <2>2, <2>3
  <2>. QED
    BY <1>2, <2>4 DEF Select, paths
<1>. QED
  BY <1>1, <1>2

\* Without a review, every changed path was read and is documentation.
LEMMA SparedForAll ==
  ASSUME NEW changes \in Seq(Change \cup Move), NEW how \in Event \ {"cut_status"},
         ~ReviewRequired(ChangedPaths(how, changes)),
         NEW p \in PathsOf(changes, Len(changes))
  PROVE  IsDocumentation(p)
<1>. DEFINE paths == ChangedPaths(how, changes).paths
<1>1. ~ChangedPaths(how, changes).bad /\ \A i \in DOMAIN paths : IsDocumentation(paths[i])
  BY DEF ReviewRequired, RequiresReview
<1>2. Range(paths) = PathsOf(changes, Len(changes))
  BY <1>1, NothingLost
<1>. HIDE DEF paths
<1>3. PICK i \in DOMAIN paths : p = paths[i]
  BY <1>2 DEF Range
<1>. QED
  BY <1>1, <1>3 DEF paths

\* The selection and the review are what the workflow's outputs can be.
LEMMA AnswersTyped ==
  ASSUME NEW changes, NEW how
  PROVE  /\ Select(ChangedPaths(how, changes)) \in SUBSET Suite
         /\ ReviewRequired(ChangedPaths(how, changes)) \in BOOLEAN
<1>1. ASSUME NEW paths PROVE Classify(paths) \in SUBSET Suite
  <2>. DEFINE answers == {ClassifyPath(q) : q \in Range(paths)}
  <2>1. ASSUME Unknown \notin answers PROVE UNION answers \in SUBSET Suite
    BY <2>1, SuitesOnly
  <2>2. Classify(paths) = Suite \/ (Unknown \notin answers /\ Classify(paths) = UNION answers)
    BY DEF Classify
  <2>. HIDE DEF answers
  <2>. QED
    BY <2>1, <2>2
<1>2. ReviewRequired(ChangedPaths(how, changes)) \in BOOLEAN
  BY Zenon DEF ReviewRequired
<1>. QED
  BY <1>1, <1>2 DEF Select

-----------------------------------------------------------------------------
(* What the release workflow keeps *)

\* Everything is forced when a release validates its commit.
LEMMA Forced == Validation = Suite
BY DEF Validation, ChangedPaths, Select, Malformed

\* The release workflow starts with nothing built.
LEMMA InitInv == Init => IInv
<1> SUFFICES ASSUME Init PROVE IInv
  OBVIOUS
<1>1. head \in 1..MaxCommits
  BY BoundAssumption DEF Init
<1>2. RunIsValidated
  BY DEF Init, RunIsValidated
<1>3. ImagesAreValidated
  BY DEF Init, ImagesAreValidated, Kind
<1>4. CandidatesAreBuilt /\ StableIsMade
  BY DEF Init, CandidatesAreBuilt, StableIsMade
<1> QED
  BY <1>1, <1>2, <1>3, <1>4 DEF IInv

\* Candidates and stable manifests that stay are kept right as long as no
\* image is taken away and no evidence is withdrawn.
LEMMA Kept ==
  ASSUME IInv, UNCHANGED <<built, candidates, stable, attested>>
  PROVE  CandidatesAreBuilt' /\ StableIsMade'
BY DEF IInv, CandidatesAreBuilt, StableIsMade

\* An image with its manifest, or without one, is added.
LEMMA BuildInv ==
  ASSUME IInv, NEW p \in Platform, NEW passes \in BOOLEAN, Build(p, passes)
  PROVE  IInv'
<1> DEFINE image == Image(p, passes)
           d == Len(built) + 1
<1>1. /\ run.commit \in 1..MaxCommits /\ run.version \in Version
      /\ run.commit \in validated
  BY BoundAssumption DEF IInv, RunIsValidated, Build
<1>2. image \in ImageType /\ image.commit \in validated /\ image.passed = passes
  BY <1>1 DEF Image, ImageType, Revision
<1>3. /\ built \in Seq(ImageType) /\ attested \in Seq(0..Len(Kind))
      /\ Len(attested) = Len(built)
      /\ \A e \in 1..Len(built) : built[e].commit \in validated
  BY DEF IInv, ImagesAreValidated
<1>4. /\ built' = Append(built, image) /\ attested' = Append(attested, 0)
      /\ UNCHANGED <<head, validated, run, stable>>
  BY DEF Build
<1> HIDE DEF image
<1>5. 0 \in 0..Len(Kind)
  BY DEF Kind
<1>6. /\ built' \in Seq(ImageType) /\ attested' \in Seq(0..Len(Kind))
      /\ Len(built') = d /\ Len(attested') = d
      /\ built'[d] = image
      /\ \A e \in 1..Len(built) : built'[e] = built[e] /\ attested'[e] = attested[e]
  BY <1>2, <1>3, <1>4, <1>5
<1>7. Len(built) \in Nat
  BY <1>3
<1>8. ImagesAreValidated'
  <2>1. \A e \in 1..d : built'[e].commit \in validated
    BY <1>2, <1>3, <1>6, <1>7
  <2> QED
    BY <2>1, <1>4, <1>6 DEF ImagesAreValidated
<1>9. head' \in 1..MaxCommits /\ RunIsValidated'
  BY <1>4 DEF IInv, RunIsValidated
<1>10. \A m \in candidates :
         /\ m.image_digest \in 1..Len(built)
         /\ m = Manifest(m.image_digest, built[m.image_digest])
         /\ built[m.image_digest].passed
  BY DEF IInv, CandidatesAreBuilt
<1>11. CandidatesAreBuilt'
  <2>1. ASSUME NEW m \in candidates
        PROVE  /\ m.image_digest \in 1..Len(built')
               /\ m = Manifest(m.image_digest, built'[m.image_digest])
               /\ built'[m.image_digest].passed
    BY <1>6, <1>7, <1>10
  <2>2. ASSUME passes, NEW m \in {Manifest(d, image)}
        PROVE  /\ m.image_digest \in 1..Len(built')
               /\ m = Manifest(m.image_digest, built'[m.image_digest])
               /\ built'[m.image_digest].passed
    <3>1. m = Manifest(d, image) /\ m.image_digest = d
      BY DEF Manifest
    <3>2. d \in 1..Len(built') /\ built'[d] = image
      BY <1>6, <1>7
    <3>3. image.passed
      BY <2>2, <1>2
    <3> HIDE DEF d
    <3> QED
      BY <3>1, <3>2, <3>3
  <2>3. candidates' = IF passes THEN candidates \cup {Manifest(d, image)} ELSE candidates
    BY DEF Build, image
  <2> QED
    BY <2>1, <2>2, <2>3 DEF CandidatesAreBuilt
<1>12. StableIsMade'
  <2>1. candidates \subseteq candidates'
    BY DEF Build
  <2>2. ASSUME NEW s \in stable
        PROVE  \E m, n \in candidates' :
                 /\ {m.platform, n.platform} = Platform /\ SameIdentity(m, n)
                 /\ attested'[m.image_digest] = Len(Kind)
                 /\ attested'[n.image_digest] = Len(Kind)
                 /\ s = StableManifest(m, n)
    <3>1. PICK m \in candidates, n \in candidates :
            /\ {m.platform, n.platform} = Platform /\ SameIdentity(m, n)
            /\ attested[m.image_digest] = Len(Kind) /\ attested[n.image_digest] = Len(Kind)
            /\ s = StableManifest(m, n)
      BY DEF IInv, StableIsMade
    <3>2. attested'[m.image_digest] = Len(Kind) /\ attested'[n.image_digest] = Len(Kind)
      BY <3>1, <1>6, <1>10
    <3> QED
      BY <2>1, <3>1, <3>2
  <2> QED
    BY <2>2, <1>4 DEF StableIsMade
<1> QED
  BY <1>8, <1>9, <1>11, <1>12 DEF IInv

\* The evidence of a digest only grows, and what was complete stays so.
LEMMA AttestInv ==
  ASSUME IInv, NEW c \in candidates, Attest(c)
  PROVE  IInv'
<1> DEFINE d == c.image_digest
<1>1. /\ attested \in Seq(0..Len(Kind)) /\ Len(attested) = Len(built)
      /\ d \in 1..Len(built) /\ attested[d] < Len(Kind)
      /\ attested' = [attested EXCEPT ![d] = @ + 1]
      /\ UNCHANGED <<head, validated, run, built, candidates, stable>>
  BY DEF IInv, ImagesAreValidated, CandidatesAreBuilt, Attest
<1>2. Len(Kind) = 3
  BY DEF Kind
<1>3. attested[d] \in 0..3 /\ attested[d] + 1 \in 0..3
  BY <1>1, <1>2
<1>4. /\ attested' \in Seq(0..Len(Kind)) /\ Len(attested') = Len(built)
      /\ \A e \in 1..Len(built) : attested[e] = Len(Kind) => attested'[e] = Len(Kind)
  BY <1>1, <1>2, <1>3
<1>5. ImagesAreValidated'
  BY <1>1, <1>4 DEF IInv, ImagesAreValidated
<1>6. head' \in 1..MaxCommits /\ RunIsValidated' /\ CandidatesAreBuilt'
  BY <1>1 DEF IInv, RunIsValidated, CandidatesAreBuilt
<1>7. StableIsMade'
  BY <1>1, <1>4 DEF IInv, StableIsMade, CandidatesAreBuilt
<1> QED
  BY <1>5, <1>6, <1>7 DEF IInv

\* Evidence that passes for a candidate is the evidence of its digest.
LEMMA EvidenceIsItsOwn ==
  ASSUME IInv, NEW m \in candidates, Evidenced(m)
  PROVE  attested[m.image_digest] = Len(Kind)
<1>1. 3 \in DOMAIN Kind /\ Len(Kind) = 3
  BY DEF Kind
<1>2. PICK r \in Record(3) : Bound(3, r, m)
  BY <1>1 DEF Evidenced
<1>3. r.image_digest = m.image_digest /\ 3 <= attested[r.image_digest]
  BY <1>2 DEF Record, Bound
<1>4. attested[m.image_digest] \in 0..3
  BY <1>1 DEF IInv, ImagesAreValidated, CandidatesAreBuilt
<1> QED
  BY <1>1, <1>3, <1>4

\* A promotion adds one stable manifest, of two candidates that fit.
LEMMA PromoteInv ==
  ASSUME IInv, NEW c \in candidates, NEW e \in candidates, Promote(c, e)
  PROVE  IInv'
<1>1. /\ attested[c.image_digest] = Len(Kind)
      /\ attested[e.image_digest] = Len(Kind)
  BY EvidenceIsItsOwn DEF Promote
<1>2. /\ stable' = stable \cup {StableManifest(c, e)}
      /\ {c.platform, e.platform} = Platform /\ SameIdentity(c, e)
      /\ UNCHANGED <<head, validated, run, built, candidates, attested>>
  BY DEF Promote
<1>3. head' \in 1..MaxCommits /\ RunIsValidated' /\ ImagesAreValidated' /\ CandidatesAreBuilt'
  BY <1>2 DEF IInv, RunIsValidated, ImagesAreValidated, CandidatesAreBuilt
<1>4. StableIsMade'
  BY <1>1, <1>2 DEF IInv, StableIsMade
<1> QED
  BY <1>3, <1>4 DEF IInv

\* Steps of the workflow that build nothing.
LEMMA WorkflowInv ==
  ASSUME IInv, Merge \/ Validated \/ End \/ \E version \in Version : Dispatch(version)
  PROVE  IInv'
<1>1. UNCHANGED <<built, candidates, attested, stable>> /\ validated \subseteq validated'
  BY DEF Merge, Validated, End, Dispatch
<1>2. CandidatesAreBuilt' /\ StableIsMade'
  BY <1>1, Kept
<1>3. ImagesAreValidated'
  BY <1>1 DEF IInv, ImagesAreValidated
<1>4. head' \in 1..MaxCommits
  BY BoundAssumption DEF IInv, Merge, Validated, End, Dispatch
<1>5. RunIsValidated'
  <2>1. CASE Merge
    BY <2>1 DEF IInv, RunIsValidated, Merge
  <2>2. CASE Validated
    BY <2>2 DEF IInv, RunIsValidated, Validated
  <2>3. CASE End
    BY <2>3 DEF IInv, RunIsValidated, End
  <2>4. ASSUME NEW version \in Version, Dispatch(version) PROVE RunIsValidated'
    BY <2>4, Forced DEF IInv, RunIsValidated, Dispatch
  <2> QED
    BY <2>1, <2>2, <2>3, <2>4
<1> QED
  BY <1>2, <1>3, <1>4, <1>5 DEF IInv

\* Every step keeps the invariant.
LEMMA StepInv == IInv /\ [Next]_vars => IInv'
<1> SUFFICES ASSUME IInv, [Next]_vars PROVE IInv'
  OBVIOUS
<1>1. ASSUME Pull PROVE IInv'
  <2>1. UNCHANGED releaseVars
    BY <1>1 DEF Pull, Push
  <2> QED
    BY <2>1, Kept DEF releaseVars, IInv, RunIsValidated, ImagesAreValidated
<1>2. ASSUME UNCHANGED vars PROVE IInv'
  BY <1>2, Kept DEF vars, releaseVars, IInv, RunIsValidated, ImagesAreValidated
<1> QED
  BY <1>1, <1>2, WorkflowInv, BuildInv, AttestInv, PromoteInv DEF Next

\* The invariant of the release machinery: what is built was validated, what
\* is described was tested, and what is promoted was made of two such.
THEOREM ReleaseInvariant == Spec => []IInv
BY InitInv, StepInv, PTL DEF Spec

\* What a stable manifest was made of.
LEMMA Made ==
  ASSUME IInv, NEW s \in stable
  PROVE  /\ {i.platform : i \in Images(s)} = Platform
         /\ \A i \in Images(s) :
              i.passed /\ i.commit = s.code_commit /\ i.version = s.release_version
         /\ s.pinned = Tree[s.code_commit] /\ s.code_commit \in validated
         /\ \A d \in s.digests : attested[d] = Len(Kind)
<1>1. PICK m \in candidates, n \in candidates :
        /\ {m.platform, n.platform} = Platform /\ SameIdentity(m, n)
        /\ attested[m.image_digest] = Len(Kind) /\ attested[n.image_digest] = Len(Kind)
        /\ s = StableManifest(m, n)
  BY DEF IInv, StableIsMade
<1> DEFINE a == m.image_digest
           b == n.image_digest
<1>2. /\ a \in 1..Len(built) /\ m = Manifest(a, built[a]) /\ built[a].passed
      /\ b \in 1..Len(built) /\ n = Manifest(b, built[b]) /\ built[b].passed
  BY DEF IInv, CandidatesAreBuilt
<1>3. /\ m.platform = built[a].platform /\ n.platform = built[b].platform
      /\ m.code_commit = built[a].commit /\ n.code_commit = built[b].commit
      /\ m.requested_release_version = built[a].version
      /\ n.requested_release_version = built[b].version
      /\ m.pinned = Tree[built[a].commit]
  BY <1>2 DEF Manifest
<1>4. /\ s.code_commit = m.code_commit /\ s.release_version = m.requested_release_version
      /\ s.pinned = m.pinned /\ s.digests = {a, b}
  BY <1>1 DEF StableManifest
<1>5. m.code_commit = n.code_commit
      /\ m.requested_release_version = n.requested_release_version
  BY <1>1 DEF SameIdentity
<1>6. Images(s) = {built[a], built[b]}
  BY <1>4 DEF Images
<1>7. s.code_commit \in validated
  BY <1>2, <1>3, <1>4 DEF IInv, ImagesAreValidated
<1>8. {i.platform : i \in Images(s)} = Platform
  BY <1>1, <1>3, <1>6
<1>9. \A d \in s.digests : attested[d] = Len(Kind)
  BY <1>1, <1>4
<1>10. \A i \in Images(s) : i.passed /\ i.commit = s.code_commit /\ i.version = s.release_version
  BY <1>2, <1>3, <1>4, <1>5, <1>6
<1>11. s.pinned = Tree[s.code_commit]
  BY <1>3, <1>4
<1> QED
  BY <1>7, <1>8, <1>9, <1>10, <1>11

\* Whatever releases, reruns and manifests there are: a stable manifest names
\* one tested image of each platform, of its own commit and version.
THEOREM StableIsOneBuildAlways == Spec => []StableIsOneBuild
<1>1. IInv => StableIsOneBuild
  BY Made DEF StableIsOneBuild
<1> QED
  BY <1>1, ReleaseInvariant, PTL

\* Evidence of another image never promotes a digest.
THEOREM StableIsAttestedAlways == Spec => []StableIsAttested
<1>1. IInv => StableIsAttested
  BY Made DEF StableIsAttested
<1> QED
  BY <1>1, ReleaseInvariant, PTL

\* A stable manifest is one build with its own evidence.
THEOREM StableIsSoundAlways == Spec => []StableIsSound
<1>1. StableIsOneBuild /\ StableIsAttested => StableIsSound
  BY DEF StableIsSound
<1> QED
  BY <1>1, StableIsOneBuildAlways, StableIsAttestedAlways, PTL

\* Every commit that was promoted has been through every suite.
THEOREM StableIsValidatedAlways == Spec => []StableIsValidated
<1>1. IInv => StableIsValidated
  BY Made DEF StableIsValidated
<1> QED
  BY <1>1, ReleaseInvariant, PTL

-----------------------------------------------------------------------------
(* What a pull request was given, and the types *)

\* The request's own state.
RequestIsRead ==
  /\ diff \in Seq(Change \cup Move) /\ event \in Event
  /\ selected \in SUBSET Suite /\ review \in BOOLEAN /\ SelectionIsRead

\* An empty request is read as everything.
LEMMA NothingIsEverything ==
  /\ <<>> \in Seq(Change \cup Move) /\ "diff" \in Event
  /\ Select(ChangedPaths("diff", <<>>)) = Suite
  /\ ReviewRequired(ChangedPaths("diff", <<>>)) = TRUE
<1>. DEFINE read == ChangedPaths("diff", <<>>)
<1>1. <<>> \in Seq(Change \cup Move) /\ "diff" \in Event
  BY DEF Event
<1>2. PathsOf(<<>>, Len(<<>>)) = {}
  BY DEF PathsOf
<1>3. PICK changes \in Seq(Change \cup Move), how \in Event \ {"cut_status"} :
        changes = <<>> /\ how = "diff"
  BY <1>1
<1>4. CASE read.bad
  BY <1>1, <1>4 DEF Select, ReviewRequired
<1>5. CASE ~read.bad
  <2>1. read.paths \in Seq(Path) /\ Range(read.paths) = {}
    <3>1. ~ChangedPaths(how, changes).bad
      BY <1>3, <1>5
    <3>2. /\ ChangedPaths(how, changes).paths \in Seq(Path)
          /\ Range(ChangedPaths(how, changes).paths) = PathsOf(changes, Len(changes))
      BY <3>1, NothingLost
    <3>. QED
      BY <1>2, <1>3, <3>2
  <2>. HIDE DEF read
  <2>2. read.paths = <<>>
    <3>1. PICK s \in Seq(Path) : s = read.paths /\ Range(s) = {}
      BY <2>1
    <3>2. \A i \in DOMAIN s : FALSE
      <4>1. \A i \in DOMAIN s : s[i] \in Range(s)
        BY DEF Range
      <4>. QED
        BY <3>1, <4>1
    <3>3. Len(s) = 0
      <4>1. DOMAIN s = 1..Len(s) /\ Len(s) \in Nat
        OBVIOUS
      <4>2. Len(s) # 0 => 1 \in 1..Len(s)
        BY <4>1
      <4>. QED
        BY <3>2, <4>1, <4>2
    <3>. QED
      BY <3>1, <3>3
  <2>3. Select(read) = Suite /\ ReviewRequired(read) = TRUE
    BY <1>5, <2>2 DEF Select, Classify, ReviewRequired, RequiresReview
  <2>. QED
    BY <1>1, <2>3 DEF read
<1>. QED
  BY <1>4, <1>5

\* A request is opened without changes.
LEMMA OpenedIsRead ==
  /\ diff = <<>> /\ event = "diff" /\ selected = Suite /\ review = TRUE => RequestIsRead
  /\ Opened => RequestIsRead'
<1>1. Suite \in SUBSET Suite /\ TRUE \in BOOLEAN
  OBVIOUS
<1>. QED
  BY <1>1, NothingIsEverything DEF Opened, RequestIsRead, SelectionIsRead

\* A push selects by the change list it brings.
LEMMA PushIsRead ==
  ASSUME RequestIsRead, NEW change \in Change \cup Move, NEW how \in Event, Push(change, how)
  PROVE  RequestIsRead'
<1>1. diff' \in Seq(Change \cup Move) /\ event' \in Event
  BY DEF RequestIsRead, Push
<1>2. /\ selected' = Select(ChangedPaths(event', diff'))
      /\ review' = ReviewRequired(ChangedPaths(event', diff'))
  BY DEF Push
<1>3. selected' \in SUBSET Suite /\ review' \in BOOLEAN
  BY <1>2, AnswersTyped
<1>4. SelectionIsRead'
  BY <1>2 DEF SelectionIsRead
<1>. QED
  BY <1>1, <1>3, <1>4 DEF RequestIsRead

\* Nothing else touches the request.
LEMMA RequestUnchanged ==
  ASSUME RequestIsRead, UNCHANGED requestVars
  PROVE  RequestIsRead'
BY DEF RequestIsRead, SelectionIsRead, requestVars

\* What the workflow keeps of the run and of its history.
RunTyped == validated \subseteq 1..head /\ run \in Request

\* Every step keeps the run's type, and only approved commits are validated.
LEMMA RunTypedStep ==
  ASSUME IInv, RunTyped, [Next]_vars
  PROVE  RunTyped'
<1>1. /\ head \in 1..MaxCommits /\ validated \subseteq 1..head
      /\ run.version \in Version \cup {NoVersion} /\ run.commit \in 0..MaxCommits
      /\ run.suites \in SUBSET Suite /\ run.stage \in {"validation", "publish", "ended"}
      /\ run = [version |-> run.version, commit |-> run.commit, suites |-> run.suites,
                stage |-> run.stage]
  BY DEF IInv, RunTyped, Request
<1>2. MaxCommits \in Nat
  BY BoundAssumption
<1>3. ASSUME UNCHANGED <<head, validated, run>> PROVE RunTyped'
  BY <1>3 DEF RunTyped
<1>4. CASE Merge
  <2>1. head' = head + 1 /\ validated' = validated /\ run' = run
    BY <1>4 DEF Merge
  <2>2. validated' \subseteq 1..head'
    BY <1>1, <1>2, <2>1
  <2>. QED
    BY <2>1, <2>2 DEF RunTyped
<1>5. ASSUME NEW version \in Version, Dispatch(version) PROVE RunTyped'
  <2>1. /\ head' = head /\ validated' = validated
        /\ run' = [version |-> version, commit |-> head, suites |-> Suite, stage |-> "validation"]
    BY <1>5, Forced DEF Dispatch
  <2>2. head \in 0..MaxCommits
    BY <1>1, <1>2
  <2>3. run' \in Request
    BY <2>1, <2>2 DEF Request
  <2>. QED
    BY <1>1, <2>1, <2>3 DEF RunTyped
<1>6. ASSUME NEW stage \in {"validation", "publish", "ended"} PROVE [run EXCEPT !.stage = stage] \in Request
  BY <1>1 DEF Request
<1>7. CASE Validated
  <2>1. run.commit \in 1..head
    BY <1>7 DEF Validated, IInv, RunIsValidated
  <2>2. head' = head /\ run' = [run EXCEPT !.stage = "publish"] /\ validated' \subseteq 1..head
    BY <1>1, <1>7, <2>1 DEF Validated
  <2>. QED
    BY <1>6, <2>2 DEF RunTyped
<1>8. CASE End
  <2>1. head' = head /\ run' = [run EXCEPT !.stage = "ended"] /\ validated' = validated
    BY <1>8 DEF End
  <2>. QED
    BY <1>1, <1>6, <2>1 DEF RunTyped
<1>9. ASSUME \/ Pull
             \/ \E platform \in Platform, passes \in BOOLEAN : Build(platform, passes)
             \/ \E m \in candidates : Attest(m)
             \/ \E m, n \in candidates : Promote(m, n)
             \/ UNCHANGED vars
      PROVE  RunTyped'
  BY <1>3, <1>9 DEF Pull, Push, Build, Attest, Promote, vars, releaseVars
<1>. QED
  BY <1>4, <1>5, <1>7, <1>8, <1>9 DEF Next

\* Every step keeps the request's type and its selections.
LEMMA RequestStep ==
  ASSUME RequestIsRead, [Next]_vars
  PROVE  RequestIsRead'
<1>1. ASSUME Pull PROVE RequestIsRead'
  BY <1>1, PushIsRead DEF Pull
<1>2. ASSUME Merge \/ \E version \in Version : Dispatch(version) PROVE RequestIsRead'
  BY <1>2, OpenedIsRead DEF Merge, Dispatch
<1>3. ASSUME \/ Validated \/ End
             \/ \E platform \in Platform, passes \in BOOLEAN : Build(platform, passes)
             \/ \E m \in candidates : Attest(m)
             \/ \E m, n \in candidates : Promote(m, n)
             \/ UNCHANGED vars
      PROVE  RequestIsRead'
  <2>1. UNCHANGED requestVars
    BY <1>3 DEF Validated, End, Build, Attest, Promote, vars, requestVars
  <2>. QED
    BY <2>1, RequestUnchanged
<1>. QED
  BY <1>1, <1>2, <1>3 DEF Next

\* The three invariants together are the whole of Consistent.
LEMMA ConsistentParts == IInv /\ RunTyped /\ RequestIsRead <=> Consistent
<1>1. ASSUME IInv, RunTyped, RequestIsRead PROVE TypeOK
  <2>1. candidates \subseteq {Manifest(d, built[d]) : d \in DOMAIN built}
    <3>1. built \in Seq(ImageType)
      BY <1>1 DEF IInv, ImagesAreValidated
    <3>2. DOMAIN built = 1..Len(built)
      BY <3>1
    <3>. QED
      BY <1>1, <3>2 DEF IInv, CandidatesAreBuilt
  <2>. QED
    BY <1>1, <2>1 DEF TypeOK, IInv, ImagesAreValidated, RunTyped, RequestIsRead
<1>. QED
  BY <1>1 DEF Consistent, TypeOK, RunTyped, RequestIsRead

\* Every variable has its type, for any number of changes, releases and
\* builds; the selections are those of the change list that was pushed last.
THEOREM ConsistentAlways == Spec => []Consistent
<1>1. Init => IInv /\ RunTyped /\ RequestIsRead
  <2>1. Init => RunTyped
    <3>. SUFFICES ASSUME Init PROVE RunTyped
      OBVIOUS
    <3>1. 0 \in 0..MaxCommits
      BY BoundAssumption
    <3>. QED
      BY <3>1 DEF Init, RunTyped, Request
  <2>2. Init => RequestIsRead
    BY OpenedIsRead DEF Init
  <2>. QED
    BY <2>1, <2>2, InitInv
<1>2. (IInv /\ RunTyped /\ RequestIsRead) /\ [Next]_vars => (IInv /\ RunTyped /\ RequestIsRead)'
  BY StepInv, RunTypedStep, RequestStep
<1>3. (IInv /\ RunTyped /\ RequestIsRead) => Consistent
  BY ConsistentParts
<1>. QED
  BY <1>1, <1>2, <1>3, PTL DEF Spec

\* All the paths of the request's changes.
LEMMA ChangedIsAll ==
  ASSUME RequestIsRead
  PROVE  Changed = PathsOf(diff, Len(diff))
<1>1. DOMAIN diff = 1..Len(diff)
  BY DEF RequestIsRead
<1>. QED
  BY <1>1 DEF Changed, PathsOf

\* Documentation that is executed is prose: what is in docs is not executed, and
\* the documents at the root are Markdown or the two texts of the image.
LEMMA DocumentationIsProse ==
  ASSUME NEW p \in Executed, IsDocumentation(p)
  PROVE  p \in Prose
<1>1. p \in Path /\ Len(p) \in Nat /\ Len(p) >= 1
  BY PartsTyped DEF Executed, ModelInput, RuntimeInput
<1>2. p[1] = Head(p)
  BY <1>1, PartsTyped
<1>3. p[1] \in {"src", "models", "evaluation", "training", ".github", "config", "scripts",
               "tests", "uv.lock", "pyproject.toml", "build-constraints.txt", "Dockerfile",
               ".dockerignore", "LICENSE", "NOTICE"}
  BY <1>2 DEF Executed, ModelInput, RuntimeInput
<1>4. CASE Last(p) \in Markdown
  BY <1>1, <1>4 DEF Prose
<1>5. CASE p \in DocumentationFile
  <2>1. p[1] \in {"LICENSE", "NOTICE"}
    BY <1>3, <1>5, ListedParts
  <2>. QED
    BY <1>5, <2>1 DEF DocumentationFile, Prose
<1>6. p[1] # "docs" /\ p # <<"docs", "">>
  BY <1>3, NotTheDocsDirectory
<1>. QED
  BY <1>1, <1>4, <1>5, <1>6, DocumentationListed

\* Whatever a pull request changes and whichever of its pushes came last, for
\* every list but one that ends after a status: the suite that reads a changed
\* file is run, for all inputs but LeftOut, and of what is executed only prose
\* goes without a review.
THEOREM ChangesAreValidatedAlways == Spec => []ChangesAreValidated
<1>1. ASSUME RequestIsRead, event # "cut_status"
      PROVE  InputsAreValidated /\ UnreviewedIsProse
  <2>1. diff \in Seq(Change \cup Move) /\ event \in Event \ {"cut_status"}
    BY <1>1 DEF RequestIsRead
  <2>2. selected = Select(ChangedPaths(event, diff)) /\ review = ReviewRequired(ChangedPaths(event, diff))
    BY <1>1 DEF RequestIsRead, SelectionIsRead
  <2>3. Changed = PathsOf(diff, Len(diff))
    BY <1>1, ChangedIsAll
  <2>4. "model" \in Suite /\ "container" \in Suite
    BY DEF Suite
  <2>5. ASSUME NEW p \in Changed, p \in ModelInput PROVE "model" \in selected
    <3>1. ClassifyPath(p) \in {Suite, Unknown} \/ "model" \in ClassifyPath(p)
      BY <2>5, ModelInputAnswers
    <3>. QED
      BY <2>1, <2>2, <2>3, <2>4, <3>1, SelectedForOne
  <2>6. ASSUME NEW p \in Changed, p \in RuntimeInput \ LeftOut PROVE "container" \in selected
    <3>1. ClassifyPath(p) \in {Suite, Unknown} \/ "container" \in ClassifyPath(p)
      BY <2>6, RuntimeInputAnswers
    <3>. QED
      BY <2>1, <2>2, <2>3, <2>4, <3>1, SelectedForOne
  <2>7. ASSUME ~review, NEW p \in Changed PROVE IsDocumentation(p)
    BY <2>1, <2>2, <2>3, <2>7, SparedForAll
  <2>. QED
    BY <2>5, <2>6, <2>7, DocumentationIsProse DEF InputsAreValidated, UnreviewedIsProse
<1>2. Consistent => ChangesAreValidated
  BY <1>1, ConsistentParts DEF ChangesAreValidated
<1>. QED
  BY <1>2, ConsistentAlways, PTL

=============================================================================
