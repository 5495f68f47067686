-------------------------- MODULE ModelFilesProofs --------------------------
EXTENDS ModelFiles, FiniteSetTheorems, SequenceTheorems, TLAPS

LEMMA MaxOfTwo ==
  ASSUME NEW a \in Nat, NEW b \in Nat
  PROVE  Max({a, b}) = IF a >= b THEN a ELSE b
<1>1. PICK x \in {a, b} : \A y \in {a, b} : x >= y
  OBVIOUS
<1>2. Max({a, b}) \in {a, b} /\ \A y \in {a, b} : Max({a, b}) >= y
  BY <1>1 DEF Max
<1>. QED
  BY <1>2

LEMMA ContentIs ==
  ASSUME NEW s
  PROVE  s \in Content <=> \E n \in 0..Size : s \in [1..n -> {"good", "bad"}]
BY DEF Content

LEMMA ContentLength ==
  ASSUME NEW s \in Content
  PROVE  /\ s \in Seq({"good", "bad"}) /\ Len(s) \in 0..Size
         /\ s \in [1..Len(s) -> {"good", "bad"}]
<1>1. PICK n \in 0..Size : s \in [1..n -> {"good", "bad"}]
  BY ContentIs
<1>2. n \in Nat
  BY SizeAssumption
<1>3. s \in Seq({"good", "bad"})
  BY <1>1, <1>2
<1>. QED
  BY <1>1, <1>2, <1>3

LEMMA EmptyContent == <<>> \in Content
<1>1. <<>> \in Seq({"good", "bad"}) /\ Len(<<>>) = 0
  OBVIOUS
<1>2. <<>> \in [1..0 -> {"good", "bad"}]
  BY <1>1
<1>3. 0 \in 0..Size
  BY SizeAssumption
<1>. QED
  BY <1>2, <1>3 DEF Content

LEMMA WriteType ==
  ASSUME NEW s \in Content, NEW offset \in 0..Size - 1, NEW chunk \in {"good", "bad"}
  PROVE  WriteAt(s, offset, chunk) \in Content
<1>1. Len(s) \in 0..Size /\ s \in [1..Len(s) -> {"good", "bad"}]
  BY ContentLength
<1>2. Max({Len(s), offset + 1}) \in 0..Size
  BY <1>1, MaxOfTwo, SizeAssumption
<1>3. WriteAt(s, offset, chunk) \in [1..Max({Len(s), offset + 1}) -> {"good", "bad"}]
  BY <1>1, SizeAssumption DEF WriteAt
<1>. QED
  BY <1>2, <1>3, ContentIs

LEMMA WriteAtEnd ==
  ASSUME NEW s \in Content, NEW chunk \in {"good", "bad"}, Len(s) < Size
  PROVE  /\ WriteAt(s, Len(s), chunk) = Append(s, chunk)
         /\ Append(s, chunk) \in Content
<1>1. Len(s) \in 0..Size - 1 /\ s \in Seq({"good", "bad"}) /\ s \in [1..Len(s) -> {"good", "bad"}]
  BY ContentLength, SizeAssumption
<1>2. Max({Len(s), Len(s) + 1}) = Len(s) + 1
  BY <1>1, MaxOfTwo
<1>3. WriteAt(s, Len(s), chunk) =
        [i \in 1..Len(s) + 1 |-> IF i = Len(s) + 1 THEN chunk ELSE s[i]]
  <2>1. WriteAt(s, Len(s), chunk) =
          [i \in 1..Len(s) + 1 |->
             IF i = Len(s) + 1 THEN chunk ELSE IF i <= Len(s) THEN s[i] ELSE "bad"]
    BY <1>2, Zenon DEF WriteAt
  <2>2. \A i \in 1..Len(s) + 1 : i # Len(s) + 1 => i <= Len(s)
    BY <1>1
  <2>. QED
    BY <2>1, <2>2
<1>4. Append(s, chunk) = [i \in 1..Len(s) + 1 |-> IF i = Len(s) + 1 THEN chunk ELSE s[i]]
  <2>1. Append(s, chunk) \in Seq({"good", "bad"}) /\ Len(Append(s, chunk)) = Len(s) + 1
    BY <1>1
  <2>2. Append(s, chunk) \in [1..Len(s) + 1 -> {"good", "bad"}]
    BY <2>1, LenProperties
  <2>3. \A i \in 1..Len(s) + 1 : Append(s, chunk)[i] = IF i = Len(s) + 1 THEN chunk ELSE s[i]
    BY <1>1
  <2>. QED
    BY <2>2, <2>3
<1>. QED
  BY <1>1, <1>3, <1>4, WriteType

LEMMA Inodes == Inode \subseteq Nat /\ None \notin Inode /\ IsFiniteSet(Command)
<1>1. IsFiniteSet(Command) /\ IsFiniteSet(Litter)
  BY CommandAssumption, FS_Union DEF Command
<1>2. Cardinality(Command) \in Nat /\ Cardinality(Litter) \in Nat
  BY <1>1, FS_CardinalityType
<1>. QED
  BY <1>1, <1>2, CommandAssumption DEF Inode

LEMMA Names ==
  /\ \A c \in Downloader :
       c \in Command /\ c \notin Materializer /\ Temporary(c) = "part" /\ Destination(c) = "embedded"
  /\ \A c \in Materializer :
       /\ c \in Command /\ c \notin Downloader /\ Temporary(c) = c /\ Destination(c) = "tuned"
       /\ c \in Name /\ c \notin {"embedded", "part", "tuned"}
  /\ \A c \in Command : Temporary(c) \in Name /\ Destination(c) \in Name /\ (c \in Downloader \/ c \in Materializer)
  /\ {"embedded", "part", "tuned"} \subseteq Name
  /\ \A l \in Litter :
       l \in Name /\ l \notin Materializer /\ l \notin {"embedded", "part", "tuned"}
BY CommandAssumption DEF Command, Temporary, Destination, Name

LEMMA RelinkKeeps ==
  ASSUME NEW n \in [Name -> Inode \cup {None}], NEW f \in [Command -> Inode \cup {None}],
         NEW d \in [Inode -> Content], Relink(n, f, d)
  PROVE  /\ name' = n /\ fd' = f
         /\ data' \in [Inode -> Content]
         /\ \A m \in Name : n[m] # None => data'[n[m]] = d[n[m]]
         /\ \A c \in Command : f[c] # None => data'[f[c]] = d[f[c]]
<1>1. \A m \in Name : n[m] \in Linked(n, f)
  BY DEF Linked, Range
<1>2. \A c \in Command : f[c] \in Linked(n, f)
  BY DEF Linked, Range
<1>3. data' = [i \in Inode |-> IF i \in Linked(n, f) THEN d[i] ELSE <<>>]
  BY DEF Relink
<1>4. data' \in [Inode -> Content]
  BY <1>3, EmptyContent
<1>. QED
  BY <1>1, <1>2, <1>3, <1>4 DEF Relink

LEMMA ImageFinite ==
  ASSUME NEW S, IsFiniteSet(S), NEW f
  PROVE  /\ IsFiniteSet({f[x] : x \in S})
         /\ Cardinality({f[x] : x \in S}) \in Nat
         /\ Cardinality({f[x] : x \in S}) <= Cardinality(S)
<1>. DEFINE T == {f[x] : x \in S}
            g == [x \in S |-> f[x]]
<1>1. g \in Surjection(S, T)
  BY DEF Surjection
<1>2. IsFiniteSet(T) /\ Cardinality(T) <= Cardinality(S)
  BY <1>1, FS_Surjection
<1>. QED
  BY <1>2, FS_CardinalityType

FilesType ==
  /\ name \in [Name -> Inode \cup {None}]
  /\ data \in [Inode -> Content]
  /\ at \in [Command -> Place]
  /\ fd \in [Command -> Inode \cup {None}]
  /\ got \in [Command -> Content]

LEMMA FreshExists ==
  ASSUME FilesType, OpenFiles, NEW c \in Command, at[c] = "open", name[Temporary(c)] = None
  PROVE  Fresh \in Inode /\ Fresh \notin Linked(name, fd)
<1>. DEFINE used == {name[n] : n \in Name \ {Temporary(c)}}
            open == {fd[d] : d \in Command \ {c}}
            D == Cardinality(Downloader)
            M == Cardinality(Materializer)
            L == Cardinality(Litter)
<1>0. IsFiniteSet(Litter) /\ L \in Nat
  BY CommandAssumption, FS_CardinalityType
<1>1. D \in Nat /\ M \in Nat /\ Cardinality(Command) = D + M /\ IsFiniteSet(Command)
  <2>1. IsFiniteSet(Downloader) /\ IsFiniteSet(Materializer) /\ Cardinality(Downloader \cap Materializer) = 0
    BY CommandAssumption, FS_EmptySet
  <2>2. Cardinality(Downloader) \in Nat /\ Cardinality(Materializer) \in Nat
    BY <2>1, FS_CardinalityType
  <2>3. /\ IsFiniteSet(Downloader \cup Materializer)
        /\ Cardinality(Downloader \cup Materializer) =
             Cardinality(Downloader) + Cardinality(Materializer) - Cardinality(Downloader \cap Materializer)
    BY <2>1, FS_Union
  <2>. QED
    BY <2>1, <2>2, <2>3 DEF Command
<1>2. IsFiniteSet(Name) /\ Cardinality(Name) = M + L + 3
  <2>1. IsFiniteSet({"embedded", "part", "tuned"}) /\ Cardinality({"embedded", "part", "tuned"}) = 3
    <3>2. IsFiniteSet({"embedded"}) /\ Cardinality({"embedded"}) = 1
      BY FS_Singleton
    <3>3. "part" \notin {"embedded"} /\ "tuned" \notin {"embedded"} \cup {"part"}
      OBVIOUS
    <3>4. /\ IsFiniteSet({"embedded"} \cup {"part"})
          /\ Cardinality({"embedded"} \cup {"part"}) = Cardinality({"embedded"}) + 1
      BY <3>2, <3>3, FS_AddElement, Zenon
    <3>6. /\ IsFiniteSet(({"embedded"} \cup {"part"}) \cup {"tuned"})
          /\ Cardinality(({"embedded"} \cup {"part"}) \cup {"tuned"}) = Cardinality({"embedded"} \cup {"part"}) + 1
      BY <3>3, <3>4, FS_AddElement, Zenon
    <3>5. {"embedded", "part", "tuned"} = ({"embedded"} \cup {"part"}) \cup {"tuned"}
      OBVIOUS
    <3>. QED
      BY <3>2, <3>4, <3>5, <3>6
  <2>2. IsFiniteSet(Materializer) /\ Cardinality({"embedded", "part", "tuned"} \cap Materializer) = 0
    <3>1. {"embedded", "part", "tuned"} \cap Materializer = {}
      BY CommandAssumption
    <3>. QED
      BY <3>1, CommandAssumption, FS_EmptySet
  <2>3. Name = ({"embedded", "part", "tuned"} \cup Materializer) \cup Litter
    BY DEF Name
  <2>4. /\ IsFiniteSet({"embedded", "part", "tuned"} \cup Materializer)
        /\ Cardinality({"embedded", "part", "tuned"} \cup Materializer) =
             Cardinality({"embedded", "part", "tuned"}) + Cardinality(Materializer)
               - Cardinality({"embedded", "part", "tuned"} \cap Materializer)
    BY <2>1, <2>2, FS_Union
  <2>. DEFINE S == {"embedded", "part", "tuned"} \cup Materializer
  <2>5. IsFiniteSet(S) /\ Cardinality(S) = M + 3
    BY <2>1, <2>2, <2>4, <1>1
  <2>6. Cardinality(S \cap Litter) = 0
    <3>1. S \cap Litter = {}
      BY CommandAssumption
    <3>. QED
      BY <3>1, FS_EmptySet
  <2>. HIDE DEF S
  <2>7. /\ IsFiniteSet(S \cup Litter)
        /\ Cardinality(S \cup Litter) = Cardinality(S) + Cardinality(Litter) - Cardinality(S \cap Litter)
    BY <2>5, <1>0, FS_Union
  <2>8. Cardinality(S \cup Litter) = M + L + 3
    BY <2>5, <2>6, <2>7, <1>0, <1>1
  <2>. QED
    BY <2>3, <2>7, <2>8 DEF S
<1>3. IsFiniteSet(used) /\ Cardinality(used) <= M + L + 2 /\ Cardinality(used) \in Nat
  <2>1. IsFiniteSet(Name \ {Temporary(c)}) /\ Cardinality(Name \ {Temporary(c)}) = M + L + 2
    BY <1>0, <1>1, <1>2, Names, FS_RemoveElement
  <2>. QED
    BY <2>1, <1>0, <1>1, ImageFinite
<1>4. IsFiniteSet(open) /\ Cardinality(open) <= D + M - 1 /\ Cardinality(open) \in Nat
  <2>1. IsFiniteSet(Command \ {c}) /\ Cardinality(Command \ {c}) = D + M - 1
    BY <1>1, FS_RemoveElement
  <2>. QED
    BY <2>1, <1>1, ImageFinite
<1>5. IsFiniteSet(used \cup open) /\ Cardinality(used \cup open) <= D + 2 * M + L + 1
  <2>1. /\ IsFiniteSet(used \cup open)
        /\ Cardinality(used \cup open) = Cardinality(used) + Cardinality(open) - Cardinality(used \cap open)
    BY <1>3, <1>4, FS_Union
  <2>2. Cardinality(used \cap open) \in Nat
    BY <1>3, FS_Intersection, FS_CardinalityType
  <2>. QED
    BY <2>1, <2>2, <1>0, <1>1, <1>3, <1>4
<1>6. IsFiniteSet(Inode) /\ Cardinality(Inode) = 2 + 2 * (D + M) + L
  <2>. DEFINE k == 2 + 2 * Cardinality(Command) + Cardinality(Litter)
  <2>1. 1 \in Int /\ k \in Int /\ ~(1 > k) /\ k - 1 + 1 = 2 + 2 * (D + M) + L /\ Inode = 1..k
    BY <1>0, <1>1 DEF Inode
  <2>. HIDE DEF k
  <2>. QED
    BY <2>1, FS_Interval
<1>7. PICK i \in Inode : i \notin used \cup open
  <2>1. CASE Inode \subseteq used \cup open
    <3>1. Cardinality(Inode) <= Cardinality(used \cup open)
      BY <2>1, <1>5, FS_Subset
    <3>. QED
      BY <3>1, <1>0, <1>1, <1>5, <1>6, FS_CardinalityType
  <2>. QED
    BY <2>1
<1>8. i \notin Linked(name, fd)
  <2>1. DOMAIN name = Name /\ DOMAIN fd = Command /\ fd[c] = None /\ i # None
    BY Inodes DEF FilesType, OpenFiles
  <2>. QED
    BY <1>7, <2>1 DEF Linked, Range
<1>. QED
  BY <1>8 DEF Fresh

-----------------------------------------------------------------------------

\* The links between the files and the commands.
Linking == FilesType /\ NamesDistinct /\ OpenFiles /\ OwnFile /\ Apart

\* What holds however many downloads run at a time.
General ==
  /\ Linking /\ Installed("tuned")
  /\ said \in SUBSET {"embedded", "tuned"} /\ server \in BOOLEAN /\ loaded \in SUBSET Content

LEMMA GeneralInit == Init => General
<1>. SUFFICES ASSUME Init PROVE General
  OBVIOUS
<1>1. FilesType
  BY EmptyContent, Inodes DEF Init, FilesType, Place
<1>2. NamesDistinct /\ OpenFiles /\ Apart /\ Installed("tuned")
  BY Names DEF Init, NamesDistinct, OpenFiles, Apart, Installed
<1>3. OwnFile
  BY Names DEF Init, OwnFile
<1>. QED
  BY <1>1, <1>2, <1>3 DEF Init, Linking, General

\* A step of a command that at most gives up the name of its temporary file.
LEMMA LinkingDrop ==
  ASSUME Linking, FilesType', NEW c \in Command, NEW place \in Place \ {"copy"}, Goto(c, place),
         \A m \in Name : name'[m] \in {name[m], None} /\ (m # Temporary(c) => name'[m] = name[m]),
         \A d \in Command \ {c} : fd'[d] = fd[d] /\ got'[d] = got[d],
         fd'[c] = None,
         \A m \in Name : name'[m] # None => data'[name'[m]] = data[name'[m]],
         place \in {"new", "open", "done"} => got'[c] = <<>>,
         c \in Materializer =>
           /\ place \in {"new", "open", "done"} => name'[c] = None
           /\ place \in {"check", "rename"} => name'[c] # None /\ data'[name'[c]] = got'[c]
           /\ place = "rename" => got'[c] = Pinned
  PROVE  Linking' /\ \A n \in {"embedded", "tuned"} : Verified(n) => Verified(n)'
<1>1. at'[c] = place /\ \A d \in Command \ {c} : at'[d] = at[d]
  BY DEF Linking, FilesType, Goto
<1>2. NamesDistinct'
  BY DEF Linking, NamesDistinct
<1>3. Apart'
  BY Names DEF Linking, Apart
<1>4. \A n \in {"embedded", "tuned"} : Verified(n) => Verified(n)'
  BY Names DEF Linking, FilesType, Verified
<1>5. OpenFiles'
  BY <1>1 DEF Linking, OpenFiles
<1>6. OwnFile'
  <2>. SUFFICES ASSUME NEW m \in Materializer
                PROVE  /\ at'[m] \in {"new", "open", "done"} => name'[m] = None
                       /\ at'[m] = "copy" => fd'[m] = name'[m]
                       /\ at'[m] \in {"copy", "check", "rename"} =>
                            name'[m] # None /\ data'[name'[m]] = got'[m]
                       /\ at'[m] = "rename" => got'[m] = Pinned
    BY DEF OwnFile
  <2>1. CASE m = c
    BY <2>1, <1>1
  <2>2. CASE m # c
    <3>1. m \in Command /\ m \in Name /\ m # Temporary(c)
      BY <2>2, Names
    <3>2. at'[m] = at[m] /\ name'[m] = name[m] /\ fd'[m] = fd[m] /\ got'[m] = got[m]
      BY <3>1, <2>2, <1>1
    <3>. QED
      BY <3>1, <3>2 DEF Linking, OwnFile
  <2>. QED
    BY <2>1, <2>2
<1>. QED
  BY <1>2, <1>3, <1>4, <1>5, <1>6 DEF Linking

\* A step that changes no file.
LEMMA LinkingGoto ==
  ASSUME Linking, NEW c \in Command, NEW place \in Place \ {"copy"}, Goto(c, place),
         at[c] # "copy", UNCHANGED <<fileVars, fd, got>>,
         place \in {"new", "open", "done"} => got[c] = <<>>,
         c \in Materializer =>
           /\ place \in {"new", "open", "done"} => name[c] = None
           /\ place \in {"check", "rename"} => name[c] # None /\ data[name[c]] = got[c]
           /\ place = "rename" => got[c] = Pinned
  PROVE  Linking' /\ \A n \in {"embedded", "tuned"} : Verified(n) => Verified(n)'
<1>1. name' = name /\ data' = data /\ fd' = fd /\ got' = got /\ at' = [at EXCEPT ![c] = place]
  BY DEF Goto, fileVars
<1>2. FilesType' /\ fd[c] = None
  BY <1>1 DEF Linking, FilesType, OpenFiles
<1>3. \A m \in Name : name'[m] \in {name[m], None} /\ (m # Temporary(c) => name'[m] = name[m])
  BY <1>1
<1>4. \A d \in Command \ {c} : fd'[d] = fd[d] /\ got'[d] = got[d]
  BY <1>1
<1>5. \A m \in Name : name'[m] # None => data'[name'[m]] = data[name'[m]]
  BY <1>1
<1>6. c \in Materializer =>
        /\ place \in {"new", "open", "done"} => name'[c] = None
        /\ place \in {"check", "rename"} => name'[c] # None /\ data'[name'[c]] = got'[c]
        /\ place = "rename" => got'[c] = Pinned
  BY <1>1
<1>. QED
  BY <1>1, <1>2, <1>3, <1>4, <1>5, <1>6, LinkingDrop

LEMMA LinkingBegin ==
  ASSUME Linking, NEW c \in Command, BeginDownload(c) \/ BeginMaterialize(c)
  PROVE  Linking' /\ \A n \in {"embedded", "tuned"} : Verified(n) => Verified(n)'
<1>1. /\ at[c] = "new" /\ UNCHANGED <<fileVars, fd, got>>
      /\ \E place \in {"open", "done"} : Goto(c, place)
  BY DEF BeginDownload, BeginMaterialize
<1>2. PICK place \in {"open", "done"} : Goto(c, place)
  BY <1>1
<1>3. (c \in Materializer => name[c] = None) /\ got[c] = <<>>
  BY <1>1 DEF Linking, OwnFile, OpenFiles
<1>. QED
  BY <1>1, <1>2, <1>3, LinkingGoto DEF Place

LEMMA LinkingCheck ==
  ASSUME Linking, NEW c \in Command, Check(c)
  PROVE  Linking' /\ \A n \in {"embedded", "tuned"} : Verified(n) => Verified(n)'
<1>1. /\ at[c] = "check" /\ UNCHANGED <<fileVars, fd, got>>
      /\ Goto(c, IF Matches(c) THEN "rename" ELSE "cleanup")
  BY DEF Check
<1>2. PICK place \in {"rename", "cleanup"} : Goto(c, place) /\ (place = "rename" => Matches(c))
  BY <1>1
<1>3. c \in Materializer =>
        /\ name[c] # None /\ data[name[c]] = got[c]
        /\ place = "rename" => got[c] = Pinned
  BY <1>1, <1>2, Names DEF Linking, OwnFile, Matches
<1>. QED
  BY <1>1, <1>2, <1>3, LinkingGoto DEF Place

\* The same for a step that frees what has lost its last link.
LEMMA LinkingRelink ==
  ASSUME Linking, NEW c \in Command, NEW place \in Place \ {"copy", "rename"}, Goto(c, place),
         NEW n \in [Name -> Inode \cup {None}], NEW f \in [Command -> Inode \cup {None}],
         Relink(n, f, data), f = [fd EXCEPT ![c] = None],
         \A m \in Name : n[m] \in {name[m], None} /\ (m # Temporary(c) => n[m] = name[m]),
         got' = got \/ got' = [got EXCEPT ![c] = <<>>],
         place \in {"new", "open", "done"} => got' = [got EXCEPT ![c] = <<>>],
         c \in Materializer =>
           /\ place \in {"new", "open", "done"} => n[c] = None
           /\ place = "check" => n[c] # None /\ data[n[c]] = got'[c]
  PROVE  Linking' /\ \A m \in {"embedded", "tuned"} : Verified(m) => Verified(m)'
<1>1. /\ name' = n /\ fd' = f /\ data' \in [Inode -> Content]
      /\ \A m \in Name : n[m] # None => data'[n[m]] = data[n[m]]
  <2>1. data \in [Inode -> Content]
    BY DEF Linking, FilesType
  <2>. QED
    <3>1. name' = n /\ fd' = f
      BY DEF Relink
    <3>2. data' \in [Inode -> Content]
      BY <2>1, RelinkKeeps
    <3>3. ASSUME NEW m \in Name, n[m] # None PROVE data'[n[m]] = data[n[m]]
      <4>1. n[m] \in Inode /\ n[m] \in Linked(n, f)
        BY <3>3 DEF Linked, Range
      <4>2. data' = [i \in Inode |-> IF i \in Linked(n, f) THEN data[i] ELSE <<>>]
        BY DEF Relink
      <4>. QED
        BY <4>1, <4>2
    <3>. QED
      BY <3>1, <3>2, <3>3
<1>2. /\ got' \in [Command -> Content] /\ \A d \in Command \ {c} : got'[d] = got[d]
      /\ place \in {"new", "open", "done"} => got'[c] = <<>>
  BY EmptyContent DEF Linking, FilesType
<1>3. at' \in [Command -> Place]
  BY DEF Goto, Linking, FilesType
<1>4. FilesType'
  BY <1>1, <1>2, <1>3 DEF FilesType
<1>5. fd'[c] = None /\ \A d \in Command \ {c} : fd'[d] = fd[d]
  BY <1>1 DEF Linking, FilesType
<1>6. \A m \in Name : name'[m] \in {name[m], None} /\ (m # Temporary(c) => name'[m] = name[m])
  BY <1>1
<1>7. \A m \in Name : name'[m] # None => data'[name'[m]] = data[name'[m]]
  BY <1>1
<1>8. c \in Materializer =>
        /\ place \in {"new", "open", "done"} => name'[c] = None
        /\ place \in {"check", "rename"} => name'[c] # None /\ data'[name'[c]] = got'[c]
        /\ place = "rename" => got'[c] = Pinned
  BY <1>1, Names
<1>9. \A d \in Command \ {c} : fd'[d] = fd[d] /\ got'[d] = got[d]
  BY <1>2, <1>5
<1>. QED
  BY <1>2, <1>4, <1>5, <1>6, <1>7, <1>8, <1>9, LinkingDrop

LEMMA LinkingCopyEnds ==
  ASSUME Linking, NEW c \in Command, CopyEnds(c)
  PROVE  Linking' /\ \A m \in {"embedded", "tuned"} : Verified(m) => Verified(m)'
<1>1. /\ at[c] = "copy" /\ Relink(name, [fd EXCEPT ![c] = None], data) /\ got' = got
      /\ \E place \in {"check", "cleanup"} : Goto(c, place)
  BY DEF CopyEnds
<1>2. PICK place \in {"check", "cleanup"} : Goto(c, place)
  BY <1>1
<1>3. c \in Materializer => name[c] # None /\ data[name[c]] = got'[c]
  BY <1>1 DEF Linking, OwnFile
<1>4. name \in [Name -> Inode \cup {None}] /\ [fd EXCEPT ![c] = None] \in [Command -> Inode \cup {None}]
  BY DEF Linking, FilesType
<1>. QED
  BY <1>1, <1>2, <1>3, <1>4, LinkingRelink DEF Place

LEMMA LinkingCleanup ==
  ASSUME Linking, NEW c \in Command, Cleanup(c)
  PROVE  Linking' /\ \A m \in {"embedded", "tuned"} : Verified(m) => Verified(m)'
<1>1. /\ at[c] = "cleanup" /\ Relink([name EXCEPT ![Temporary(c)] = None], fd, data)
      /\ Goto(c, "done") /\ got' = [got EXCEPT ![c] = <<>>]
  BY DEF Cleanup
<1>2. fd = [fd EXCEPT ![c] = None]
  BY <1>1 DEF Linking, FilesType, OpenFiles
<1>. DEFINE n == [name EXCEPT ![Temporary(c)] = None]
<1>3. /\ n \in [Name -> Inode \cup {None}] /\ fd \in [Command -> Inode \cup {None}]
      /\ \A m \in Name : n[m] \in {name[m], None} /\ (m # Temporary(c) => n[m] = name[m])
      /\ c \in Materializer => n[c] = None
  BY Names DEF Linking, FilesType
<1>4. Relink(n, fd, data)
  BY <1>1
<1>5. "done" \in Place \ {"copy", "rename"}
  BY DEF Place
<1>6. c \in Materializer =>
        /\ "done" \in {"new", "open", "done"} => n[c] = None
        /\ "done" = "check" => n[c] # None /\ data[n[c]] = got'[c]
  BY <1>3
<1>7. /\ got' = got \/ got' = [got EXCEPT ![c] = <<>>]
      /\ "done" \in {"new", "open", "done"} => got' = [got EXCEPT ![c] = <<>>]
  BY <1>1
<1>. HIDE DEF n
<1>. QED
  BY <1>1, <1>2, <1>3, <1>4, <1>5, <1>6, <1>7, LinkingRelink

\* A materialization killed while it has a file: the file stays, under
\* another name.
LEMMA LinkingLitter ==
  ASSUME Linking, NEW c \in Materializer, NEW l \in Litter, name[c] # None, name[l] = None,
         Relink([name EXCEPT ![l] = name[c], ![c] = None], [fd EXCEPT ![c] = None], data),
         Goto(c, "new"), got' = [got EXCEPT ![c] = <<>>]
  PROVE  Linking' /\ \A m \in {"embedded", "tuned"} : Verified(m) => Verified(m)'
<1>. DEFINE n == [name EXCEPT ![l] = name[c], ![c] = None]
            f == [fd EXCEPT ![c] = None]
<1>1. c \in Command /\ c \in Name /\ l \in Name /\ l # c
  BY Names
<1>2. /\ n \in [Name -> Inode \cup {None}] /\ n[l] = name[c] /\ n[c] = None
      /\ \A m \in Name \ {l, c} : n[m] = name[m]
  BY <1>1 DEF Linking, FilesType
<1>3. /\ f \in [Command -> Inode \cup {None}] /\ f[c] = None
      /\ \A d \in Command \ {c} : f[d] = fd[d]
  BY <1>1 DEF Linking, FilesType
<1>4. Relink(n, f, data)
  OBVIOUS
<1>. HIDE DEF n, f
<1>5. /\ name' = n /\ fd' = f /\ data' \in [Inode -> Content]
      /\ \A m \in Name : n[m] # None => data'[n[m]] = data[n[m]]
  BY <1>2, <1>3, <1>4, RelinkKeeps DEF Linking, FilesType
<1>6. /\ at' \in [Command -> Place] /\ at'[c] = "new" /\ \A d \in Command \ {c} : at'[d] = at[d]
  BY <1>1 DEF Linking, FilesType, Goto, Place
<1>7. /\ got' \in [Command -> Content] /\ got'[c] = <<>> /\ \A d \in Command \ {c} : got'[d] = got[d]
  BY <1>1, EmptyContent DEF Linking, FilesType
<1>8. FilesType'
  BY <1>2, <1>3, <1>5, <1>6, <1>7 DEF FilesType
<1>9. NamesDistinct'
  BY <1>1, <1>2, <1>5 DEF Linking, NamesDistinct
<1>10. OpenFiles'
  BY <1>3, <1>5, <1>6, <1>7 DEF Linking, OpenFiles
<1>11. Apart'
  <2>. SUFFICES ASSUME NEW d \in Downloader, NEW m \in Materializer \cup Litter \cup {"tuned"}, f[d] # None
                PROVE  f[d] # n[m]
    BY <1>5 DEF Apart
  <2>1. f[d] = fd[d] /\ m \in Name
    BY <1>3, Names
  <2>2. fd[d] # name[m] /\ fd[d] # name[c]
    BY <2>1 DEF Linking, Apart
  <2>. QED
    BY <2>1, <2>2, <1>2
<1>12. OwnFile'
  <2>. SUFFICES ASSUME NEW m \in Materializer
                PROVE  /\ at'[m] \in {"new", "open", "done"} => name'[m] = None
                       /\ at'[m] = "copy" => fd'[m] = name'[m]
                       /\ at'[m] \in {"copy", "check", "rename"} =>
                            name'[m] # None /\ data'[name'[m]] = got'[m]
                       /\ at'[m] = "rename" => got'[m] = Pinned
    BY DEF OwnFile
  <2>1. CASE m = c
    BY <2>1, <1>2, <1>5, <1>6
  <2>2. CASE m # c
    <3>1. m \in Command /\ m \in Name /\ m # l
      BY Names
    <3>2. /\ at'[m] = at[m] /\ name'[m] = name[m] /\ fd'[m] = fd[m] /\ got'[m] = got[m]
          /\ name[m] # None => data'[name[m]] = data[name[m]]
      BY <3>1, <2>2, <1>2, <1>3, <1>5, <1>6, <1>7
    <3>. QED
      BY <3>1, <3>2 DEF Linking, OwnFile
  <2>. QED
    BY <2>1, <2>2
<1>13. ASSUME NEW m \in {"embedded", "tuned"}, Verified(m) PROVE Verified(m)'
  <2>1. m \in Name \ {l, c}
    BY Names
  <2>. QED
    BY <2>1, <1>13, <1>2, <1>5 DEF Verified
<1>. QED
  BY <1>8, <1>9, <1>10, <1>11, <1>12, <1>13 DEF Linking

LEMMA LinkingRerun ==
  ASSUME Linking, NEW c \in Command, Rerun(c)
  PROVE  Linking' /\ \A m \in {"embedded", "tuned"} : Verified(m) => Verified(m)'
<1>1. Goto(c, "new") /\ got' = [got EXCEPT ![c] = <<>>]
  BY DEF Rerun
<1>2. CASE KilledWithFile(c)
  <2>1. PICK l \in Litter :
          /\ name[l] = None
          /\ Relink([name EXCEPT ![l] = name[c], ![c] = None], [fd EXCEPT ![c] = None], data)
    BY <1>2 DEF Rerun
  <2>. QED
    BY <1>1, <1>2, <2>1, LinkingLitter DEF KilledWithFile
<1>3. CASE ~KilledWithFile(c)
  <2>. DEFINE f == [fd EXCEPT ![c] = None]
  <2>1. Relink(name, f, data)
    BY <1>3 DEF Rerun
  <2>2. /\ name \in [Name -> Inode \cup {None}] /\ f \in [Command -> Inode \cup {None}]
        /\ c \in Materializer => name[c] = None
    BY <1>3 DEF Linking, FilesType, KilledWithFile
  <2>3. "new" \in Place \ {"copy", "rename"} /\ f = [fd EXCEPT ![c] = None]
    BY DEF Place
  <2>4. c \in Materializer =>
          /\ "new" \in {"new", "open", "done"} => name[c] = None
          /\ "new" = "check" => name[c] # None /\ data[name[c]] = got'[c]
    BY <2>2
  <2>5. /\ got' = got \/ got' = [got EXCEPT ![c] = <<>>]
        /\ "new" \in {"new", "open", "done"} => got' = [got EXCEPT ![c] = <<>>]
    BY <1>1
  <2>6. \A m \in Name : name[m] \in {name[m], None} /\ (m # Temporary(c) => name[m] = name[m])
    OBVIOUS
  <2>. HIDE DEF f
  <2>. QED
    BY <1>1, <2>1, <2>2, <2>3, <2>4, <2>5, <2>6, LinkingRelink
<1>. QED
  BY <1>2, <1>3

\* Whose inode a command may not touch.
LEMMA LinkingRename ==
  ASSUME Linking, NEW c \in Command, Rename(c)
  PROVE  /\ Linking' /\ (Verified("tuned") \/ (c \in Materializer /\ at[c] = "rename") => Verified("tuned")')
<1>. DEFINE t == Temporary(c)
            n == [name EXCEPT ![Destination(c)] = name[t], ![t] = None]
<1>1. at[c] = "rename" /\ Goto(c, "cleanup") /\ got' = got
  BY DEF Rename
<1>2. at' \in [Command -> Place] /\ at'[c] = "cleanup" /\ \A d \in Command \ {c} : at'[d] = at[d]
  BY <1>1 DEF Linking, FilesType, Goto, Place
<1>3. CASE name[t] # None /\ Relink(n, fd, data)
  <2>1. /\ n \in [Name -> Inode \cup {None}] /\ n[Destination(c)] = name[t] /\ n[t] = None
        /\ t # Destination(c) /\ \A m \in Name \ {t, Destination(c)} : n[m] = name[m]
    BY Names DEF Linking, FilesType
  <2>. HIDE DEF n
  <2>2. /\ name' = n /\ fd' = fd /\ data' \in [Inode -> Content]
        /\ \A m \in Name : n[m] # None => data'[n[m]] = data[n[m]]
    BY <1>3, <2>1, RelinkKeeps DEF Linking, FilesType
  <2>3. FilesType'
    BY <1>1, <1>2, <2>1, <2>2 DEF Linking, FilesType
  <2>4. NamesDistinct'
    BY <2>1, <2>2, Names DEF Linking, NamesDistinct
  <2>5. OpenFiles'
    BY <1>1, <1>2, <2>2 DEF Linking, OpenFiles
  <2>6. Apart'
    <3>. SUFFICES ASSUME NEW d \in Downloader, NEW m \in Materializer \cup Litter \cup {"tuned"}, fd[d] # None
                  PROVE  fd[d] # n[m]
      BY <2>2 DEF Apart
    <3>1. fd[d] # name[m]
      BY DEF Linking, Apart
    <3>2. CASE c \in Downloader
      BY <3>1, <3>2, <2>1, Names
    <3>3. CASE c \in Materializer
      <4>1. fd[d] # name[c]
        BY <3>3 DEF Linking, Apart
      <4>. QED
        BY <4>1, <3>1, <3>3, <2>1, Names
    <3>. QED
      BY <3>2, <3>3, Names
  <2>7. OwnFile'
    <3>. SUFFICES ASSUME NEW m \in Materializer
                  PROVE  /\ at'[m] \in {"new", "open", "done"} => name'[m] = None
                         /\ at'[m] = "copy" => fd'[m] = name'[m]
                         /\ at'[m] \in {"copy", "check", "rename"} =>
                              name'[m] # None /\ data'[name'[m]] = got'[m]
                         /\ at'[m] = "rename" => got'[m] = Pinned
      BY DEF OwnFile
    <3>1. CASE m = c
      BY <3>1, <1>2
    <3>2. CASE m # c
      <4>1. m \in Command /\ m \in Name /\ m # t /\ m # Destination(c)
        BY <3>2, Names
      <4>2. /\ at'[m] = at[m] /\ name'[m] = name[m] /\ fd'[m] = fd[m] /\ got'[m] = got[m]
            /\ name[m] # None => data'[name[m]] = data[name[m]]
        BY <4>1, <3>2, <1>1, <1>2, <2>1, <2>2
      <4>. QED
        BY <4>1, <4>2 DEF Linking, OwnFile
    <3>. QED
      BY <3>1, <3>2
  <2>8. ASSUME c \in Materializer PROVE Verified("tuned")'
    BY <2>8, <1>1, <2>1, <2>2, Names DEF Linking, OwnFile, Verified
  <2>9. ASSUME c \notin Materializer, Verified("tuned") PROVE Verified("tuned")'
    BY <2>9, <2>1, <2>2, Names DEF Verified
  <2>. QED
    BY <2>3, <2>4, <2>5, <2>6, <2>7, <2>8, <2>9 DEF Linking
<1>4. CASE name[t] = None /\ UNCHANGED <<fileVars, fd>>
  <2>1. c \notin Materializer
    BY <1>1, <1>4, Names DEF Linking, OwnFile
  <2>2. "cleanup" \in Place \ {"copy"} /\ UNCHANGED <<fileVars, fd, got>>
    BY <1>1, <1>4 DEF Place
  <2>3. Linking' /\ \A m \in {"embedded", "tuned"} : Verified(m) => Verified(m)'
    BY <1>1, <2>1, <2>2, LinkingGoto
  <2>. QED
    BY <2>1, <2>3
<1>. QED
  BY <1>3, <1>4 DEF Rename

\* A temporary file is opened: nobody else has what it is written to under a
\* name of its own.
LEMMA LinkingOpen ==
  ASSUME Linking, NEW c \in Command, Open(c)
  PROVE  Linking' /\ \A m \in {"embedded", "tuned"} : Verified(m) => Verified(m)'
<1>. DEFINE t == Temporary(c)
            i == IF name[t] # None THEN name[t] ELSE Fresh
            n == [name EXCEPT ![t] = i]
            f == [fd EXCEPT ![c] = i]
            d == [data EXCEPT ![i] = <<>>]
<1>1. /\ at[c] = "open" /\ got' = got
      /\ \/ Goto(c, "cleanup") /\ UNCHANGED <<fileVars, fd>>
         \/ Goto(c, "copy") /\ Relink(n, f, d)
  BY DEF Open
<1>2. CASE Goto(c, "cleanup") /\ UNCHANGED <<fileVars, fd>>
  BY <1>1, <1>2, LinkingGoto DEF Place
<1>3. CASE Goto(c, "copy") /\ Relink(n, f, d)
  <2>1. i \in Inode /\ i # None /\ (name[t] = None => i \notin Linked(name, fd))
    BY <1>1, Names, Inodes, FreshExists DEF Linking, FilesType
  <2>. HIDE DEF i
  <2>2. \A m \in Name \ {t} : name[m] # i
    <3>1. CASE name[t] # None
      BY <3>1, <2>1, Names DEF Linking, NamesDistinct, i
    <3>2. CASE name[t] = None
      <4>1. \A m \in Name : name[m] \in Linked(name, fd)
        BY DEF Linking, FilesType, Linked, Range
      <4>. QED
        BY <4>1, <3>2, <2>1
    <3>. QED
      BY <3>1, <3>2
  <2>3. /\ n \in [Name -> Inode \cup {None}] /\ n[t] = i /\ \A m \in Name \ {t} : n[m] = name[m]
        /\ f \in [Command -> Inode \cup {None}] /\ f[c] = i /\ \A e \in Command \ {c} : f[e] = fd[e]
        /\ d \in [Inode -> Content] /\ d[i] = <<>> /\ \A j \in Inode \ {i} : d[j] = data[j]
    BY <2>1, Names, EmptyContent DEF Linking, FilesType
  <2>. HIDE DEF n, f, d
  <2>4. /\ name' = n /\ fd' = f /\ data' \in [Inode -> Content]
        /\ \A m \in Name : n[m] # None => data'[n[m]] = d[n[m]]
    BY <1>3, <2>3, RelinkKeeps
  <2>5. /\ data'[i] = <<>>
        /\ \A m \in Name \ {t} : name'[m] = name[m] /\ (name[m] # None => data'[name[m]] = data[name[m]])
    BY <2>1, <2>2, <2>3, <2>4, Names DEF Linking, FilesType
  <2>6. at' \in [Command -> Place] /\ at'[c] = "copy" /\ \A e \in Command \ {c} : at'[e] = at[e]
    BY <1>3 DEF Linking, FilesType, Goto, Place
  <2>7. FilesType'
    BY <1>1, <2>3, <2>4, <2>6 DEF Linking, FilesType
  <2>8. NamesDistinct'
    BY <2>2, <2>3, <2>4 DEF Linking, NamesDistinct
  <2>9. OpenFiles'
    BY <1>1, <2>1, <2>3, <2>4, <2>6 DEF Linking, OpenFiles
  <2>10. Apart'
    <3>. SUFFICES ASSUME NEW e \in Downloader, NEW m \in Materializer \cup Litter \cup {"tuned"}, f[e] # None
                  PROVE  f[e] # n[m]
      BY <2>4 DEF Apart
    <3>1. m \in Name /\ e \in Command
      BY Names
    <3>2. CASE m # t /\ e = c
      BY <3>1, <3>2, <2>2, <2>3
    <3>3. CASE m # t /\ e # c
      BY <3>1, <3>3, <2>3 DEF Linking, Apart
    <3>4. CASE m = t
      <4>1. c \in Materializer /\ m = c /\ e # c
        BY <3>4, Names
      <4>2. name[t] = None
        BY <4>1, <3>4, <1>1 DEF Linking, OwnFile
      <4>3. fd[e] \in Linked(name, fd)
        BY <3>1 DEF Linking, FilesType, Linked, Range
      <4>. QED
        BY <4>1, <4>2, <4>3, <3>1, <3>4, <2>1, <2>3
    <3>. QED
      BY <3>2, <3>3, <3>4
  <2>11. OwnFile'
    <3>. SUFFICES ASSUME NEW m \in Materializer
                  PROVE  /\ at'[m] \in {"new", "open", "done"} => name'[m] = None
                         /\ at'[m] = "copy" => fd'[m] = name'[m]
                         /\ at'[m] \in {"copy", "check", "rename"} =>
                              name'[m] # None /\ data'[name'[m]] = got'[m]
                         /\ at'[m] = "rename" => got'[m] = Pinned
      BY DEF OwnFile
    <3>1. CASE m = c
      <4>1. t = c /\ got[c] = <<>>
        BY <3>1, <1>1, Names DEF Linking, OpenFiles
      <4>. QED
        BY <3>1, <4>1, <1>1, <2>1, <2>3, <2>4, <2>5, <2>6
    <3>2. CASE m # c
      <4>1. m \in Command /\ m \in Name /\ m # t
        BY <3>2, Names
      <4>2. /\ at'[m] = at[m] /\ name'[m] = name[m] /\ fd'[m] = fd[m] /\ got'[m] = got[m]
            /\ name[m] # None => data'[name[m]] = data[name[m]]
        BY <4>1, <3>2, <1>1, <2>3, <2>4, <2>5, <2>6
      <4>. QED
        BY <4>1, <4>2 DEF Linking, OwnFile
    <3>. QED
      BY <3>1, <3>2
  <2>12. \A m \in {"embedded", "tuned"} : Verified(m) => Verified(m)'
    BY <2>5, Names DEF Verified
  <2>. QED
    BY <2>7, <2>8, <2>9, <2>10, <2>11, <2>12 DEF Linking
<1>. QED
  BY <1>1, <1>2, <1>3

LEMMA LinkingCopy ==
  ASSUME Linking, NEW c \in Command, Copy(c)
  PROVE  /\ Linking' /\ (Verified("tuned") => Verified("tuned")')
         /\ c \in Materializer \/ fd[c] # name["embedded"] => (Verified("embedded") => Verified("embedded")')
<1>1. /\ at[c] = "copy" /\ Len(got[c]) < Size /\ name' = name /\ fd' = fd /\ at' = at
      /\ fd[c] \in Inode /\ data[fd[c]] \in Content /\ got[c] \in Content /\ Len(got[c]) \in 0..Size - 1
  <2>1. at[c] = "copy" /\ Len(got[c]) < Size /\ name' = name /\ fd' = fd /\ at' = at
    BY DEF Copy
  <2>2. fd[c] \in Inode /\ data[fd[c]] \in Content /\ got[c] \in Content
    BY <2>1 DEF Linking, FilesType, OpenFiles
  <2>3. Len(got[c]) \in 0..Size
    BY <2>2, ContentLength
  <2>4. Len(got[c]) \in 0..Size - 1
    BY <2>1, <2>3, SizeAssumption
  <2>. QED
    BY <2>1, <2>2, <2>4
<1>2. PICK chunk \in {"good", "bad"} :
        /\ data' = [data EXCEPT ![fd[c]] = WriteAt(data[fd[c]], Len(got[c]), chunk)]
        /\ got' = [got EXCEPT ![c] = Append(got[c], chunk)]
  BY DEF Copy
<1>3. /\ data' \in [Inode -> Content] /\ data'[fd[c]] = WriteAt(data[fd[c]], Len(got[c]), chunk)
      /\ \A i \in Inode \ {fd[c]} : data'[i] = data[i]
  BY <1>1, <1>2, WriteType DEF Linking, FilesType
<1>4. Append(got[c], chunk) \in Content /\ WriteAt(got[c], Len(got[c]), chunk) = Append(got[c], chunk)
  BY <1>1, WriteAtEnd
<1>5. /\ got' \in [Command -> Content] /\ got'[c] = Append(got[c], chunk)
      /\ \A e \in Command \ {c} : got'[e] = got[e]
  BY <1>1, <1>2, <1>4 DEF Linking, FilesType
<1>6. FilesType' /\ NamesDistinct' /\ Apart'
  BY <1>1, <1>3, <1>5 DEF Linking, FilesType, NamesDistinct, Apart
<1>7. OpenFiles'
  BY <1>1, <1>5 DEF Linking, OpenFiles
<1>8. \A m \in Materializer \cup Litter \cup {"tuned"} : (m \in Materializer => m # c) => fd[c] # name[m]
  <2>. SUFFICES ASSUME NEW m \in Materializer \cup Litter \cup {"tuned"}, m \in Materializer => m # c
                PROVE  fd[c] # name[m]
    OBVIOUS
  <2>1. CASE c \in Downloader
    BY <2>1, <1>1, Inodes DEF Linking, Apart
  <2>2. CASE c \in Materializer
    <3>1. fd[c] = name[c] /\ name[c] # None /\ c \in Name /\ m \in Name /\ m # c
      BY <2>2, <1>1, Names DEF Linking, OwnFile
    <3>. QED
      BY <3>1 DEF Linking, NamesDistinct
  <2>. QED
    BY <2>1, <2>2, Names
<1>9. OwnFile'
  <2>. SUFFICES ASSUME NEW m \in Materializer
                PROVE  /\ at[m] \in {"new", "open", "done"} => name[m] = None
                       /\ at[m] = "copy" => fd[m] = name[m]
                       /\ at[m] \in {"copy", "check", "rename"} => name[m] # None /\ data'[name[m]] = got'[m]
                       /\ at[m] = "rename" => got'[m] = Pinned
    BY <1>1 DEF OwnFile
  <2>1. CASE m = c
    BY <2>1, <1>1, <1>3, <1>4, <1>5 DEF Linking, OwnFile
  <2>2. CASE m # c
    <3>1. got'[m] = got[m] /\ (name[m] # None => data'[name[m]] = data[name[m]])
      BY <2>2, <1>3, <1>5, <1>8, Names DEF Linking, FilesType
    <3>. QED
      BY <3>1 DEF Linking, OwnFile
  <2>. QED
    BY <2>1, <2>2
<1>10. Verified("tuned") => Verified("tuned")'
  <2>1. fd[c] # name["tuned"]
    BY <1>8, Names
  <2>2. name["tuned"] # None => data'[name["tuned"]] = data[name["tuned"]]
    BY <2>1, <1>3, <1>8, Names DEF Linking, FilesType
  <2>. QED
    BY <2>2, <1>1 DEF Verified
<1>11. ASSUME c \in Materializer \/ fd[c] # name["embedded"], Verified("embedded")
       PROVE  Verified("embedded")'
  <2>1. fd[c] # name["embedded"]
    BY <1>11, <1>1, Names DEF Linking, OwnFile, NamesDistinct, Verified
  <2>2. name["embedded"] # None => data'[name["embedded"]] = data[name["embedded"]]
    BY <2>1, <1>3, Names DEF Linking, FilesType
  <2>. QED
    BY <2>2, <1>11, <1>1 DEF Verified
<1>. QED
  BY <1>6, <1>7, <1>9, <1>10, <1>11 DEF Linking

\* The names a step leaves alone.
LEMMA LinkingName ==
  ASSUME Linking, NEW c \in Command, Progress(c) \/ Rerun(c)
  PROVE  \A n \in Name :
           n # Temporary(c) =>
             \/ name'[n] = name[n]
             \/ n = Destination(c) /\ Rename(c)
             \/ n \in Litter
<1>1. CASE BeginDownload(c) \/ BeginMaterialize(c) \/ Copy(c) \/ Check(c) \/ CopyEnds(c)
  BY <1>1 DEF BeginDownload, BeginMaterialize, Copy, Check, CopyEnds, Relink, fileVars
<1>2. CASE Open(c)
  BY <1>2 DEF Open, Relink, fileVars, Linking, FilesType
<1>3. CASE Rename(c)
  BY <1>3 DEF Rename, Relink, fileVars, Linking, FilesType
<1>4. CASE Cleanup(c)
  BY <1>4 DEF Cleanup, Relink, Linking, FilesType
<1>5. CASE Rerun(c)
  <2>1. CASE KilledWithFile(c)
    <3>1. PICK l \in Litter : name' = [name EXCEPT ![l] = name[c], ![c] = None]
      BY <1>5, <2>1 DEF Rerun, Relink
    <3>2. c \in Name /\ l \in Name /\ Temporary(c) = c
      BY <2>1, Names DEF KilledWithFile
    <3>. QED
      BY <3>1, <3>2 DEF Linking, FilesType
  <2>2. CASE ~KilledWithFile(c)
    BY <1>5, <2>2 DEF Rerun, Relink
  <2>. QED
    BY <2>1, <2>2
<1>. QED
  BY <1>1, <1>2, <1>3, <1>4, <1>5 DEF Progress

LEMMA LinkingStep ==
  ASSUME Linking, NEW c \in Command, Progress(c) \/ Rerun(c)
  PROVE  /\ Linking'
         /\ Verified("tuned") \/ (c \in Materializer /\ Rename(c)) => Verified("tuned")'
         /\ \/ Copy(c) /\ c \in Downloader
            \/ Rename(c)
            \/ Verified("embedded") => Verified("embedded")'
<1>1. CASE BeginDownload(c) \/ BeginMaterialize(c)
  BY <1>1, LinkingBegin DEF BeginDownload, BeginMaterialize, Rename
<1>2. CASE Open(c)
  BY <1>2, LinkingOpen DEF Open, Rename
<1>3. CASE Copy(c)
  BY <1>3, LinkingCopy, Names DEF Copy, Rename
<1>4. CASE CopyEnds(c)
  BY <1>4, LinkingCopyEnds DEF CopyEnds, Rename
<1>5. CASE Check(c)
  BY <1>5, LinkingCheck DEF Check, Rename
<1>6. CASE Rename(c)
  BY <1>6, LinkingRename DEF Rename
<1>7. CASE Cleanup(c)
  BY <1>7, LinkingCleanup DEF Cleanup, Rename
<1>8. CASE Rerun(c)
  <2>1. /\ Linking' /\ (Verified("tuned") => Verified("tuned")')
        /\ (Verified("embedded") => Verified("embedded")')
    BY <1>8, LinkingRerun
  <2>2. ~(c \in Materializer /\ Rename(c))
    <3>1. SUFFICES ASSUME Rename(c) PROVE FALSE
      OBVIOUS
    <3>2. at'[c] = "cleanup" /\ at'[c] = "new"
      BY <1>8, <3>1 DEF Rename, Rerun, Goto, Linking, FilesType
    <3>. QED
      BY <3>2
  <2>. QED
    BY <2>1, <2>2
<1>. QED
  BY <1>1, <1>2, <1>3, <1>4, <1>5, <1>6, <1>7, <1>8 DEF Progress

LEMMA GeneralStep ==
  ASSUME General, Install \/ UNCHANGED installVars
  PROVE  General'
<1>1. ASSUME NEW c \in Command, Progress(c) \/ Rerun(c) PROVE General'
  <2>1. Linking' /\ (Verified("tuned") \/ (c \in Materializer /\ Rename(c)) => Verified("tuned")')
    BY <1>1, LinkingStep DEF General
  <2>2. UNCHANGED serverVars
    BY <1>1 DEF Progress, BeginDownload, BeginMaterialize, Open, Copy, CopyEnds, Check, Rename, Cleanup, Rerun
  <2>3. /\ said' \in SUBSET {"embedded", "tuned"}
        /\ "tuned" \in said' => "tuned" \in said \/ (c \in Materializer /\ Rename(c))
    <3>1. said' = said \/ ((BeginDownload(c) \/ Rename(c)) /\ said' = said \cup {Destination(c)})
      BY <1>1 DEF Progress, BeginDownload, BeginMaterialize, Open, Copy, CopyEnds, Check, Rename,
                  Cleanup, Rerun, Report
    <3>2. Destination(c) \in {"embedded", "tuned"} /\ (c \notin Materializer => Destination(c) = "embedded")
      BY Names
    <3>3. BeginDownload(c) => c \notin Materializer
      BY Names DEF BeginDownload
    <3>. QED
      BY <3>1, <3>2, <3>3 DEF General
  <2>4. Installed("tuned")'
    <3>1. name'["tuned"] # None \/ "tuned" \in said' =>
            Verified("tuned") \/ (c \in Materializer /\ Rename(c))
      <4>1. \/ name'["tuned"] = name["tuned"]
            \/ c \in Materializer /\ Rename(c)
        BY <1>1, LinkingName, Names DEF General
      <4>. QED
        BY <4>1, <2>3 DEF General, Installed
    <3>. QED
      BY <3>1, <2>1 DEF Installed
  <2>. QED
    BY <2>1, <2>2, <2>3, <2>4 DEF General, serverVars
<1>2. CASE Verify \/ Load \/ Stop
  <2>1. /\ UNCHANGED <<fileVars, commandVars>> /\ server' \in BOOLEAN
        /\ loaded' \in SUBSET Content
    <3>1. ASSUME Load PROVE loaded' \in SUBSET Content
      BY <3>1, EmptyContent, Names DEF Load, General, Linking, FilesType
    <3>2. UNCHANGED <<fileVars, commandVars>> /\ server' \in BOOLEAN /\ (~Load => loaded' = loaded)
      BY <1>2 DEF Verify, Load, Stop, General
    <3>. QED
      BY <3>1, <3>2 DEF General
  <2>. QED
    BY <2>1 DEF General, Linking, FilesType, NamesDistinct, OpenFiles, OwnFile, Apart, Installed,
                Verified, fileVars, commandVars
<1>3. CASE UNCHANGED installVars
  BY <1>3 DEF General, Linking, FilesType, NamesDistinct, OpenFiles, OwnFile, Apart, Installed,
              Verified, installVars, serverVars, fileVars, commandVars
<1>. QED
  BY <1>1, <1>2, <1>3 DEF Install

-----------------------------------------------------------------------------
(* With one download at a time *)

\* One run of download_model.py at a time: the build of the image, or the
\* operator, starts it.
OneDownloader == \A c, d \in Downloader : c = d

Single == PartFile /\ (server => Verified("embedded")) /\ Installed("embedded") /\ LoadsPinned

\* What the files and the downloads see of a step of a materialization.
LEMMA MaterializerApart ==
  ASSUME Linking, NEW c \in Materializer, Progress(c) \/ Rerun(c)
  PROVE  /\ \A n \in {"part", "embedded"} :
              name'[n] = name[n] /\ (name[n] # None => data'[name[n]] = data[name[n]])
         /\ \A d \in Downloader : at'[d] = at[d] /\ fd'[d] = fd[d] /\ got'[d] = got[d]
         /\ "embedded" \in said' => "embedded" \in said
         /\ UNCHANGED serverVars
<1>1. \A n \in {"part", "embedded"} : name'[n] = name[n]
  BY LinkingName, Names
<1>2. UNCHANGED serverVars
  BY DEF Progress, BeginDownload, BeginMaterialize, Open, Copy, CopyEnds, Check, Rename, Cleanup, Rerun
<1>3. "embedded" \in said' => "embedded" \in said
  <2>1. said' = said \/ said' = said \cup {Destination(c)}
    BY DEF Progress, BeginDownload, BeginMaterialize, Open, Copy, CopyEnds, Check, Rename, Cleanup,
           Rerun, Report
  <2>. QED
    BY <2>1, Names
<1>4. \A d \in Downloader : at'[d] = at[d] /\ fd'[d] = fd[d] /\ got'[d] = got[d]
  <2>1. /\ at' = at \/ \E place \in Place : at' = [at EXCEPT ![c] = place]
        /\ fd' = fd \/ \E i : fd' = [fd EXCEPT ![c] = i]
        /\ got' = got \/ \E g : got' = [got EXCEPT ![c] = g]
    <3>1. at' = at \/ \E place \in Place : at' = [at EXCEPT ![c] = place]
      BY DEF Progress, BeginDownload, BeginMaterialize, Open, Copy, CopyEnds, Check, Rename, Cleanup,
             Rerun, Goto, Place
    <3>2. fd' = fd \/ \E i : fd' = [fd EXCEPT ![c] = i]
      BY DEF Progress, BeginDownload, BeginMaterialize, Open, Copy, CopyEnds, Check, Rename, Cleanup,
             Rerun, Relink
    <3>3. got' = got \/ \E g : got' = [got EXCEPT ![c] = g]
      BY DEF Progress, BeginDownload, BeginMaterialize, Open, Copy, CopyEnds, Check, Rename, Cleanup,
             Rerun
    <3>. QED
      BY <3>1, <3>2, <3>3
  <2>. QED
    BY <2>1, Names DEF Linking, FilesType
<1>5. \A n \in {"part", "embedded"} : name[n] # None => data'[name[n]] = data[name[n]]
  <2>. SUFFICES ASSUME NEW n \in {"part", "embedded"}, name[n] # None
                PROVE  data'[name[n]] = data[name[n]]
    OBVIOUS
  <2>0. n \in Name /\ n # c /\ name[n] \in Inode /\ Temporary(c) = c /\ c \in Command /\ c \in Name
    BY Names DEF Linking, FilesType
  <2>1. CASE UNCHANGED fileVars
    BY <2>1 DEF fileVars
  <2>2. CASE \E m, f : Relink(m, f, data) /\ m[n] = name[n] /\ n \in DOMAIN m
    BY <2>2, <2>0 DEF Relink, Linked, Range
  <2>3. CASE Copy(c)
    <3>1. fd[c] # name[n] /\ fd[c] \in Inode
      BY <2>3, <2>0 DEF Copy, Linking, OwnFile, NamesDistinct, FilesType
    <3>. QED
      BY <2>3, <3>1 DEF Copy, Linking, FilesType
  <2>4. CASE Open(c) /\ ~UNCHANGED fileVars
    <3>. DEFINE i == IF name[c] # None THEN name[c] ELSE Fresh
                m == [name EXCEPT ![c] = i]
                f == [fd EXCEPT ![c] = i]
                d == [data EXCEPT ![i] = <<>>]
    <3>1. Relink(m, f, d)
      BY <2>4, <2>0 DEF Open
    <3>2. i # name[n]
      <4>1. CASE name[c] # None
        BY <4>1, <2>0 DEF Linking, NamesDistinct
      <4>2. CASE name[c] = None
        <5>1. i \notin Linked(name, fd)
          BY <4>2, <2>4, <2>0, FreshExists DEF Linking, Open
        <5>2. name[n] \in Linked(name, fd)
          BY <2>0 DEF Linking, FilesType, Linked, Range
        <5>. QED
          BY <5>1, <5>2
      <4>. QED
        BY <4>1, <4>2
    <3>3. d[name[n]] = data[name[n]] /\ m[n] = name[n] /\ n \in DOMAIN m
      BY <3>2, <2>0 DEF Linking, FilesType
    <3>. HIDE DEF i, m, f, d
    <3>4. name[n] \in Linked(m, f)
      BY <3>3 DEF Linked, Range
    <3>. QED
      BY <3>1, <3>3, <3>4, <2>0 DEF Relink
  <2>5. CASE CopyEnds(c) \/ Cleanup(c) \/ Rename(c) \/ Rerun(c)
    <3>1. UNCHANGED fileVars \/ \E m, f : Relink(m, f, data)
      BY <2>5 DEF CopyEnds, Cleanup, Rename, Rerun
    <3>2. ASSUME NEW m, NEW f, Relink(m, f, data)
          PROVE  m[n] = name[n] /\ n \in DOMAIN m
      <4>1. m = name'
        BY <3>2 DEF Relink
      <4>2. DOMAIN name' = Name
        BY LinkingStep, <2>0 DEF Linking, FilesType
      <4>. QED
        BY <4>1, <4>2, <1>1, <2>0
    <3>. QED
      BY <3>1, <3>2, <2>1, <2>2
  <2>6. CASE BeginDownload(c) \/ BeginMaterialize(c) \/ Check(c)
    BY <2>6, <2>1 DEF BeginDownload, BeginMaterialize, Check
  <2>. QED
    BY <2>1, <2>3, <2>4, <2>5, <2>6 DEF Progress
<1>. QED
  BY <1>1, <1>2, <1>3, <1>4, <1>5

LEMMA SingleMaterializer ==
  ASSUME General, Single, NEW c \in Materializer, Progress(c) \/ Rerun(c)
  PROVE  Single'
<1>1. /\ \A n \in {"part", "embedded"} :
           name'[n] = name[n] /\ (name[n] # None => data'[name[n]] = data[name[n]])
      /\ \A d \in Downloader : at'[d] = at[d] /\ fd'[d] = fd[d] /\ got'[d] = got[d]
      /\ "embedded" \in said' => "embedded" \in said
      /\ UNCHANGED serverVars
  BY MaterializerApart DEF General
<1>2. \A n \in {"part", "embedded"} : Verified(n) => Verified(n)'
  BY <1>1 DEF Verified
<1>3. PartFile'
  <2>1. name'["part"] # None => name'["embedded"] = None
    BY <1>1 DEF Single, PartFile
  <2>2. ASSUME NEW d \in Downloader
        PROVE  /\ at'[d] = "copy" => fd'[d] = name'["part"] /\ data'[fd'[d]] = got'[d]
               /\ at'[d] = "rename" => Verified("part")'
               /\ at'[d] \in {"open", "copy", "check", "rename"} => name'["embedded"] = None
               /\ at'[d] = "done" => name'["part"] = None
    <3>1. at[d] = "copy" => fd[d] = name["part"] /\ name["part"] # None
      BY Names DEF General, Linking, OpenFiles, Single, PartFile
    <3>. QED
      BY <1>1, <1>2, <3>1 DEF Single, PartFile
  <2>. QED
    BY <2>1, <2>2 DEF PartFile
<1>4. Installed("embedded")'
  BY <1>1, <1>2 DEF Single, Installed
<1>. QED
  BY <1>1, <1>2, <1>3, <1>4 DEF Single, LoadsPinned, serverVars

LEMMA SingleDownloader ==
  ASSUME General, Single, OneDownloader, NEW c \in Downloader, Progress(c) \/ Rerun(c)
  PROVE  Single'
<1>0. /\ c \in Command /\ c \notin Materializer /\ Temporary(c) = "part" /\ Destination(c) = "embedded"
      /\ "part" \in Name /\ "embedded" \in Name /\ \A d \in Downloader : d = c
  BY Names DEF OneDownloader
<1>1. UNCHANGED serverVars
  BY DEF Progress, BeginDownload, BeginMaterialize, Open, Copy, CopyEnds, Check, Rename, Cleanup, Rerun
<1>. DEFINE Row ==
              /\ at[c] = "copy" => fd[c] = name["part"] /\ data[fd[c]] = got[c]
              /\ at[c] = "rename" => Verified("part")
              /\ at[c] \in {"open", "copy", "check", "rename"} => name["embedded"] = None
              /\ at[c] = "done" => name["part"] = None
<1>2. /\ Row /\ (name["part"] # None => name["embedded"] = None)
      /\ (server => Verified("embedded")) /\ (name["embedded"] # None \/ "embedded" \in said => Verified("embedded"))
      /\ loaded \subseteq {Pinned} /\ Linking
      /\ DOMAIN at = Command /\ DOMAIN fd = Command /\ DOMAIN got = Command /\ DOMAIN name = Name
      /\ data \in [Inode -> Content] /\ Linking'
  BY LinkingStep, <1>0 DEF Single, PartFile, Installed, LoadsPinned, General, Linking, FilesType
<1>3. SUFFICES /\ Row' /\ (name'["part"] # None => name'["embedded"] = None)
               /\ Verified("embedded") => Verified("embedded")'
               /\ name'["embedded"] # None \/ "embedded" \in said' => Verified("embedded")'
  <2>1. PartFile'
    BY <1>3, <1>0 DEF PartFile
  <2>2. (server => Verified("embedded"))' /\ Installed("embedded")' /\ LoadsPinned'
    BY <1>3, <1>2, <1>1 DEF Installed, LoadsPinned, serverVars
  <2>. QED
    BY <2>1, <2>2 DEF Single
<1>. HIDE DEF Row
<1>4. CASE BeginDownload(c)
  <2>1. /\ at' = [at EXCEPT ![c] = IF Verified("embedded") THEN "done" ELSE "open"]
        /\ (~Verified("embedded") => said' = said)
        /\ name' = name /\ data' = data /\ fd' = fd /\ got' = got
    BY <1>4 DEF BeginDownload, Goto, fileVars
  <2>2. at'[c] = IF Verified("embedded") THEN "done" ELSE "open"
    BY <2>1, <1>0, <1>2
  <2>3. /\ Verified("embedded")' <=> Verified("embedded")
        /\ Verified("part")' <=> Verified("part")
    BY <2>1 DEF Verified
  <2>4. Verified("embedded") => name["part"] = None
    BY <1>2 DEF Verified
  <2>. QED
    BY <1>2, <2>1, <2>2, <2>3, <2>4 DEF Row
<1>5. CASE Open(c)
  <2>1. at[c] = "open" /\ got' = got /\ said' = said /\ name["embedded"] = None /\ got[c] = <<>>
    BY <1>5, <1>0, <1>2 DEF Open, Row, Linking, OpenFiles
  <2>2. CASE Goto(c, "cleanup") /\ UNCHANGED <<fileVars, fd>>
    <3>1. at'[c] = "cleanup" /\ name' = name /\ data' = data
      BY <2>2, <1>0, <1>2 DEF Goto, fileVars
    <3>. QED
      BY <3>1, <2>1, <1>2 DEF Row, Verified
  <2>. DEFINE i == IF name["part"] # None THEN name["part"] ELSE Fresh
              n == [name EXCEPT !["part"] = i]
              f == [fd EXCEPT ![c] = i]
              d == [data EXCEPT ![i] = <<>>]
  <2>3. CASE Goto(c, "copy") /\ Relink(n, f, d)
    <3>1. Relink(n, f, d) /\ at'[c] = "copy"
      BY <2>3, <1>0, <1>2 DEF Goto
    <3>2. i \in Inode /\ i # None
      BY <2>1, <1>0, <1>2, FreshExists, Inodes DEF Linking, FilesType
    <3>. HIDE DEF i
    <3>3. /\ n["part"] = i /\ n["embedded"] = None /\ f[c] = i /\ d[i] = <<>>
          /\ i \in Linked(n, f)
      BY <3>2, <1>0, <1>2, <2>1 DEF Linked, Range
    <3>. HIDE DEF n, f, d
    <3>4. /\ name'["part"] = i /\ name'["embedded"] = None /\ fd'[c] = i
          /\ data'[i] = <<>>
      BY <3>1, <3>2, <3>3 DEF Relink
    <3>5. "embedded" \notin said
      BY <1>2, <2>1 DEF Verified
    <3>. QED
      BY <3>1, <3>4, <3>5, <1>2, <2>1 DEF Row, Verified
  <2>. QED
    BY <2>2, <2>3, <1>0, <1>5 DEF Open
<1>6. CASE Copy(c)
  <2>1. /\ at[c] = "copy" /\ name["embedded"] = None /\ "embedded" \notin said
        /\ fd[c] = name["part"] /\ data[fd[c]] = got[c] /\ fd[c] # None
        /\ name' = name /\ fd' = fd /\ at' = at /\ said' = said
    BY <1>6, <1>0, <1>2 DEF Copy, Row, Verified, Linking, OpenFiles
  <2>2. PICK chunk \in {"good", "bad"} :
          /\ data' = [data EXCEPT ![fd[c]] = WriteAt(data[fd[c]], Len(got[c]), chunk)]
          /\ got' = [got EXCEPT ![c] = Append(got[c], chunk)]
    BY <1>6 DEF Copy
  <2>3. WriteAt(got[c], Len(got[c]), chunk) = Append(got[c], chunk)
    <3>1. got[c] \in Content /\ Len(got[c]) < Size
      BY <1>0, <1>2, <1>6 DEF Copy, Linking, FilesType
    <3>. QED
      BY <3>1, WriteAtEnd
  <2>4. data'[fd[c]] = Append(got[c], chunk) /\ got'[c] = Append(got[c], chunk)
    BY <2>1, <2>2, <2>3, <1>0, <1>2 DEF Linking, FilesType
  <2>5. name'["embedded"] = None /\ "embedded" \notin said' /\ ~Verified("embedded")
    BY <2>1 DEF Verified
  <2>6. at'[c] = "copy" /\ fd'[c] = name'["part"] /\ data'[fd'[c]] = got'[c]
    BY <2>1, <2>4
  <2>. QED
    BY <2>5, <2>6 DEF Row
<1>7. CASE CopyEnds(c)
  <2>1. /\ at[c] = "copy" /\ name' = name /\ said' = said
        /\ at'[c] \in {"check", "cleanup"} /\ name["embedded"] = None /\ "embedded" \notin said
    BY <1>7, <1>0, <1>2 DEF CopyEnds, Goto, Relink, Row, Verified
  <2>. QED
    BY <2>1, <1>2 DEF Row, Verified
<1>8. CASE Check(c)
  <2>1. /\ at[c] = "check" /\ name' = name /\ said' = said /\ data' = data
        /\ at'[c] = (IF Matches(c) THEN "rename" ELSE "cleanup") /\ name["embedded"] = None
        /\ Matches(c) <=> Verified("part")
    BY <1>8, <1>0, <1>2 DEF Check, Goto, Row, fileVars, Matches
  <2>2. /\ Verified("embedded")' <=> Verified("embedded")
        /\ Verified("part")' <=> Verified("part")
    BY <2>1 DEF Verified
  <2>. QED
    BY <2>1, <2>2, <1>2 DEF Row
<1>9. CASE Rename(c)
  <2>. DEFINE n == [name EXCEPT !["embedded"] = name["part"], !["part"] = None]
  <2>1. /\ at[c] = "rename" /\ Verified("part") /\ name["part"] # None /\ at'[c] = "cleanup"
        /\ Relink(n, fd, data)
    BY <1>9, <1>0, <1>2 DEF Rename, Row, Goto, Verified
  <2>2. n["embedded"] = name["part"] /\ n["part"] = None /\ name["part"] \in Linked(n, fd)
    BY <1>0, <1>2 DEF Linked, Range
  <2>3. /\ name'["embedded"] = name["part"] /\ name'["part"] = None
        /\ data'[name["part"]] = data[name["part"]]
    <3>1. name["part"] \in Inode
      BY <2>1, <1>0, <1>2 DEF Linking, FilesType
    <3>. QED
      BY <2>1, <2>2, <3>1, <1>0 DEF Relink
  <2>. QED
    BY <2>1, <2>3 DEF Row, Verified
<1>10. CASE Cleanup(c)
  <2>1. /\ name' = [name EXCEPT !["part"] = None] /\ said' = said /\ at'[c] = "done"
        /\ Verified("embedded") => Verified("embedded")'
    BY <1>10, <1>0, <1>2, LinkingCleanup DEF Cleanup, Relink, Goto
  <2>2. name'["part"] = None /\ name'["embedded"] = name["embedded"]
    BY <2>1, <1>0, <1>2
  <2>. QED
    BY <2>1, <2>2, <1>2 DEF Row
<1>11. CASE Rerun(c)
  <2>1. /\ name' = name /\ said' = said /\ at'[c] = "new"
        /\ Verified("embedded") => Verified("embedded")'
    BY <1>11, <1>0, <1>2, LinkingRerun DEF Rerun, Relink, Goto, KilledWithFile
  <2>. QED
    BY <2>1, <1>2 DEF Row
<1>. QED
  BY <1>0, <1>4, <1>5, <1>6, <1>7, <1>8, <1>9, <1>10, <1>11 DEF Progress, BeginMaterialize

LEMMA SingleInit == Init => Single
BY Names DEF Init, Single, PartFile, Installed, LoadsPinned, Command

LEMMA SingleStep ==
  ASSUME General, Single, OneDownloader, Install \/ UNCHANGED installVars
  PROVE  Single'
<1>1. ASSUME NEW c \in Command, Progress(c) \/ Rerun(c) PROVE Single'
  BY <1>1, SingleMaterializer, SingleDownloader, Names
<1>2. CASE Verify \/ Load \/ Stop
  <2>1. /\ UNCHANGED <<fileVars, commandVars>> /\ loaded' \in {loaded, loaded \cup {Pinned}}
        /\ server' => Verified("embedded")
    BY <1>2 DEF Verify, Load, Stop, Single, Verified
  <2>. QED
    BY <2>1 DEF Single, PartFile, Installed, Verified, LoadsPinned, fileVars, commandVars
<1>3. CASE UNCHANGED installVars
  BY <1>3 DEF Single, PartFile, Installed, Verified, LoadsPinned, installVars, serverVars, fileVars,
              commandVars
<1>. QED
  BY <1>1, <1>2, <1>3 DEF Install

-----------------------------------------------------------------------------
(* The bundle *)

LEMMA Orders ==
  /\ Len(Order) = 4 /\ DOMAIN Order = 1..4
  /\ Order[1] = "weights" /\ Order[2] = "tokenizer" /\ Order[3] = "config" /\ Order[4] = "model_card"
  /\ \A j \in 1..4 : Order[j] \in File
  /\ \A f \in File : \E j \in 1..4 : f = Order[j]
  /\ \A j, k \in 1..4 : Order[j] = Order[k] => j = k
<1>1. Len(Order) = 4 /\ DOMAIN Order = 1..4
  BY DEF Order
<1>2. Order[1] = "weights" /\ Order[2] = "tokenizer" /\ Order[3] = "config" /\ Order[4] = "model_card"
  BY DEF Order
<1>3. /\ \A j \in 1..4 : Order[j] \in File
      /\ \A f \in File : \E j \in 1..4 : f = Order[j]
  BY <1>1 DEF File, Range
<1>4. \A j \in 1..4 : j = 1 \/ j = 2 \/ j = 3 \/ j = 4
  OBVIOUS
<1>5. \A j, k \in 1..4 : Order[j] = Order[k] => j = k
  BY <1>2, <1>4
<1>. QED
  BY <1>1, <1>2, <1>3, <1>5

LEMMA BundleInit == Init => BundleType /\ Checking
BY Orders, GapsAssumption DEF Init, BundleType, Checking

LEMMA ExportStep ==
  ASSUME BundleType, Checking, Export
  PROVE  BundleType' /\ Checking'
<1>1. approved = 0 /\ UNCHANGED checkVars
  BY DEF Export
<1>2. Checking'
  BY <1>1 DEF Checking, checkVars
<1>3. export' \in 0..Exports /\ manifest' \in 0..Exports /\ files' \in [File -> 0..Exports]
  <2>1. CASE export < Exports /\ export' = export + 1 /\ UNCHANGED <<files, manifest>>
    BY <2>1, GapsAssumption DEF BundleType
  <2>2. CASE \E i \in DOMAIN Order :
               files' = [files EXCEPT ![Order[i]] = export] /\ UNCHANGED <<export, manifest>>
    BY <2>2 DEF BundleType
  <2>3. CASE manifest' = export /\ UNCHANGED <<export, files>>
    BY <2>3 DEF BundleType
  <2>. QED
    BY <2>1, <2>2, <2>3 DEF Export
<1>. QED
  BY <1>1, <1>2, <1>3 DEF BundleType, checkVars

LEMMA ReadManifestStep ==
  ASSUME BundleType, Checking, ReadManifest
  PROVE  BundleType' /\ Checking'
BY Orders DEF BundleType, Checking, ReadManifest, bundleVars

LEMMA CheckFileStep ==
  ASSUME BundleType, Checking, CheckFile
  PROVE  BundleType' /\ Checking'
<1>. DEFINE f == Order[check]
<1>1. check \in 1..4 /\ f \in File /\ UNCHANGED <<approved, bundleVars>>
  BY Orders DEF CheckFile
<1>2. CASE Forget
  BY <1>1, <1>2, GapsAssumption, Orders DEF Forget, BundleType, Checking, bundleVars
<1>3. CASE Recorded(f) /\ check' = check + 1 /\ seen' = [seen EXCEPT ![f] = files[f]] /\ UNCHANGED wanted
  <2>1. files[f] = wanted /\ files[f] \in 0..Exports
    BY <1>1, <1>3 DEF Recorded, BundleType
  <2>2. seen' \in [File -> 0..Exports] /\ seen'[f] = wanted /\ \A g \in File \ {f} : seen'[g] = seen[g]
    BY <1>1, <1>3, <2>1 DEF BundleType
  <2>3. BundleType'
    BY <1>1, <1>3, <2>2, Orders DEF BundleType, bundleVars
  <2>4. \A j \in 1..check : seen'[Order[j]] = wanted
    <3>. SUFFICES ASSUME NEW j \in 1..check PROVE seen'[Order[j]] = wanted
      OBVIOUS
    <3>1. j \in 1..4 /\ Order[j] \in File
      BY <1>1, Orders
    <3>2. CASE Order[j] = f
      BY <3>2, <2>2
    <3>3. CASE Order[j] # f
      BY <3>1, <3>3, <1>1, <2>2 DEF Checking
    <3>. QED
      BY <3>2, <3>3
  <2>5. Checking'
    BY <1>1, <1>3, <2>4 DEF Checking
  <2>. QED
    BY <2>3, <2>5
<1>. QED
  BY <1>2, <1>3 DEF CheckFile

LEMMA ValidateStep ==
  ASSUME BundleType, Checking, Validate
  PROVE  BundleType' /\ Checking'
BY Orders, GapsAssumption DEF BundleType, Checking, Validate, Forget, bundleVars

LEMMA BundleStep ==
  ASSUME BundleType, Checking, Prepare \/ UNCHANGED <<bundleVars, checkVars>>
  PROVE  BundleType' /\ Checking'
<1>1. CASE UNCHANGED <<bundleVars, checkVars>>
  BY <1>1 DEF BundleType, Checking, bundleVars, checkVars
<1>. QED
  BY <1>1, ExportStep, ReadManifestStep, CheckFileStep, ValidateStep DEF Prepare

\* What the check ends with.
LEMMA ApprovedStep ==
  ASSUME BundleType, Checking, Prepare, approved' # approved
  PROVE  Gaps[approved'] = {} /\ Range(seen) = {approved'}
<1>1. Validate
  BY DEF Prepare, Export, ReadManifest, CheckFile, checkVars
<1>2. check = 5 /\ wanted \in 1..Exports /\ approved = 0
  BY <1>1, Orders DEF Validate, Checking, BundleType
<1>3. approved' = wanted /\ Gaps[wanted] \cap Late = {} /\ Gaps[wanted] \cap Early = {}
  BY <1>1, <1>2 DEF Validate, Checking
<1>4. Gaps[wanted] = {}
  BY <1>2, <1>3, GapsAssumption
<1>5. \A f \in File : seen[f] = wanted
  BY <1>2, Orders DEF Checking
<1>6. Range(seen) = {wanted}
  BY <1>5, Orders DEF Range, BundleType
<1>. QED
  BY <1>3, <1>4, <1>6

-----------------------------------------------------------------------------
(* The theorems *)

LEMMA AlwaysGeneral == Spec => [](General /\ BundleType /\ Checking)
<1>1. Init => General /\ BundleType /\ Checking
  BY GeneralInit, BundleInit
<1>2. General /\ BundleType /\ Checking /\ [Next]_vars => (General /\ BundleType /\ Checking)'
  <2>. SUFFICES ASSUME General, BundleType, Checking, [Next]_vars
                PROVE  (General /\ BundleType /\ Checking)'
    OBVIOUS
  <2>1. Install \/ UNCHANGED installVars
    BY DEF Next, vars
  <2>2. Prepare \/ UNCHANGED <<bundleVars, checkVars>>
    BY DEF Next, vars
  <2>. QED
    BY <2>1, <2>2, GeneralStep, BundleStep
<1>. QED
  BY <1>1, <1>2, PTL DEF Spec

\* Every variable keeps its type, however many downloads run at a time.
THEOREM TypeOKHolds == Spec => []TypeOK
<1>1. General /\ BundleType /\ Checking => TypeOK
  BY DEF General, Linking, FilesType, TypeOK, InstallType
<1>. QED
  BY <1>1, AlwaysGeneral, PTL

\* materialize_model.py: what is found as the fine-tuned model is the pinned
\* file, whole, and after a success it stays there, however many
\* materializations and downloads are under way, killed or run again.
THEOREM TunedNeverHalfInstalled == Spec => []Installed("tuned")
<1>1. General /\ BundleType /\ Checking => Installed("tuned")
  BY DEF General
<1>. QED
  BY <1>1, AlwaysGeneral, PTL

\* check_model_artifact.py: an export is enabled only when its four files
\* were, as the check read them, of the export of its manifest, and nothing
\* was missing.
THEOREM ApprovedWholeHolds == Spec => ApprovedWhole
<1>1. General /\ BundleType /\ Checking /\ [Next]_vars =>
        [approved' # approved => Gaps[approved'] = {} /\ Range(seen) = {approved'}]_vars
  <2>. SUFFICES ASSUME BundleType, Checking, [Next]_vars, approved' # approved
                PROVE  Gaps[approved'] = {} /\ Range(seen) = {approved'}
    OBVIOUS
  <2>1. Prepare
    BY DEF Next, vars, checkVars
  <2>. QED
    BY <2>1, ApprovedStep
<1>. QED
  BY <1>1, AlwaysGeneral, PTL DEF Spec, ApprovedWhole

LEMMA AlwaysSingle == ASSUME OneDownloader PROVE Spec => [](General /\ Single)
<1>1. Init => General /\ Single
  BY GeneralInit, SingleInit
<1>2. General /\ Single /\ [Next]_vars => (General /\ Single)'
  <2>. SUFFICES ASSUME General, Single, [Next]_vars
                PROVE  (General /\ Single)'
    OBVIOUS
  <2>1. Install \/ UNCHANGED installVars
    BY DEF Next, vars
  <2>. QED
    BY <2>1, GeneralStep, SingleStep
<1>. QED
  BY <1>1, <1>2, PTL DEF Spec

\* The invariant the run checks: who has a file open, what it holds and what
\* the check of a bundle has seen.
THEOREM ConsistentHolds == ASSUME OneDownloader PROVE Spec => []Consistent
<1>1. General /\ Single /\ BundleType /\ Checking => Consistent
  BY DEF General, Linking, FilesType, TypeOK, InstallType, Single, Consistent
<1>. QED
  BY <1>1, AlwaysGeneral, AlwaysSingle, PTL

\* download_model.py and materialize_model.py: whatever is killed, broken off
\* or corrupted, a destination's name leads to the pinned model, whole, and
\* keeps leading there after a success.
THEOREM NeverHalfInstalledHolds == ASSUME OneDownloader PROVE Spec => []NeverHalfInstalled
<1>1. General /\ Single => NeverHalfInstalled
  BY DEF General, Single, NeverHalfInstalled
<1>. QED
  BY <1>1, AlwaysSingle, PTL

\* inference.py: the workers load what the server verified, although each
\* opens the file again.
THEOREM LoadsPinnedHolds == ASSUME OneDownloader PROVE Spec => []LoadsPinned
<1>1. General /\ Single => LoadsPinned
  BY DEF Single
<1>. QED
  BY <1>1, AlwaysSingle, PTL

\* The finally clauses: a command that has ended by itself has left no
\* temporary file of its own, and a download also none of a run killed before
\* it.  The file of a killed materialization stays; no command opens it again.
THEOREM NoLeftoversHolds == ASSUME OneDownloader PROVE Spec => []NoLeftovers
<1>1. General /\ Single => NoLeftovers
  <2>. SUFFICES ASSUME Linking, Single PROVE NoLeftovers
    BY DEF General
  <2>1. ASSUME NEW c \in Command, at[c] = "done" PROVE name[Temporary(c)] = None
    BY <2>1, Names DEF Linking, OwnFile, Single, PartFile
  <2>2. ASSUME NEW c \in Command, NEW l \in Litter, fd[c] # None PROVE fd[c] # name[l]
    <3>1. CASE c \in Downloader
      BY <3>1, <2>2 DEF Linking, Apart
    <3>2. CASE c \in Materializer
      <4>1. at[c] = "copy" /\ fd[c] = name[c] /\ l \in Name /\ c \in Name /\ l # c
        BY <3>2, <2>2, Names DEF Linking, OpenFiles, OwnFile
      <4>. QED
        BY <4>1, <2>2 DEF Linking, NamesDistinct
    <3>. QED
      BY <3>1, <3>2, Names
  <2>. QED
    BY <2>1, <2>2 DEF NoLeftovers
<1>. QED
  BY <1>1, AlwaysSingle, PTL

=============================================================================
