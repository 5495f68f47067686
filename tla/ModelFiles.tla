----------------------------- MODULE ModelFiles -----------------------------
(***************************************************************************)
(* The files of a model before a request is served: the upstream model is  *)
(* downloaded (scripts/download_model.py), and a server verifies it and    *)
(* has its workers load it; the bundle of a fine-tuned one is checked      *)
(* (scripts/check_model_artifact.py) while it may be exported again, and   *)
(* what was approved is materialized (scripts/materialize_model.py).       *)
(*                                                                         *)
(* A step is one call of the file system; every command may be killed      *)
(* between two of them and run again.  A file is an inode, its chunks; a   *)
(* digest tells every content from every other.  The manifest of a         *)
(* download and the configuration of a materialization are pinned: they    *)
(* are the same for all the runs.                                          *)
(***************************************************************************)
EXTENDS Integers, Sequences, FiniteSetsExt, Functions

CONSTANTS
  Downloader,    \* runs of download_model.py
  Materializer,  \* runs of materialize_model.py
  Litter,        \* names of what killed materializations left: a bound on them
  Size,          \* size_bytes, in chunks
  Exports,       \* how often the bundle is exported
  Gaps,          \* what the manifest of each export lacks or gets wrong
  None

ASSUME SizeAssumption == Size \in Nat \ {0}
ASSUME CommandAssumption ==
  /\ IsFiniteSet(Downloader) /\ IsFiniteSet(Materializer) /\ IsFiniteSet(Litter)
  /\ Downloader \cap Materializer = {} /\ None \notin Nat
  /\ (Materializer \cup Litter) \cap {"embedded", "part", "tuned"} = {}
  /\ Materializer \cap Litter = {}

VARIABLES
  name,    \* the directory: inodes by name, None where there is no file
  data,    \* contents by inode
  at,      \* where each command is
  fd,      \* the inode a command has open for writing
  got,     \* the chunks it was sent
  said,    \* history: the destinations success was reported of
  server,  \* the server has verified its model
  loaded,  \* history: the contents its workers have loaded
  export,  \* the export that is being written or was written last
  files, manifest,  \* the bundle: which export each file is of
  check,   \* how many files the check has looked at, 0 when it is not running
  wanted,  \* the manifest it has read
  seen,    \* history: the files as it read them
  approved \* the export the configuration enables, 0 for none

fileVars == <<name, data>>
commandVars == <<at, fd, got, said>>
serverVars == <<server, loaded>>
bundleVars == <<export, files, manifest>>
checkVars == <<check, wanted, seen, approved>>
installVars == <<fileVars, commandVars, serverVars>>
vars == <<installVars, bundleVars, checkVars>>

Command == Downloader \cup Materializer
Inode == 1..2 + 2 * Cardinality(Command) + Cardinality(Litter)
Pinned == [i \in 1..Size |-> "good"]

\* The form of Temporary that downloads in place.
TemporaryInPlace(c) == IF c \in Downloader THEN "embedded" ELSE c

\* Every download writes the same file beside the destination, every
\* materialization one of its own.
Temporary(c) == IF c \in Downloader THEN "part" ELSE c
Destination(c) == IF c \in Downloader THEN "embedded" ELSE "tuned"
Name == {"embedded", "part", "tuned"} \cup Materializer \cup Litter

\* The files of a bundle in the order they are checked in.
Order == <<"weights", "tokenizer", "config", "model_card">>
File == Range(Order)

Init ==
  /\ name = [n \in Name |-> None]
  /\ data = [i \in Inode |-> <<>>]
  /\ at = [c \in Command |-> "new"]
  /\ fd = [c \in Command |-> None]
  /\ got = [c \in Command |-> <<>>]
  /\ said = {} /\ server = FALSE /\ loaded = {}
  /\ export = 0 /\ files = [f \in File |-> 0] /\ manifest = 0
  /\ check = 0 /\ wanted = 0 /\ seen = [f \in File |-> 0] /\ approved = 0

-----------------------------------------------------------------------------
(* The file system *)

Linked(n, f) == Range(n) \cup Range(f)

\* An inode no name and no descriptor leads to.
Fresh == CHOOSE i \in Inode : i \notin Linked(name, fd)

\* Names and descriptors change; what has lost its last one is freed.
Relink(n, f, d) ==
  /\ name' = n /\ fd' = f
  /\ data' = [i \in Inode |-> IF i \in Linked(n, f) THEN d[i] ELSE <<>>]

\* A chunk written at an offset; what it skips is zeros.
WriteAt(content, offset, chunk) ==
  [i \in 1..Max({Len(content), offset + 1}) |->
     IF i = offset + 1 THEN chunk ELSE IF i <= Len(content) THEN content[i] ELSE "bad"]

Verified(n) == name[n] # None /\ data[name[n]] = Pinned

-----------------------------------------------------------------------------
(* download and materialize *)

Goto(c, place) == at' = [at EXCEPT ![c] = place]
Report(c) == said' = said \cup {Destination(c)}

\* What is there already and matches is not downloaded again.
BeginDownload(c) ==
  /\ at[c] = "new" /\ c \in Downloader
  /\ IF Verified("embedded") THEN Goto(c, "done") /\ Report(c)
     ELSE Goto(c, "open") /\ UNCHANGED said
  /\ UNCHANGED <<fileVars, fd, got, serverVars>>

\* A materialization needs a configuration that enables a candidate.
BeginMaterialize(c) ==
  /\ at[c] = "new" /\ c \in Materializer /\ approved # 0
  /\ Goto(c, "open")
  /\ UNCHANGED <<fileVars, fd, got, said, serverVars>>

\* The request fails, or the temporary file is opened: a file of that name
\* is truncated, whoever is writing it.
Open(c) ==
  /\ at[c] = "open"
  /\ \/ Goto(c, "cleanup") /\ UNCHANGED <<fileVars, fd>>
     \/ LET old == name[Temporary(c)]
            i == IF old # None THEN old ELSE Fresh
        IN  /\ Relink([name EXCEPT ![Temporary(c)] = i], [fd EXCEPT ![c] = i],
                      [data EXCEPT ![i] = <<>>])
            /\ Goto(c, "copy")
  /\ UNCHANGED <<got, said, serverVars>>

\* The form of Copy that counts a chunk too late.
CopyTooLong(c) ==
  /\ at[c] = "copy" /\ Len(got[c]) <= Size
  /\ \E chunk \in {"good", "bad"} :
       /\ data' = [data EXCEPT ![fd[c]] = WriteAt(@, Len(got[c]), chunk)]
       /\ got' = [got EXCEPT ![c] = Append(@, chunk)]
  /\ UNCHANGED <<name, fd, at, said, serverVars>>

\* A chunk arrives and is written.
Copy(c) ==
  /\ at[c] = "copy" /\ Len(got[c]) < Size
  /\ \E chunk \in {"good", "bad"} :
       /\ data' = [data EXCEPT ![fd[c]] = WriteAt(@, Len(got[c]), chunk)]
       /\ got' = [got EXCEPT ![c] = Append(@, chunk)]
  /\ UNCHANGED <<name, fd, at, said, serverVars>>

\* The answer ends, wherever it does; or it breaks, or is a chunk too long.
CopyEnds(c) ==
  /\ at[c] = "copy"
  /\ Relink(name, [fd EXCEPT ![c] = None], data)
  /\ Goto(c, "check") \/ Goto(c, "cleanup")
  /\ UNCHANGED <<got, said, serverVars>>

\* The form of Matches that compares sizes only.
MatchesSize(c) ==
  IF c \in Downloader
  THEN name["part"] # None /\ Len(data[name["part"]]) = Size
  ELSE Len(got[c]) = Size

\* A download looks at the file of that name, a materialization at the
\* digest of what it was sent.
Matches(c) == IF c \in Downloader THEN Verified("part") ELSE got[c] = Pinned

Check(c) ==
  /\ at[c] = "check"
  /\ Goto(c, IF Matches(c) THEN "rename" ELSE "cleanup")
  /\ UNCHANGED <<fileVars, fd, got, said, serverVars>>

\* os.replace: in one step the destination is the new file.
Rename(c) ==
  /\ at[c] = "rename"
  /\ \/ /\ name[Temporary(c)] # None
        /\ Relink([name EXCEPT ![Destination(c)] = name[Temporary(c)], ![Temporary(c)] = None],
                  fd, data)
        /\ Report(c)
     \/ name[Temporary(c)] = None /\ UNCHANGED <<fileVars, fd, said>>
  /\ Goto(c, "cleanup")
  /\ UNCHANGED <<got, serverVars>>

\* The form of Cleanup without the unlink.
CleanupForgotten(c) ==
  /\ at[c] = "cleanup"
  /\ Goto(c, "done")
  /\ got' = [got EXCEPT ![c] = <<>>]
  /\ UNCHANGED <<fileVars, fd, said, serverVars>>

\* The finally clause: unlink(missing_ok=True).
Cleanup(c) ==
  /\ at[c] = "cleanup"
  /\ Relink([name EXCEPT ![Temporary(c)] = None], fd, data)
  /\ Goto(c, "done")
  /\ got' = [got EXCEPT ![c] = <<>>]
  /\ UNCHANGED <<said, serverVars>>

\* The materialization is killed while it has a temporary file.
KilledWithFile(c) == c \in Materializer /\ name[c] # None

\* The command is killed, or has ended, and is run again.  The temporary file
\* of a download is found by the next one.  That of a materialization is its
\* own (delete=False): it stays, under a name no later run uses.
Rerun(c) ==
  /\ at[c] # "new"
  /\ \/ /\ KilledWithFile(c)
        /\ \E l \in Litter :
             /\ name[l] = None
             /\ Relink([name EXCEPT ![l] = name[c], ![c] = None], [fd EXCEPT ![c] = None], data)
     \/ /\ ~KilledWithFile(c)
        /\ Relink(name, [fd EXCEPT ![c] = None], data)
  /\ got' = [got EXCEPT ![c] = <<>>]
  /\ Goto(c, "new")
  /\ UNCHANGED <<said, serverVars>>

-----------------------------------------------------------------------------
(* LlamaModel.start and the workers *)

Verify ==
  /\ ~server /\ Verified("embedded") /\ server' = TRUE
  /\ UNCHANGED <<loaded, fileVars, commandVars>>

\* Every worker opens the file by its name, long after it was verified.
Load ==
  /\ server
  /\ loaded' = loaded \cup {IF name["embedded"] = None THEN <<>> ELSE data[name["embedded"]]}
  /\ UNCHANGED <<server, fileVars, commandVars>>

Stop == server /\ server' = FALSE /\ UNCHANGED <<loaded, fileVars, commandVars>>

-----------------------------------------------------------------------------
(* The bundle *)

\* An export begins, writes the next file, or ends with the manifest.  What the
\* configuration enables is an immutable revision: a later export is another.
Export ==
  /\ approved = 0
  /\ \/ /\ export < Exports /\ manifest = export
        /\ export' = export + 1 /\ UNCHANGED <<files, manifest>>
     \/ \E i \in DOMAIN Order :
          /\ files[Order[i]] # export /\ \A j \in 1..i - 1 : files[Order[j]] = export
          /\ files' = [files EXCEPT ![Order[i]] = export] /\ UNCHANGED <<export, manifest>>
     \/ /\ manifest # export /\ Range(files) = {export}
        /\ manifest' = export /\ UNCHANGED <<export, files>>
  /\ UNCHANGED checkVars

\* What validate looks at before it reads the files, and after.
Early ==
  {"schema_version", "kind", "objective", "fine_tuned_by_omo", "format", "quantization", "template"}
Late ==
  {"lineage", "base_model", "evaluation", "protected_test", "metrics", "human_review",
   "license", "rollback"}

ASSUME GapsAssumption == Exports \in Nat /\ Gaps \in [1..Exports -> SUBSET (Early \cup Late)]

ReadManifest ==
  /\ approved = 0 /\ check = 0 /\ manifest # 0 /\ Gaps[manifest] \cap Early = {}
  /\ wanted' = manifest /\ check' = 1
  /\ UNCHANGED <<seen, approved, bundleVars>>

Forget == check' = 0 /\ wanted' = 0 /\ seen' = [f \in File |-> 0]

\* The form of Recorded that does not look into the file.
RecordedAnyway(f) == files[f] # 0

\* The file has the size and the digest the manifest records.
Recorded(f) == files[f] = wanted

\* The next file is read.  One that does not match, or is being written,
\* ends the check.
CheckFile ==
  /\ check \in 1..Len(Order)
  /\ LET f == Order[check]
     IN  \/ Recorded(f) /\ check' = check + 1 /\ seen' = [seen EXCEPT ![f] = files[f]]
            /\ UNCHANGED wanted
         \/ Forget
  /\ UNCHANGED <<approved, bundleVars>>

\* Lineage, evaluation, review, license and rollback are looked at last;
\* then the owner enables the export that was validated.
Validate ==
  /\ check = Len(Order) + 1
  /\ Forget
  /\ approved' = IF Gaps[wanted] \cap Late = {} THEN wanted ELSE 0
  /\ UNCHANGED bundleVars

-----------------------------------------------------------------------------

Progress(c) ==
  \/ BeginDownload(c) \/ BeginMaterialize(c)
  \/ Open(c) \/ Copy(c) \/ CopyEnds(c) \/ Check(c) \/ Rename(c) \/ Cleanup(c)

Install == (\E c \in Command : Progress(c) \/ Rerun(c)) \/ Verify \/ Load \/ Stop
Prepare == Export \/ ReadManifest \/ CheckFile \/ Validate

Next ==
  \/ Install /\ UNCHANGED <<bundleVars, checkVars>>
  \/ Prepare /\ UNCHANGED installVars

Spec == Init /\ [][Next]_vars

-----------------------------------------------------------------------------
(* Properties *)

Place == {"new", "open", "copy", "check", "rename", "cleanup", "done"}
Content == UNION {[1..n -> {"good", "bad"}] : n \in 0..Size}

InstallType ==
  /\ name \in [Name -> Inode \cup {None}]
  /\ data \in [Inode -> Content]
  /\ at \in [Command -> Place]
  /\ fd \in [Command -> Inode \cup {None}]
  /\ got \in [Command -> Content]
  /\ said \in SUBSET {"embedded", "tuned"}
  /\ server \in BOOLEAN /\ loaded \in SUBSET Content

BundleType ==
  /\ {export, manifest, wanted, approved} \subseteq 0..Exports
  /\ files \in [File -> 0..Exports] /\ seen \in [File -> 0..Exports]
  /\ check \in 0..Len(Order) + 1

\* Every variable has its type.
TypeOK == InstallType /\ BundleType

\* No two names lead to one file.
NamesDistinct == \A m, n \in Name : name[m] = name[n] /\ name[m] # None => m = n

\* A command has a file open exactly while it copies, and was sent nothing
\* before that.
OpenFiles ==
  \A c \in Command :
    /\ (fd[c] # None) <=> (at[c] = "copy")
    /\ at[c] \in {"new", "open", "done"} => got[c] = <<>>

\* What a materialization has under its own name, at each point of its run.
OwnFile ==
  \A c \in Materializer :
    /\ at[c] \in {"new", "open", "done"} => name[c] = None
    /\ at[c] = "copy" => fd[c] = name[c]
    /\ at[c] \in {"copy", "check", "rename"} => name[c] # None /\ data[name[c]] = got[c]
    /\ at[c] = "rename" => got[c] = Pinned

\* No download writes what a materialization has written or left.
Apart ==
  \A c \in Downloader : \A n \in Materializer \cup Litter \cup {"tuned"} :
    fd[c] # None => fd[c] # name[n]

\* What a download has under the name all downloads share: while it is the
\* only one, nobody else writes there, and it runs only as long as nothing
\* is installed.
PartFile ==
  /\ name["part"] # None => name["embedded"] = None
  /\ \A c \in Downloader :
       /\ at[c] = "copy" => fd[c] = name["part"] /\ data[fd[c]] = got[c]
       /\ at[c] = "rename" => Verified("part")
       /\ at[c] \in {"open", "copy", "check", "rename"} => name["embedded"] = None
       /\ at[c] = "done" => name["part"] = None

\* While the check of a bundle runs nothing is approved, and what it has
\* looked at so far was of the export whose manifest it read.
Checking ==
  check # 0 =>
    /\ approved = 0 /\ wanted # 0 /\ Gaps[wanted] \cap Early = {}
    /\ \A j \in 1..check - 1 : seen[Order[j]] = wanted

\* Once there is a file under a destination's name, or success was reported,
\* the pinned model is there.
Installed(n) == name[n] # None \/ n \in said => Verified(n)

\* The invariant that carries the proofs: with it, whoever writes has its
\* own file open, and what was checked is what is renamed.
Consistent ==
  /\ TypeOK /\ NamesDistinct /\ OpenFiles /\ OwnFile /\ Apart /\ PartFile /\ Checking
  /\ server => Verified("embedded")

\* Whatever is killed, broken off or corrupted on the way, what is found
\* under a destination's name is the pinned model, whole; and once a command
\* has reported success it is there, whatever runs later.
NeverHalfInstalled == \A n \in {"embedded", "tuned"} : Installed(n)

\* What a worker loads is what the server verified, although every worker
\* opens the file again and downloads may have been under way meanwhile.
LoadsPinned == loaded \subseteq {Pinned}

\* However a command ends by itself, its temporary file is gone: of a download
\* also the one a run killed before it left, which has the same name.  What a
\* killed materialization left stays, and nobody has it open again.
NoLeftovers ==
  /\ \A c \in Command : at[c] = "done" => name[Temporary(c)] = None
  /\ \A c \in Command, l \in Litter : fd[c] # None => fd[c] # name[l]

\* An export is enabled only when all four files were, as the check read
\* them, of the export whose manifest it had read, with nothing missing,
\* although the exporter was writing the next one meanwhile.
ApprovedWhole ==
  [][approved' # approved => Gaps[approved'] = {} /\ Range(seen) = {approved'}]_vars

=============================================================================
