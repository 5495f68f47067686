------------------------------- MODULE Release -------------------------------
(***************************************************************************)
(* From a pull request to a stable image.  A pull request is given its     *)
(* suites and its review by src/omo/ci_changes.py; a release is dispatched *)
(* for the head of main (.github/workflows/release.yml), runs everything,  *)
(* and builds an image for each platform; scripts/release_manifest.py      *)
(* describes an image that passed its test; an external verifier attests   *)
(* digests; scripts/promote_release.py turns two candidates and evidence   *)
(* that people put together into a stable manifest.                        *)
(*                                                                         *)
(* Main moves on while a release runs, a job may be run again and gives    *)
(* another digest, and the files of every earlier run stay at hand.        *)
(***************************************************************************)
EXTENDS CiSelection

CONSTANTS
  Version,     \* the versions that may be asked for
  NoVersion,   \* that of no run
  Tree,        \* by commit, the model, dataset, evaluation and policy it pins
  MaxChanges, MaxCommits, MaxBuilds  \* bounds of the model

ASSUME BoundAssumption == MaxCommits \in Nat \ {0} /\ MaxBuilds \in Nat
ASSUME VersionAssumption == NoVersion \notin Version

VARIABLES
  diff,       \* the pull request: the changes between its base and its head
  event,      \* how its last push came to the workflow
  selected,   \* the suites that push was given
  review,     \* whether it is to be reviewed
  head,       \* the head of main, commits count from 1
  validated,  \* history: the commits that a release has run every suite of
  run,        \* the release workflow: what was approved, and how far it is
  built,      \* the images pushed so far; their index is their digest
  candidates, \* the candidate manifests
  attested,   \* how many kinds of evidence were verified of each digest
  stable      \* the stable manifests

requestVars == <<diff, event, selected, review>>
releaseVars == <<head, validated, run, built, candidates, attested, stable>>
vars == <<requestVars, releaseVars>>

Platform == {"linux/amd64", "linux/arm64"}
Kind == <<"sbom", "provenance", "signature">>

Opened == diff' = <<>> /\ event' = "diff" /\ selected' = Suite /\ review' = TRUE

Init ==
  /\ diff = <<>> /\ event = "diff" /\ selected = Suite /\ review = TRUE
  /\ head = 1 /\ validated = {}
  /\ run = [version |-> NoVersion, commit |-> 0, suites |-> {}, stage |-> "ended"]
  /\ built = <<>> /\ candidates = {} /\ attested = <<>> /\ stable = {}

-----------------------------------------------------------------------------
(* Pull requests *)

\* The pull request's head moves on to one more change, and both selections
\* are made for it.
\* A bound of the model: requests are followed until the first release.
Push(change, how) ==
  /\ Len(diff) < MaxChanges /\ change \notin Range(diff) /\ head = 1 /\ run.commit = 0
  /\ diff' = Append(diff, change) /\ event' = how
  /\ LET read == ChangedPaths(how, diff')
     IN  selected' = Select(read) /\ review' = ReviewRequired(read)
  /\ UNCHANGED releaseVars

\* A request is merged, this one or another.
Merge ==
  /\ head < MaxCommits
  /\ head' = head + 1 /\ Opened
  /\ UNCHANGED <<validated, run, built, candidates, attested, stable>>

-----------------------------------------------------------------------------
(* The release workflow *)

\* The suites that a reusable call runs: everything is forced.
Validation == Select(ChangedPaths("forced", diff))

\* The approved commit is the head; one release runs at a time.
Dispatch(version) ==
  /\ run.stage = "ended"
  /\ run' = [version |-> version, commit |-> head, suites |-> Validation, stage |-> "validation"]
  /\ Opened
  /\ UNCHANGED <<head, validated, built, candidates, attested, stable>>

\* Validation, the strict scan and the audit pass.
Validated ==
  /\ run.stage = "validation"
  /\ run' = [run EXCEPT !.stage = "publish"]
  /\ validated' = IF run.suites = Suite THEN validated \cup {run.commit} ELSE validated
  /\ UNCHANGED <<requestVars, head, built, candidates, attested, stable>>

\* They fail, or every job of the run has ended.
End ==
  /\ run.stage # "ended"
  /\ run' = [run EXCEPT !.stage = "ended"]
  /\ UNCHANGED <<requestVars, head, validated, built, candidates, attested, stable>>

\* What release_manifest.build writes about a digest; the files are read from
\* the commit that is checked out.
Manifest(digest, image) ==
  [platform |-> image.platform, requested_release_version |-> image.version,
   code_commit |-> image.commit, pinned |-> Tree[image.commit], image_digest |-> digest]

\* The form of Revision that builds the branch.
RevisionOfBranch == head

\* github.sha, the commit the run was dispatched for.
Revision == run.commit

Image(platform, passes) ==
  [platform |-> platform, version |-> run.version, commit |-> Revision, passed |-> passes]

\* A platform's job, run for the first time or again: the image is pushed,
\* and described once it has passed its test.
Build(platform, passes) ==
  /\ run.stage = "publish" /\ Len(built) < MaxBuilds
  /\ LET image == Image(platform, passes)
     IN  /\ built' = Append(built, image)
         /\ candidates' = IF passes THEN candidates \cup {Manifest(Len(built) + 1, image)}
                          ELSE candidates
  /\ attested' = Append(attested, 0)
  /\ UNCHANGED <<requestVars, head, validated, run, stable>>

-----------------------------------------------------------------------------
(* Promotion *)

\* The verifier looks at a candidate, at one kind of evidence after another.
Attest(m) ==
  /\ attested[m.image_digest] < Len(Kind)
  /\ attested' = [attested EXCEPT ![m.image_digest] = @ + 1]
  /\ UNCHANGED <<requestVars, head, validated, run, built, candidates, stable>>

\* What can be put into an evidence file, of any image, for the k-th kind.
Record(k) ==
  {r \in [image_digest : DOMAIN built, source_commit : 1..MaxCommits, verified : BOOLEAN] :
     /\ r.source_commit = built[r.image_digest].commit
     /\ r.verified => k <= attested[r.image_digest]}

\* The form of Bound that takes the evidence of the commit.
BoundToCommit(k, r, m) == r.verified /\ r.source_commit = m.code_commit

\* A record is verified and about this image; provenance also names the commit.
Bound(k, r, m) ==
  /\ r.verified /\ r.image_digest = m.image_digest
  /\ Kind[k] = "provenance" => r.source_commit = m.code_commit

\* Some evidence file has a record of every kind that passes for m.
Evidenced(m) == \A k \in DOMAIN Kind : \E r \in Record(k) : Bound(k, r, m)

SameIdentity(m, n) ==
  /\ m.requested_release_version = n.requested_release_version
  /\ m.code_commit = n.code_commit /\ m.pinned = n.pinned

StableManifest(m, n) ==
  [release_version |-> m.requested_release_version, code_commit |-> m.code_commit,
   pinned |-> m.pinned, digests |-> {m.image_digest, n.image_digest}]

\* Two candidates, one for each platform, of one identity, with evidence.
Promote(m, n) ==
  /\ {m.platform, n.platform} = Platform
  /\ SameIdentity(m, n)
  /\ Evidenced(m) /\ Evidenced(n)
  /\ stable' = stable \cup {StableManifest(m, n)}
  /\ UNCHANGED <<requestVars, head, validated, run, built, candidates, attested>>

-----------------------------------------------------------------------------

Pull == \E change \in Change \cup Move, how \in Event : Push(change, how)

Next ==
  \/ Pull \/ Merge
  \/ \E version \in Version : Dispatch(version)
  \/ Validated \/ End
  \/ \E platform \in Platform, passes \in BOOLEAN : Build(platform, passes)
  \/ \E m \in candidates : Attest(m)
  \/ \E m, n \in candidates : Promote(m, n)

Spec == Init /\ [][Next]_vars

-----------------------------------------------------------------------------
(* Properties *)

Request == [version : Version \cup {NoVersion}, commit : 0..MaxCommits, suites : SUBSET Suite,
            stage : {"validation", "publish", "ended"}]
ImageType == [platform : Platform, version : Version, commit : 1..MaxCommits,
              passed : BOOLEAN]

\* Every variable has its type.
TypeOK ==
  /\ diff \in Seq(Change \cup Move) /\ event \in Event
  /\ selected \in SUBSET Suite /\ review \in BOOLEAN
  /\ head \in 1..MaxCommits /\ validated \subseteq 1..head /\ run \in Request
  /\ built \in Seq(ImageType) /\ attested \in Seq(0..Len(Kind)) /\ Len(attested) = Len(built)
  /\ candidates \subseteq {Manifest(d, built[d]) : d \in DOMAIN built}

-----------------------------------------------------------------------------
(* Pull requests *)

\* Both names of a move, and the path of everything else.
Changed == UNION {Range(diff[i].paths) : i \in DOMAIN diff}

\* What the real-model job of ci.yml runs or reads.
ModelInput ==
  {p \in Path : \/ Head(p) \in {"src", "models", "evaluation", "training"}
               \/ p \in {<<"uv.lock">>, <<"pyproject.toml">>, <<"build-constraints.txt">>,
                         <<"scripts", "download_model.py">>, <<"config", "training.yaml">>,
                         <<"tests", "conftest.py">>, <<"tests", "test_real_model.py">>}}

\* What the native-container job builds the bundled image from, in all stages of
\* the Dockerfile, what the service in it reads, and what the job runs.
RuntimeInput ==
  {p \in Path : \/ Head(p) \in {"src", "models"}
               \/ p \in {<<"uv.lock">>, <<"pyproject.toml">>, <<"build-constraints.txt">>,
                         <<"Dockerfile">>, <<".dockerignore">>, <<"LICENSE">>, <<"NOTICE">>,
                         <<"config", "default.yaml">>, <<"config", "registry.yaml">>,
                         <<"scripts", "download_model.py">>,
                         <<"scripts", "container_smoke.py">>,
                         <<"scripts", "check_security_report.py">>}}

\* Inputs of the image that do not select its suite.  The download script of
\* the model-artifact stage selects the model suite only, which runs it too;
\* the texts that the runtime stage copies select nothing.
LeftOut == {<<"scripts", "download_model.py">>, <<"LICENSE">>, <<"NOTICE">>}

\* A suite whose inputs a pull request adds, edits, deletes or moves away is
\* run, whatever else the request has and whatever was pushed before; of the
\* image's inputs, all but LeftOut.
InputsAreValidated ==
  /\ Changed \cap ModelInput # {} => "model" \in selected
  /\ Changed \cap (RuntimeInput \ LeftOut) # {} => "container" \in selected

\* What a job runs or reads, and every workflow, configuration, script and test.
Executed ==
  ModelInput \cup RuntimeInput \cup
  {p \in Path : Head(p) \in {".github", "config", "scripts", "tests"}}

\* Text: every Markdown file, wherever it is, and what the image only carries.
Prose == {p \in Path : Last(p) \in Markdown} \cup {<<"LICENSE">>, <<"NOTICE">>}

\* What is executed is reviewed unless it is prose, and both names of a move
\* count.  Markdown below src or .github/workflows is prose too.
UnreviewedIsProse == review \/ Changed \cap Executed \subseteq Prose

\* Of a change list that is complete, lacks its last path, was not produced or
\* was not asked for, nothing escapes its suite or its review.  A list that
\* ends after a status is not among them: see MalformedFailsSafe.
ChangesAreValidated == event # "cut_status" => InputsAreValidated /\ UnreviewedIsProse

\* docs/CI.md: malformed or unavailable change sets fail safe by selecting both
\* suites, and by the review.
MalformedFailsSafe ==
  event \in {"no_revision", "git_fails", "cut", "cut_status"} => selected = Suite /\ review

-----------------------------------------------------------------------------
(* Releases *)

\* The images of a stable manifest.
Images(s) == {built[d] : d \in s.digests}

\* What is promoted is one image of each platform, tested, and both built for
\* the commit and the version the manifest names, with that commit's model
\* and data, although releases of several commits and versions, and repeated
\* jobs, have left candidates behind.
StableIsOneBuild ==
  \A s \in stable :
    /\ {i.platform : i \in Images(s)} = Platform
    /\ \A i \in Images(s) : i.passed /\ i.commit = s.code_commit /\ i.version = s.release_version
    /\ s.pinned = Tree[s.code_commit]

\* Every promoted digest has all its evidence, of this very digest: evidence
\* of the image a job built before it was run again does not pass.
StableIsAttested == \A s \in stable : \A d \in s.digests : attested[d] = Len(Kind)

\* What is promoted is one build, with the evidence of that build.
StableIsSound == StableIsOneBuild /\ StableIsAttested

\* A release has run every suite of a stable image's commit, whatever the pull
\* request it came with was spared, and wherever main was when it was built.
StableIsValidated == \A s \in stable : s.code_commit \in validated

-----------------------------------------------------------------------------
(* The inductive invariant *)

\* A run that may build has validated what it was dispatched for.
RunIsValidated ==
  /\ run.stage \in {"validation", "publish", "ended"}
  /\ run.stage # "ended" =>
       run.commit \in 1..head /\ run.version \in Version /\ run.suites = Suite
  /\ run.stage = "publish" => run.commit \in validated

\* Every image has a count of its evidence, and a commit that was validated.
ImagesAreValidated ==
  /\ built \in Seq(ImageType)
  /\ attested \in Seq(0..Len(Kind)) /\ Len(attested) = Len(built)
  /\ \A d \in 1..Len(built) : built[d].commit \in validated

\* A candidate manifest is that of an image which passed its test.
CandidatesAreBuilt ==
  \A m \in candidates :
    /\ m.image_digest \in 1..Len(built)
    /\ m = Manifest(m.image_digest, built[m.image_digest]) /\ built[m.image_digest].passed

\* A stable manifest is made of two candidates that fit, with their evidence.
StableIsMade ==
  \A s \in stable : \E m, n \in candidates :
    /\ {m.platform, n.platform} = Platform /\ SameIdentity(m, n)
    /\ attested[m.image_digest] = Len(Kind) /\ attested[n.image_digest] = Len(Kind)
    /\ s = StableManifest(m, n)

\* The pull request has what its last push was read as; an empty one is read
\* as everything.
SelectionIsRead ==
  LET read == ChangedPaths(event, diff)
  IN  selected = Select(read) /\ review = ReviewRequired(read)

IInv ==
  /\ head \in 1..MaxCommits
  /\ RunIsValidated /\ ImagesAreValidated /\ CandidatesAreBuilt /\ StableIsMade

\* Every variable has its type, and what the actions keep of each other's
\* state between two steps holds.
Consistent == TypeOK /\ IInv /\ SelectionIsRead

=============================================================================
