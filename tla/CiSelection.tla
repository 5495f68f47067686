---------------------------- MODULE CiSelection ----------------------------
(***************************************************************************)
(* src/src/omo/ci_changes.py: which of the two expensive suites, and       *)
(* whether a review, a pushed change set needs.  Git lists the changes     *)
(* between the base and the head as fields between NULs; the list is read  *)
(* back, every path is classified, and whatever cannot be trusted selects  *)
(* everything.                                                             *)
(*                                                                         *)
(* A path is the sequence of its parts.  Git's paths are relative and have *)
(* no "." in front, so _normalise_path returns them as they are.           *)
(***************************************************************************)
EXTENDS Integers, SequencesExt

CONSTANTS
  Path,     \* the paths that may change
  Markdown  \* the file names that end with .md

ASSUME PathAssumption == Path \subseteq Seq(STRING) \ {<<>>}
ASSUME MarkdownAssumption ==  \* of what decides, these names do not end so
  Markdown \cap {"src", "models", "evaluation", "training", "conftest.py"} = {}

Suite == {"model", "container"}
Unknown == {"unknown"}  \* None

-----------------------------------------------------------------------------
(* The lists; a directory ends with the empty part *)

DocumentationFile ==
  {<<f>> : f \in {"CHANGELOG.md", "CONTRIBUTING.md", "LICENSE", "NOTICE",
                  "PROJECT_DEFINITION.md", "README.md", "SECURITY.md", "TODO.md"}}
ModelPath ==
  {<<d, "">> : d \in {"config", "evaluation", "models", "src", "training"}} \cup
  {<<"scripts", "download_model.py">>, <<"tests", "test_real_model.py">>, <<"uv.lock">>}
ContainerPath ==
  {<<d, "">> : d \in {"config", "models", "src"}} \cup
  {<<".dockerignore">>, <<"Dockerfile">>, <<"compose.yaml">>,
   <<"scripts", "container_smoke.py">>, <<"uv.lock">>}
DependencyPath == {<<"build-constraints.txt">>, <<"pyproject.toml">>}
ModelOnly ==
  {<<"config", "training.yaml">>, <<"config", "classification.yaml">>,
   <<"evaluation", "build_dataset.py">>} \cup
  {<<"scripts", f>> : f \in
     {"check_evaluation_contract.py", "check_training_dispatch.py",
      "check_classification_contract.py", "check_dataset_pipeline.py"}}
ContainerOnly == {<<"scripts", "check_security_report.py">>}
CiOnly ==
  {<<"config", "publication.yaml">>} \cup
  {<<"scripts", f>> : f \in
     {"check_publication_contract.py", "check_release_contract.py",
      "promote_release.py", "release_manifest.py"}} \cup
  {<<".github", "workflows", f>> : f \in {"account-preflight.yml", "claude-code-review.yml"}}
RelevantWorkflow == {<<".github", "workflows", f>> : f \in {"ci.yml", "release.yml"}}

-----------------------------------------------------------------------------
(* Classification *)

Matches(p, patterns) ==
  \E t \in patterns : p = t \/ (Last(t) = "" /\ IsStrictPrefix(Front(t), p))

IsDocumentation(p) ==
  Matches(p, DocumentationFile \cup {<<"docs", "">>}) \/ Last(p) \in Markdown

\* The suites one path affects, or Unknown: single files before directories,
\* a new workflow is ambiguous, documentation comes last.
ClassifyPath(p) ==
  LET hit == {s \in Suite : Matches(p, IF s = "model" THEN ModelPath ELSE ContainerPath)}
  IN  IF p \in ModelOnly THEN {"model"}
      ELSE IF p \in ContainerOnly THEN {"container"}
      ELSE IF p \in CiOnly THEN {}
      ELSE IF Matches(p, DependencyPath) THEN Suite
      ELSE IF hit # {} THEN hit
      ELSE IF p \in RelevantWorkflow THEN Suite
      ELSE IF ~Matches(p, {<<".github", "workflows", "">>}) /\ IsDocumentation(p) THEN {}
      ELSE Unknown

\* The form of Classify that adds what an unknown path answers.
ClassifyUnchecked(paths) ==
  IF paths = <<>> THEN Suite ELSE UNION {ClassifyPath(p) : p \in Range(paths)}

\* An unknown path ends the loop with both suites; so does an empty list.
Classify(paths) ==
  LET answers == {ClassifyPath(p) : p \in Range(paths)}
  IN  IF paths = <<>> \/ Unknown \in answers THEN Suite ELSE UNION answers

RequiresReview(paths) == paths = <<>> \/ \E i \in DOMAIN paths : ~IsDocumentation(paths[i])

-----------------------------------------------------------------------------
(* Git's output *)

\* M stands for every letter with one path, R for a rename or a copy.  A field
\* is a sequence like the paths, the empty one included.
Change == [kind : {<<"M">>}, paths : {<<p>> : p \in Path}]
Move == [kind : {<<"R">>}, paths : {<<p, q>> : p \in Path, q \in Path}]

\* Status, path or paths; a NUL ends every field, so the last one is empty.
Fields(changes) ==
  FlattenSeq([i \in DOMAIN changes |-> <<changes[i].kind>> \o changes[i].paths]) \o <<<<>>>>

Malformed == [owed |-> 0, paths |-> <<>>, bad |-> TRUE]

\* The form of TakeField that keeps the new name of a rename only.
TakeFieldNew(read, field) ==
  IF read.bad \/ (read.owed > 0 /\ field = <<>>) THEN Malformed
  ELSE IF read.owed > 0
       THEN [read EXCEPT !.owed = @ - 1,
                         !.paths = IF read.owed = 1 THEN Append(@, field) ELSE @]
       ELSE IF field = <<>> THEN read
            ELSE [read EXCEPT !.owed = IF field = <<"R">> THEN 2 ELSE 1]

\* A status is owed one path, a rename or a copy two.
TakeField(read, field) ==
  IF read.bad \/ (read.owed > 0 /\ field = <<>>) THEN Malformed
  ELSE IF read.owed > 0
       THEN [read EXCEPT !.owed = @ - 1, !.paths = Append(@, field)]
       ELSE IF field = <<>> THEN read
            ELSE [read EXCEPT !.owed = IF field = <<"R">> THEN 2 ELSE 1]

\* The last field is read only when a path is owed: a status in its place is
\* not looked at.
ParseNameStatus(fields) ==
  LET read == FoldLeft(TakeField, [owed |-> 0, paths |-> <<>>, bad |-> FALSE], Front(fields))
      all == IF read.owed > 0 THEN TakeField(read, Last(fields)) ELSE read
  IN  IF all.owed > 0 THEN Malformed ELSE all

\* Everything is asked for, a revision is missing, Git fails, its output lacks
\* the last path, ends right after the last change's status, or is complete.
Event == {"forced", "no_revision", "git_fails", "cut", "cut_status", "diff"}
Output(how, changes) ==
  CASE how = "cut" -> Append(Front(Front(Fields(changes))), <<>>)
    [] how = "cut_status" -> Append(Front(Fields(Front(changes))), Last(changes).kind)
    [] OTHER -> Fields(changes)

Read(how, changes) == ParseNameStatus(Output(how, changes))

\* The list, or that there is none.
ChangedPaths(how, changes) ==
  IF how \in {"forced", "no_revision", "git_fails"} THEN Malformed ELSE Read(how, changes)

Select(read) == IF read.bad THEN Suite ELSE Classify(read.paths)
ReviewRequired(read) == read.bad \/ RequiresReview(read.paths)

=============================================================================
