----------------------------- MODULE MCRelease -----------------------------
(* A small instance of Release for TLC: one path of every kind that the     *)
(* lists tell apart, and two commits that differ in code only.              *)
EXTENDS Release

CONSTANTS v1, v2

MCPath ==
  {<<"src", "api.py">>, <<"src", "notes.md">>,
   <<"config", "training.yaml">>, <<"config", "publication.yaml">>,
   <<"uv.lock">>, <<"scripts", "container_smoke.py">>,
   <<"scripts", "check_security_report.py">>, <<"scripts", "download_model.py">>,
   <<".github", "workflows", "ci.yml">>, <<".github", "workflows", "notes.md">>,
   <<"docs", "CI.md">>, <<"tests", "conftest.py">>, <<"LICENSE">>}

CutPath == {<<"src", "api.py">>, <<"docs", "CI.md">>}

MCMarkdown == {"notes.md", "CI.md"}

Symmetry == Permutations(Version)

MCTree == <<"t", "t">>

=============================================================================
