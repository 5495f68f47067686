---------------------------- MODULE MCModelFiles ----------------------------
(* A small instance of ModelFiles for TLC. *)
EXTENDS ModelFiles, TLC

\* A sound export, and one nobody has reviewed.
MCGaps == <<{}, {"human_review"}>>

\* The files do not depend on how far a later export had come when an export
\* was approved: they are followed for one of the cases.
OneApproval == approved # 0 => export = approved

Symmetry == Permutations(Materializer)

=============================================================================
