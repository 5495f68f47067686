----------------------------- MODULE MCInference -----------------------------
(* Small instances of Inference for TLC. *)
EXTENDS Inference, TLC

CONSTANTS c1, c2, c3, p1, p2, p3

\* Processes are interchangeable; so are the calls of generate.
Symmetry == Permutations(Pid) \cup Permutations(Call \ CountCall)

=============================================================================
