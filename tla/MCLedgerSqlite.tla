--------------------------- MODULE MCLedgerSqlite ---------------------------
(* Small instances of LedgerSqlite for TLC. *)
EXTENDS LedgerSqlite, TLC

CONSTANTS s1, s2, r1, r2, r3, r4, alice, bob

\* Alice's three requests do not fit together, any two of them but one
\* pair do; Bob's request has a budget of its own.
MCCallerOf == r1 :> alice @@ r2 :> alice @@ r3 :> alice @@ r4 :> bob
MCAmountOf == r1 :> 2 @@ r2 :> 2 @@ r3 :> 1 @@ r4 :> 1
MCBudgetOf == alice :> 3 @@ bob :> 1

Symmetry == Permutations(Server) \cup Permutations({r1, r2})

=============================================================================
