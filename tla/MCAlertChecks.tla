---------------------------- MODULE MCAlertChecks ----------------------------
(***************************************************************************)
(* Small instances of AlertChecks.                                         *)
(***************************************************************************)
EXTENDS AlertChecks, TLC

CONSTANTS q1, q2, t1, t2, x1, x2, x3, c1, c2

NothingStored == <<>>

Symmetric == Permutations(Texts) \cup Permutations(Executions)
             \cup Permutations(Checkers)

==============================================================================
