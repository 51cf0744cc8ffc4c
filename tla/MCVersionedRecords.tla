--------------------------- MODULE MCVersionedRecords ---------------------------
(***************************************************************************)
(* Small instances of VersionedRecords: two editors of one record.         *)
(***************************************************************************)
EXTENDS VersionedRecords, TLC

CONSTANTS e1, e2, f1, f2, a, b

Symmetric == Permutations(Editors)

==============================================================================
