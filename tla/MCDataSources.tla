----------------------------- MODULE MCDataSources -----------------------------
(***************************************************************************)
(* A small instance of DataSources.                                        *)
(***************************************************************************)
EXTENDS DataSources, TLC

CONSTANTS q1, q3, t1, t3, t0, x1, x2, x3

\* An old result of the data source that may be deleted, and one of another.
OldResults == x2 :> t1 @@ x3 :> t3

==============================================================================
