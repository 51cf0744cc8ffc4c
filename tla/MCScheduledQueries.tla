--------------------------- MODULE MCScheduledQueries ---------------------------
(***************************************************************************)
(* Instances of ScheduledQueries for TLC.                                  *)
(***************************************************************************)
EXTENDS ScheduledQueries

CONSTANTS x1, x2, r1, r2

\* The queries have one template, with different parameter values.
SameTemplate  == [q \in Queries |-> 1]
TextOfItsOwn  == [q \in Queries |-> q]
==============================================================================
