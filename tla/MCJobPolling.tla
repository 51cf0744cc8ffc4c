----------------------------- MODULE MCJobPolling -----------------------------
(***************************************************************************)
(* Small instances of JobPolling, with the constants of MCQueryJobs.       *)
(***************************************************************************)
EXTENDS JobPolling, MCQueryJobs
==============================================================================
