------------------------------- MODULE MCJob -------------------------------
(* Two jobs, an owner with room for one or for both, four revisions.       *)
EXTENDS Job
============================================================================
