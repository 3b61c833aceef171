----------------------------- MODULE MCProofJobs -----------------------------
(***************************************************************************)
(* Small instances of ProofJobs: limits below the number of jobs, so that  *)
(* the queue fills up, and one stop of the API.                            *)
(***************************************************************************)
EXTENDS ProofJobs
=============================================================================
