---------------------------- MODULE MCPublicWrites ----------------------------
(***************************************************************************)
(* A small instance of PublicWrites.                                       *)
(***************************************************************************)
EXTENDS PublicWrites, TLC

DeploymentSet == {1, 2}
(* One of the two is in order, so that a verdict on the wrong one shows. *)
AuthoritySet == {{1}, {2}}
(* Every block has an event of one, and is quiet for the other. *)
EventSet == {{1}, {2}}
=============================================================================
