------------------------------- MODULE MCPools -------------------------------
(***************************************************************************)
(* A small instance of Pools over the AllocationController: two units of   *)
(* weight make six allocations among three beneficiaries.                  *)
(***************************************************************************)
EXTENDS Pools
=============================================================================
