---------------------------- MODULE MCChainLauncher ----------------------------
(***************************************************************************)
(* Small instances of ChainLauncher.                                       *)
(***************************************************************************)
EXTENDS ChainLauncher
=============================================================================
