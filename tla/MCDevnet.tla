------------------------------- MODULE MCDevnet -------------------------------
(***************************************************************************)
(* Small instances of Devnet, and with it of ChainLauncher.                *)
(***************************************************************************)
EXTENDS Devnet
=============================================================================
