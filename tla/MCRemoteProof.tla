----------------------------- MODULE MCRemoteProof -----------------------------
\* Two applications, one job each, sharing the slot directory.
EXTENDS RemoteProof, TLC

CONSTANTS j1, j2, a1, a2
MCAppOf == (j1 :> a1) @@ (j2 :> a2)
================================================================================
