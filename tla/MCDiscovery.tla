---------------------------- MODULE MCDiscovery ----------------------------
(* Model values for Discovery: one peer that comes and goes.  Peers meet   *)
(* only in the rounds of the prober and the reaper; the theorems of        *)
(* DiscoveryProofs hold for any number of them.                            *)
EXTENDS Discovery

CONSTANTS p1
MCPeers == {p1}
=============================================================================
