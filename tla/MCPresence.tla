----------------------------- MODULE MCPresence -----------------------------
(* Model values for Presence.                                              *)
EXTENDS Presence

CONSTANTS p1, p2
OnePeer == {p1}
TwoPeers == {p1, p2}
=============================================================================
