----------------------------- MODULE MCReceive -----------------------------
(* Model values for Receive. *)
EXTENDS Receive

CONSTANTS c1, c2

OneConn == {c1}
TwoConns == {c1, c2}
=============================================================================
