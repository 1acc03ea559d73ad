------------------------------- MODULE MCMux -------------------------------
(* Small instances of Mux. *)
EXTENDS Mux

OneAndNone == [e \in Ends |-> IF e = "initiator" THEN 1 ELSE 0]
TwoAndOne == [e \in Ends |-> IF e = "initiator" THEN 2 ELSE 1]
TheInitiator == {"initiator"}
TheResponder == {"responder"}

(* Frames of the initiator on its streams 0 and 2 and on stream 1, then of *)
(* the responder on streams 0 and 1.                                       *)
Budget(a, b, c, d, f) == [e \in Ends |-> [i \in Ids |->
    IF e = "initiator" THEN (IF i = 0 THEN a ELSE IF i = 2 THEN b ELSE c)
    ELSE IF i = 0 THEN d ELSE IF i = 1 THEN f ELSE 0]]

(* Two streams one way; one stream each way with an answer; a long one. *)
MCBudgets == {Budget(2, 1, 0, 0, 0), Budget(1, 0, 0, 1, 1), Budget(3, 0, 0, 0, 0)}
OneFrame == {Budget(1, 0, 0, 0, 0)}
TheAcceptor == {<<"responder", 0>>}
=============================================================================
