------------------------------ MODULE MCSend ------------------------------
(* Model values for Send. *)
EXTENDS Send, TLC

CONSTANTS t1, t2, k1, k2, k3

OneTransfer == {t1}
TwoTransfers == {t1, t2}
OneCall == {k1}
TwoCalls == {k1, k2}
ThreeCalls == {k1, k2, k3}
NoResends == {}
OneResend == {k2}
LastResend == {k3}

(* Transfers are alike, and so are the calls that retry nothing. *)
Alike == Permutations(Transfers) \cup Permutations(Calls \ Resends)
=============================================================================
