------------------------------ MODULE MCShare ------------------------------
(* Model values for Share: a protected share with a budget of one and an   *)
(* open one without a budget.                                              *)
EXTENDS Share

CONSTANTS a, b, r1, r2, p1

MCTokens == {a, b}
MCProtected == {a}
MCMaxDownloads == [t \in MCTokens |-> IF t = a THEN 1 ELSE 0]
TwoRequests == {r1, r2}
OneIP == {p1}
=============================================================================
