----------------------------- MODULE MCDispatch -----------------------------
(* Instances of Dispatch for TLC.                                          *)
EXTENDS Dispatch

CONSTANTS a1, p1, r1, r2, r3

OneProvider == [r \in Requests |-> p1]

AllowAll == {[r \in Requests |-> "allow"]}
Third(v) == [r \in Requests |-> IF r = r3 THEN v ELSE "allow"]
RefuseOne == {Third("deny")}
RefuseEither == {Third("deny"), Third("unresolved")}
=============================================================================
