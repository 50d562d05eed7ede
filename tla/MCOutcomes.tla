----------------------------- MODULE MCOutcomes ------------------------------
(* A small instance of Outcomes.                                            *)
EXTENDS Outcomes, TLC

CONSTANTS p1, p2, c1, c2, e1, e2, e3

TwoProcs == {p1, p2}
OneProc  == {p1}
TwoCaps  == {c1, c2}
AllExecs == {e1, e2, e3}
NoProc   == {}

(* Capabilities are interchangeable, and so are execution ids.              *)
Symmetric == Permutations(TwoCaps) \cup Permutations(AllExecs)
=============================================================================
