----------------------------- MODULE MCHostPool -----------------------------
(* The two calls the default budget lets run, one of which has a grace       *)
(* period, on a pool of the default two hosts or of one, which is fewer than *)
(* the calls.  The third process is for what spawn leaves behind and for the *)
(* processes that are dying.                                                 *)
EXTENDS HostPool

CONSTANTS c1, c2, p1, p2, p3

TwoCalls == {c1, c2}
OnePatient == {c1}
ThreeProcs == {p1, p2, p3}
OneOrTwo == 1 .. 2

=============================================================================
