------------------------------- MODULE MCPMan -------------------------------
(* Small instances of PMan: a few pids, so that they are reused soon. *)
EXTENDS PMan

CONSTANTS p1, p2, p3

TwoPids == {p1, p2}
ThreePids == {p1, p2, p3}
=============================================================================
