----------------------------- MODULE MCJobList -----------------------------
(* Small instances of JobList: a few pids and addresses, so that both are reused. *)
EXTENDS JobList

CONSTANTS p1, p2, p3, a1, a2, a3

ThreePids == {p1, p2, p3}
ThreeAddresses == {a1, a2, a3}
=============================================================================
