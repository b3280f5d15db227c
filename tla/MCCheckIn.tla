----------------------------- MODULE MCCheckIn -----------------------------
(* Small instances of CheckIn: the input files its runs read. *)
EXTENDS CheckInInvariants

Line(i, q) == [id |-> i, class_type |-> q]

OneEconomy == <<Line(1, Economy)>>
TwoBusiness == <<Line(1, Business), Line(2, Business)>>
TwoEconomyOneBusiness == <<Line(1, Economy), Line(2, Economy), Line(3, Business)>>
=============================================================================
