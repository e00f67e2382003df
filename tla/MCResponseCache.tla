--------------------------- MODULE MCResponseCache ---------------------------
(* Small instances of ResponseCache for TLC. *)
EXTENDS ResponseCache, TLC
CONSTANTS c1, c2, companyA, companyB, today
TwoCalls == {c1, c2}
TwoScopes == {companyA, companyB}
OneQuestion == {today}
CallSymmetry == Permutations(TwoCalls)
=============================================================================
