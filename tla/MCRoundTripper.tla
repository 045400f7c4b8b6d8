--------------------------- MODULE MCRoundTripper ---------------------------
(***************************************************************************)
(* Two goroutines share one round tripper; one organisation; two           *)
(* installation ids, so that GitHub can reinstall the app once under a new *)
(* id.                                                                     *)
(***************************************************************************)
EXTENDS RoundTripper, TLC

CONSTANTS g1, g2, o1, i1, i2

MCG == {g1, g2}
MCOrgs == {o1}
MCIds == {i1, i2}
====
