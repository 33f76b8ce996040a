--------------------------- MODULE MCOidcSession ---------------------------
(***************************************************************************)
(* Model values for the groups, session tokens and goroutines, and the     *)
(* symmetry of the goroutines.                                             *)
(***************************************************************************)
EXTENDS OidcSession, TLC

CONSTANTS g1, g2, s1, q1, q2

RequestSymmetry == Permutations(Request)
=============================================================================
