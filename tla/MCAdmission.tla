---------------------------- MODULE MCAdmission ----------------------------
(***************************************************************************)
(* A small instance of every part, with model values shared as in module   *)
(* MCPublishing.                                                           *)
(***************************************************************************)
EXTENDS Admission, TLC

CONSTANTS c1, c2, d1, d2

MCSymmetry == Permutations({c1, c2}) \cup Permutations({d1, d2})
=============================================================================
