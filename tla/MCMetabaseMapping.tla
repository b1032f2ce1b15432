------------------------- MODULE MCMetabaseMapping --------------------------
(* Instances of MetabaseMapping for TLC. *)
EXTENDS MetabaseMapping, TLC

CONSTANTS p1, g1, g2, c1, d1, d2

MetabaseSymmetry == Permutations({g1, g2}) \cup Permutations({d1, d2})
=============================================================================
