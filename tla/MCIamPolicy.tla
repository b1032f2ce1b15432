---------------------------- MODULE MCIamPolicy -----------------------------
(* Instances of IamPolicy for TLC. *)
EXTENDS IamPolicy, TLC

CONSTANTS c1, c2, m1, m2

\* Sound for invariants: nothing in IamPolicy tells clients or members apart.
PolicySymmetry == Permutations(Clients) \cup Permutations(Members)
=============================================================================
