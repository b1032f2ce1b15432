--------------------------- MODULE MCAccessGrants ---------------------------
(* Instances of AccessGrants for TLC. *)
EXTENDS AccessGrants, TLC

CONSTANTS p1, p2, a1, a2, a3, t1, t2

MCLower == [s \in Subjects |-> IF s = "Alice" THEN "alice" ELSE s]

\* One caller owns every dataset.  "Alice", where she calls too, owns none: she
\* can close only an access of her own.
MCGroupMembers == [d \in Datasets |-> Callers \ {"Alice"}]

MCOnePod == [t \in Threads |-> p1]

AccessSymmetry == Permutations(Accesses)

\* Where the threads are model values, all of one pod.
HandlerSymmetry == AccessSymmetry \cup Permutations(Threads)
=============================================================================
