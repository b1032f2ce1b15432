---------------------------- MODULE MCPublishing ----------------------------
(***************************************************************************)
(* A small instance of every part. The parts share their model values, so  *)
(* that a permutation of those acts on all of them: the calls c1 and c2,   *)
(* and the things d1 and d2, are alike wherever they are used. What AtRest *)
(* chooses from is never one of these.                                     *)
(***************************************************************************)
EXTENDS Publishing, TLC

CONSTANTS c1, c2, d1, d2, n1, n2, ga, gb, u1, u2

MCOwnersOf == [s \in Sources |-> IF s > 1 THEN ga ELSE gb]
MCGroupsOf == [u \in {u1} |-> {ga}]

MCMemberOfGroups == [u \in {u1, u2} |-> IF u = u1 THEN {ga, gb} ELSE {gb}]
MCProjectGroup == [t \in Tables |-> ga]
MCPiiChoices == {columns \in SUBSET Columns : Cardinality(columns) < 2}

\* Renaming a keyword to itself does nothing.
MCRenamings == {r \in Words \X Words : r[1] # r[2]}

MCSymmetry == Permutations({c1, c2}) \cup Permutations({d1, d2})
              \cup Permutations({n1, n2})
=============================================================================
