------------------------- MODULE MCMutationAdmission -------------------------
(* Two threads and two repositories over two slugs, every pair of scopes. *)
EXTENDS MutationAdmission, TLC

MCIdLists == UNION {[1..k -> Repos] : k \in 0..2}

Symmetry == Permutations(Threads) \cup Permutations(Names)

=============================================================================
