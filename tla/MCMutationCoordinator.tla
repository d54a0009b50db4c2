------------------------ MODULE MCMutationCoordinator ------------------------
(* Three threads and two repositories, named in both orders: enough for a    *)
(* cycle of guards and for a writer between readers that keep coming.        *)
EXTENDS MutationCoordinator

MCIdLists == {<<1, 2>>, <<2, 1>>}

=============================================================================
