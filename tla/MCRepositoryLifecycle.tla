------------------------ MODULE MCRepositoryLifecycle ------------------------
(* Creation requests for one slug and for the slug its repositories move    *)
(* to, and deletion handlers.                                                *)
EXTENDS RepositoryLifecycle, TLC

CONSTANT LaterKeys  \* the keys whose requests ask for the second slug

FirstName == CHOOSE n \in Names : TRUE
SecondName == CHOOSE n \in Names : n # FirstName

MCWanted == [k \in Keys |-> IF k \in LaterKeys THEN SecondName ELSE FirstName]

Symmetry ==
  Permutations(Keys \ LaterKeys) \cup Permutations(LaterKeys)
    \cup Permutations(Ids) \cup Permutations(Deleters)

=============================================================================
