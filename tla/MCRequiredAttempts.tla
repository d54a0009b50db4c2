---------------------------- MODULE MCRequiredAttempts ----------------------------
(***************************************************************************)
(* A small instance of RequiredAttempts: an enrollment covers both         *)
(* contexts of one commit, and the managed ref may be at another.          *)
(***************************************************************************)
EXTENDS RequiredAttempts, TLC

CONSTANTS c1, c2

MCScopeSets == {{c1} \X Contexts}

\* Tokens expire at the last reading of the clock, after the attempts' windows.
MCTokenExpires == [a \in Actors |-> MaxTime]

MCWindows == {<<0, 2>>}

Symmetry == Permutations(Publishers) \cup Permutations(Keys) \cup Permutations(Contexts)

=============================================================================
