--------------------------- MODULE MCRefOperations ---------------------------
(* Two repositories, a merge between them, a ref update and a reused key. *)
EXTENDS RefOperations, TLC

CONSTANTS a, b, k1, k2, main, x, y

Change(e, r) == [expected |-> e, result |-> r]

Update == [repo |-> a, source |-> a, key |-> k1,
           changes |-> main :> Change(x, y)]

\* The same key with other content.
Clash == [repo |-> a, source |-> a, key |-> k1,
          changes |-> main :> Change(y, Absent)]

\* A merge of b's branch into a.
Merge == [repo |-> a, source |-> b, key |-> k2,
          changes |-> main :> Change(x, y)]

MCIntents == {Update, Clash, Merge}

OpSymmetry == Permutations(Ops)

=============================================================================
