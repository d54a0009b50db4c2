---------------------- MODULE MCCommissioningAndLeases ----------------------
(* The commissioning journal and the lease book.  They share nothing, so a    *)
(* behaviour uses the one or the other.                                       *)
(*                                                                            *)
(* Two restores under two keys of a contract, one target each: the first      *)
(* leaves it present, the second absent.  The window is [1, 3) of the times   *)
(* 0..3, so a record may come early, twice in the window, and late.           *)
(*                                                                            *)
(* One job with two attempts, two workers and two epochs of each: every way   *)
(* a holder can differ from the one on record.                                *)
EXTENDS Commissioning, LeaseBook, TLC

CONSTANT j1

MCTimes == 0..3

MCScopes ==
  {[contract |-> "contract", key |-> "first", operator |-> "operator",
    notBefore |-> 1, expires |-> 3, present |-> <<TRUE>>],
   [contract |-> "contract", key |-> "second", operator |-> "other",
    notBefore |-> 1, expires |-> 3, present |-> <<FALSE>>]}

MCRetry == j1 :> 2

JournalUnused == \A o \in Operations : scope[o] = None

BookUnused == issued = {} /\ clock = 0

MCNext ==
  \/ JournalNext /\ BookUnused /\ UNCHANGED vars
  \/ Next /\ JournalUnused /\ UNCHANGED journalVars

MCInit == JournalInit /\ Init

MCSpec == MCInit /\ [][MCNext]_<<journalVars, vars>>

=============================================================================
