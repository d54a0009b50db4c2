------------------------ MODULE RefOperationContract ------------------------
(***************************************************************************)
(* What the ref-operation journal promises to the rest of Jeryu, without   *)
(* saying how: a Git ref change, the catalog change that goes with it and  *)
(* the event that announces it happen together or not at all, one          *)
(* operation of a repository at a time.  An operation whose fate cannot be *)
(* established is quarantined and its repository accepts no other.         *)
(***************************************************************************)
EXTENDS Naturals

CONSTANTS
  Ops,   \* operation ids
  Repos  \* repository ids

VARIABLES
  phase,      \* the fate of each operation
  repoOf,     \* the repository of each opened operation
  performed,  \* operations whose Git transaction took effect
  effects,    \* how often the catalog change of each operation was made
  announced   \* operations with an event for delivery

vars == <<phase, repoOf, performed, effects, announced>>

Unresolved == {"open", "quarantined"}

Init ==
  /\ phase = [o \in Ops |-> "none"]
  /\ repoOf \in [Ops -> Repos]
  /\ performed = {}
  /\ effects = [o \in Ops |-> 0]
  /\ announced = {}

Open(o, r) ==
  /\ phase[o] = "none"
  /\ \A p \in Ops : repoOf[p] = r => phase[p] \notin Unresolved
  /\ phase' = [phase EXCEPT ![o] = "open"]
  /\ repoOf' = [repoOf EXCEPT ![o] = r]
  /\ UNCHANGED <<performed, effects, announced>>

\* Git takes the change while its fate is still undecided.
Perform(o) ==
  /\ phase[o] \in Unresolved
  /\ o \notin performed
  /\ performed' = performed \cup {o}
  /\ UNCHANGED <<phase, repoOf, effects, announced>>

Commit(o) ==
  /\ phase[o] = "open"
  /\ o \in performed
  /\ phase' = [phase EXCEPT ![o] = "committed"]
  /\ effects' = [effects EXCEPT ![o] = @ + 1]
  /\ announced' = announced \cup {o}
  /\ UNCHANGED <<repoOf, performed>>

Abort(o) ==
  /\ phase[o] = "open"
  /\ o \notin performed
  /\ phase' = [phase EXCEPT ![o] = "aborted"]
  /\ UNCHANGED <<repoOf, performed, effects, announced>>

Quarantine(o) ==
  /\ phase[o] = "open"
  /\ phase' = [phase EXCEPT ![o] = "quarantined"]
  /\ UNCHANGED <<repoOf, performed, effects, announced>>

Next ==
  \E o \in Ops :
    \/ \E r \in Repos : Open(o, r)
    \/ Perform(o)
    \/ Commit(o)
    \/ Abort(o)
    \/ Quarantine(o)

Spec == Init /\ [][Next]_vars

=============================================================================
