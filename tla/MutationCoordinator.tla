------------------------- MODULE MutationCoordinator -------------------------
(***************************************************************************)
(* The lock order of Core mutations (jeryu-core, engine/coordinator.rs).   *)
(*                                                                         *)
(* Every mutation holds the authority lock, shared (with_repositories) or  *)
(* exclusive (with_authority), and then the mutex of each repository it    *)
(* names, taken in the order of the UUIDs.  The authority lock is a        *)
(* parking_lot RwLock: a writer first claims it, which stops new readers,  *)
(* and then waits for the present readers to leave.                        *)
(***************************************************************************)
EXTENDS Naturals, Sequences

CONSTANTS
  Threads,
  Repos,     \* UUIDs of repositories, compared as numbers
  IdLists,   \* the lists of UUIDs callers pass: any order, with repetitions
  None

ASSUME ReposAssumption == Repos \subseteq Nat

\* A set of UUIDs has a smallest and a largest element.
ASSUME OrderAssumption ==
  \A S \in SUBSET Repos : S # {} =>
    /\ \E r \in S : \A q \in S : r <= q
    /\ \E r \in S : \A q \in S : q <= r

ASSUME IdListsAssumption == IdLists \subseteq Seq(Repos)

ASSUME NoneAssumption == None \notin Threads

VARIABLES
  pc,       \* where each thread is
  mode,     \* "read" or "write" access to authority
  ids,      \* the list the thread passed
  held,     \* the repository mutexes the thread holds
  readers,  \* the threads inside authority.read()
  writer    \* the thread that has claimed authority.write(), or None

lockVars == <<pc, mode, ids, held, readers, writer>>

Init ==
  /\ pc = [t \in Threads |-> "idle"]
  /\ mode = [t \in Threads |-> "read"]
  /\ ids = [t \in Threads |-> <<>>]
  /\ held = [t \in Threads |-> {}]
  /\ readers = {}
  /\ writer = None

Named(t) == {ids[t][i] : i \in DOMAIN ids[t]}

Least(S) == CHOOSE r \in S : \A q \in S : r <= q

\* A call of with_repositories (m = "read") or of with_authority ("write").
Call(t, m, list) ==
  /\ pc[t] = "idle"
  /\ pc' = [pc EXCEPT ![t] = "authority"]
  /\ mode' = [mode EXCEPT ![t] = m]
  /\ ids' = [ids EXCEPT ![t] = list]
  /\ UNCHANGED <<held, readers, writer>>

ReadUnderWriter(t) ==
  /\ pc[t] = "authority"
  /\ mode[t] = "read"
  /\ readers' = readers \cup {t}
  /\ pc' = [pc EXCEPT ![t] = "guards"]
  /\ UNCHANGED <<mode, ids, held, writer>>

\* authority.read(): waits for a writer, also for one that is itself waiting.
Read(t) ==
  /\ pc[t] = "authority"
  /\ mode[t] = "read"
  /\ writer = None
  /\ readers' = readers \cup {t}
  /\ pc' = [pc EXCEPT ![t] = "guards"]
  /\ UNCHANGED <<mode, ids, held, writer>>

\* authority.write(): no other writer, ...
Claim(t) ==
  /\ pc[t] = "authority"
  /\ mode[t] = "write"
  /\ writer = None
  /\ writer' = t
  /\ pc' = [pc EXCEPT ![t] = "drain"]
  /\ UNCHANGED <<mode, ids, held, readers>>

\* ... and no reader left.
Drain(t) ==
  /\ pc[t] = "drain"
  /\ readers = {}
  /\ pc' = [pc EXCEPT ![t] = "guards"]
  /\ UNCHANGED <<mode, ids, held, readers, writer>>

NextGuardInCallOrder(t) ==
  ids[t][CHOOSE i \in DOMAIN ids[t] :
           /\ ids[t][i] \notin held[t]
           /\ \A j \in DOMAIN ids[t] : j < i => ids[t][j] \in held[t]]

\* The list is sorted and its repetitions are dropped, so the next mutex a
\* thread waits for is the smallest it does not hold.
NextGuard(t) == Least(Named(t) \ held[t])

Free(r) == \A u \in Threads : r \notin held[u]

\* Lock one more repository mutex.  The mutexes were fetched from the registry,
\* which was unlocked before; a registered mutex is never replaced, so a
\* repository stands for its mutex.
Guard(t) ==
  /\ pc[t] = "guards"
  /\ Named(t) \ held[t] # {}
  /\ Free(NextGuard(t))
  /\ held' = [held EXCEPT ![t] = @ \cup {NextGuard(t)}]
  /\ UNCHANGED <<pc, mode, ids, readers, writer>>

\* All guards are held: the closure starts.
Enter(t) ==
  /\ pc[t] = "guards"
  /\ Named(t) \subseteq held[t]
  /\ pc' = [pc EXCEPT ![t] = "running"]
  /\ UNCHANGED <<mode, ids, held, readers, writer>>

\* The closure returns, with an error or without, or panics.
Return(t) ==
  /\ pc[t] = "running"
  /\ pc' = [pc EXCEPT ![t] = "leaving"]
  /\ UNCHANGED <<mode, ids, held, readers, writer>>

\* The guards are dropped one after the other, ...
Unlock(t) ==
  /\ pc[t] = "leaving"
  /\ held[t] # {}
  /\ held' = [held EXCEPT ![t] = @ \ {Least(held[t])}]
  /\ UNCHANGED <<pc, mode, ids, readers, writer>>

\* ... and the authority lock last.
Leave(t) ==
  /\ pc[t] = "leaving"
  /\ held[t] = {}
  /\ readers' = readers \ {t}
  /\ writer' = IF writer = t THEN None ELSE writer
  /\ pc' = [pc EXCEPT ![t] = "idle"]
  /\ mode' = [mode EXCEPT ![t] = "read"]
  /\ ids' = [ids EXCEPT ![t] = <<>>]
  /\ UNCHANGED held

Step(t) ==
  \/ Read(t)
  \/ Claim(t)
  \/ Drain(t)
  \/ Guard(t)
  \/ Enter(t)
  \/ Return(t)
  \/ Unlock(t)
  \/ Leave(t)

Next ==
  \E t \in Threads :
    \/ \E m \in {"read", "write"}, list \in IdLists : Call(t, m, list)
    \/ Step(t)

Spec == Init /\ [][Next]_lockVars

\* A closure returns.  parking_lot hands a lock over to a waiter that has waited
\* for some time, so a thread that waits for a lock that becomes free again and
\* again gets it.
Fairness ==
  \A t \in Threads :
    /\ WF_lockVars(Drain(t) \/ Enter(t) \/ Return(t) \/ Unlock(t) \/ Leave(t))
    /\ SF_lockVars(Read(t))
    /\ SF_lockVars(Claim(t))
    /\ SF_lockVars(Guard(t))

FairSpec == Spec /\ Fairness

-----------------------------------------------------------------------------

Places == {"idle", "authority", "drain", "guards", "running", "leaving"}

\* Where a thread is says which locks it has.
TypeOK ==
  /\ pc \in [Threads -> Places]
  /\ mode \in [Threads -> {"read", "write"}]
  /\ ids \in [Threads -> Seq(Repos)]
  /\ held \in [Threads -> SUBSET Repos]
  /\ readers \subseteq Threads
  /\ writer \in Threads \cup {None}
  /\ \A t \in Threads :
       /\ pc[t] = "drain" => mode[t] = "write"
       /\ (t \in readers) = (mode[t] = "read" /\ pc[t] \in {"guards", "running", "leaving"})
       /\ (t = writer) = (mode[t] = "write" /\ pc[t] \in {"drain", "guards", "running", "leaving"})
       /\ pc[t] \in {"idle", "authority", "drain"} => held[t] = {}

Running(t) == pc[t] = "running"

\* What the callbacks rely on: a mutation that runs under with_authority runs
\* alone, and two that run under with_repositories name no common repository.
MutationsExclude ==
  \A t, u \in Threads : t # u /\ Running(t) /\ Running(u) =>
    /\ mode[t] = "read"
    /\ mode[u] = "read"
    /\ Named(t) \cap Named(u) = {}

Blocked(t) ==
  \/ pc[t] = "authority" /\ writer # None
  \/ pc[t] = "drain" /\ readers # {}
  \/ pc[t] = "guards" /\ Named(t) \ held[t] # {} /\ ~Free(NextGuard(t))

\* However the calls overlap, also calls that name two repositories in opposite
\* orders or one twice, and calls behind a waiting writer: not all of the
\* threads inside the coordinator wait for each other.
NoDeadlock ==
  (\E t \in Threads : pc[t] # "idle") => \E t \in Threads : pc[t] # "idle" /\ ~Blocked(t)

\* Every mutation that asks for its locks gets to run.
EveryMutationRuns ==
  \A t \in Threads : pc[t] = "authority" ~> Running(t)

=============================================================================
