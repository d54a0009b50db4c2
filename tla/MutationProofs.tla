--------------------------- MODULE MutationProofs ---------------------------
(***************************************************************************)
(* Exclusion and freedom from deadlock of the mutation coordinator, and    *)
(* what admission relies on, for any threads, repositories, slugs and      *)
(* lists.                                                                  *)
(***************************************************************************)
EXTENDS MutationAdmission, SequenceTheorems, TLAPS

\* What the locks guarantee: a thread holds only what it named, no mutex is held
\* twice, a closure runs with all its guards, readers are out once a writer has
\* drained them, and a thread only waits for a mutex above those it holds.
Guarded ==
  /\ \A t \in Threads : held[t] \subseteq Named(t)
  /\ \A t, u \in Threads : t # u => held[t] \cap held[u] = {}
  /\ \A t \in Threads : Running(t) => Named(t) \subseteq held[t]
  /\ \A t \in Threads : t = writer /\ pc[t] # "drain" => readers = {}
  /\ \A t \in Threads : pc[t] = "guards" =>
       \A h \in held[t], w \in Named(t) \ held[t] : h < w

IInv == TypeOK /\ Guarded

\* The least element of a set of UUIDs.
LEMMA LeastIsLeast ==
  ASSUME NEW S \in SUBSET Repos, S # {}
  PROVE  Least(S) \in S /\ \A q \in S : Least(S) <= q
BY OrderAssumption DEF Least

\* The UUIDs a thread names are repositories.
LEMMA NamedAreRepos ==
  ASSUME TypeOK, NEW t \in Threads
  PROVE  Named(t) \subseteq Repos
BY DEF TypeOK, Named

\* Nobody holds a guard at first.
LEMMA InitInv == Init => IInv
BY NoneAssumption DEF Init, IInv, TypeOK, Guarded, Places, Named, Running

\* A call preserves the invariant.
LEMMA CallInv ==
  ASSUME IInv, NEW t \in Threads, NEW m \in {"read", "write"}, NEW list \in Seq(Repos),
         Call(t, m, list)
  PROVE  IInv'
<1>1. TypeOK'
  BY ZenonT(30) DEF IInv, TypeOK, Call, Places
<1>2. held[t] = {} /\ held' = held
  BY DEF IInv, TypeOK, Call
<1>3. \A u \in Threads : u # t => Named(u)' = Named(u) /\ pc'[u] = pc[u]
  BY DEF IInv, TypeOK, Call, Named
<1>4. pc'[t] = "authority" /\ writer' = writer /\ readers' = readers
  BY DEF IInv, TypeOK, Call
<1>5. t # writer
  BY ZenonT(30) DEF IInv, TypeOK, Call
<1>6. Guarded'
  BY <1>2, <1>3, <1>4, <1>5 DEF IInv, Guarded, Running
<1> QED BY <1>1, <1>6 DEF IInv

\* Until it leaves, a thread names the same repositories.
LEMMA NamedStays ==
  ASSUME ids' = ids
  PROVE  \A t \in Threads : Named(t)' = Named(t)
BY DEF Named

\* The steps on the authority lock preserve the invariant.
LEMMA AuthorityInv ==
  ASSUME IInv, NEW t \in Threads, Read(t) \/ Claim(t) \/ Drain(t)
  PROVE  IInv'
<1>0. held[t] = {} /\ held' = held
  BY ZenonT(30) DEF IInv, TypeOK, Read, Claim, Drain
<1>1. \A u \in Threads : Named(u)' = Named(u)
  BY NamedStays DEF Read, Claim, Drain
<1>2. \A u \in Threads : u # t => pc'[u] = pc[u]
  BY ZenonT(30) DEF IInv, TypeOK, Read, Claim, Drain
<1>3. pc'[t] \in {"guards", "drain"}
  BY ZenonT(30) DEF IInv, TypeOK, Read, Claim, Drain
<1>4. TypeOK'
  <2>1. CASE Read(t)
    BY <2>1 DEF IInv, TypeOK, Read, Places
  <2>2. CASE Claim(t)
    BY ZenonT(30), <2>2, NoneAssumption DEF IInv, TypeOK, Claim, Places
  <2>3. CASE Drain(t)
    BY <2>3 DEF IInv, TypeOK, Drain, Places
  <2> QED BY <2>1, <2>2, <2>3
<1>5. \A u \in Threads : u = writer' /\ pc'[u] # "drain" => readers' = {}
  <2>1. CASE Read(t)
    BY ZenonT(30), <2>1, NoneAssumption DEF IInv, TypeOK, Read
  <2>2. CASE Claim(t)
    BY ZenonT(30), <2>2 DEF IInv, TypeOK, Claim
  <2>3. CASE Drain(t)
    BY ZenonT(30), <2>3 DEF IInv, TypeOK, Drain, Guarded
  <2> QED BY <2>1, <2>2, <2>3
<1>6. Guarded'
  BY <1>0, <1>1, <1>2, <1>3, <1>5 DEF IInv, Guarded, Running
<1> QED BY <1>4, <1>6 DEF IInv

\* Taking the next guard preserves the invariant: guards are taken in the
\* order of the ids, so all that a thread holds are below the one it takes.
LEMMA GuardInv ==
  ASSUME IInv, NEW t \in Threads, Guard(t)
  PROVE  IInv'
<1> DEFINE g == NextGuard(t)
<1>1. \A u \in Threads : Named(u)' = Named(u)
  BY NamedStays DEF Guard
<1>2. Named(t) \ held[t] \in SUBSET Repos
  BY NamedAreRepos DEF IInv
<1>3. g \in Named(t) \ held[t] /\ \A q \in Named(t) \ held[t] : g <= q
  BY ZenonT(30), <1>2, LeastIsLeast DEF Guard, NextGuard
<1>4. g \in Repos
  BY <1>2, <1>3
<1>5. \A u \in Threads : g \notin held[u]
  BY DEF Guard, Free
<1>6. held' = [held EXCEPT ![t] = @ \cup {g}]
  BY DEF Guard
<1> HIDE DEF g
<1>7. TypeOK'
  BY <1>4, <1>6 DEF IInv, TypeOK, Guard
<1>8. \A u \in Threads : held'[u] = IF u = t THEN held[t] \cup {g} ELSE held[u]
  BY <1>6 DEF IInv, TypeOK
<1>9. pc' = pc /\ pc[t] = "guards" /\ writer' = writer /\ readers' = readers
  BY DEF Guard
<1>10. \A h \in held'[t], w \in Named(t) \ held'[t] : h < w
  <2> SUFFICES ASSUME NEW h \in held'[t], NEW w \in Named(t) \ held'[t]
              PROVE  h < w
    OBVIOUS
  <2>1. w \in Named(t) \ held[t] /\ w # g
    BY <1>8
  <2>2. w \in Nat /\ g \in Nat
    BY ZenonT(30), <1>2, <1>4, <2>1, ReposAssumption
  <2>3. CASE h = g
    BY <2>1, <2>2, <2>3, <1>3
  <2>4. CASE h \in held[t]
    BY ZenonT(30), <2>1, <2>4, <1>9 DEF IInv, Guarded
  <2> QED BY <2>3, <2>4, <1>8
<1>11. Guarded'
  <2>1. \A u \in Threads : held'[u] \subseteq Named(u)'
    BY <1>1, <1>3, <1>8 DEF IInv, Guarded
  <2>2. \A u, v \in Threads : u # v => held'[u] \cap held'[v] = {}
    BY <1>5, <1>8 DEF IInv, Guarded
  <2>3. \A u \in Threads : Running(u)' => Named(u)' \subseteq held'[u]
    BY ZenonT(30), <1>1, <1>8, <1>9 DEF IInv, Guarded, Running
  <2>4. \A u \in Threads : u = writer' /\ pc'[u] # "drain" => readers' = {}
    BY <1>9 DEF IInv, Guarded
  <2>5. \A u \in Threads : pc'[u] = "guards" =>
          \A h \in held'[u], w \in Named(u)' \ held'[u] : h < w
    BY ZenonT(30), <1>1, <1>8, <1>9, <1>10 DEF IInv, Guarded
  <2> QED BY ZenonT(30), <2>1, <2>2, <2>3, <2>4, <2>5 DEF Guarded
<1> QED BY <1>7, <1>11 DEF IInv

\* The start and the return of the callback preserve the invariant.
LEMMA RunInv ==
  ASSUME IInv, NEW t \in Threads, Enter(t) \/ Return(t)
  PROVE  IInv'
<1>1. \A u \in Threads : Named(u)' = Named(u)
  BY NamedStays DEF Enter, Return
<1>2. TypeOK'
  <2>1. CASE Enter(t)
    BY ZenonT(30), <2>1 DEF IInv, TypeOK, Enter, Places
  <2>2. CASE Return(t)
    BY <2>2 DEF IInv, TypeOK, Return, Places
  <2> QED BY <2>1, <2>2
<1>3. \A u \in Threads : u # t => pc'[u] = pc[u]
  BY ZenonT(30) DEF IInv, TypeOK, Enter, Return
<1>4. /\ pc[t] \in {"guards", "running"} /\ pc'[t] \in {"running", "leaving"}
      /\ held' = held /\ writer' = writer /\ readers' = readers
  BY ZenonT(30) DEF IInv, TypeOK, Enter, Return
<1>5. pc'[t] = "running" => Named(t) \subseteq held[t]
  BY ZenonT(30) DEF IInv, TypeOK, Enter, Return
<1>6. Guarded'
  BY <1>1, <1>3, <1>4, <1>5 DEF IInv, Guarded, Running
<1> QED BY <1>2, <1>6 DEF IInv

\* The release of the guards preserves the invariant.
LEMMA ReleaseInv ==
  ASSUME IInv, NEW t \in Threads, Unlock(t) \/ Leave(t)
  PROVE  IInv'
<1>1. /\ \A u \in Threads : u # t => Named(u)' = Named(u)
      /\ Unlock(t) => Named(t)' = Named(t)
      /\ Leave(t) => held'[t] = {}
  BY DEF IInv, TypeOK, Unlock, Leave, Named
<1>2. TypeOK'
  <2>1. CASE Unlock(t)
    BY ZenonT(30), <2>1 DEF IInv, TypeOK, Unlock, Places
  <2>2. CASE Leave(t)
    BY <2>2, NoneAssumption DEF IInv, TypeOK, Leave, Places
  <2> QED BY <2>1, <2>2
<1>3. \A u \in Threads : u # t => pc'[u] = pc[u] /\ held'[u] = held[u]
  BY ZenonT(30) DEF IInv, TypeOK, Unlock, Leave
<1>4. held'[t] \subseteq held[t] /\ pc[t] = "leaving" /\ pc'[t] \in {"leaving", "idle"}
  BY DEF IInv, TypeOK, Unlock, Leave
<1>5. readers' \subseteq readers /\ \A u \in Threads : u = writer' => u = writer
  BY NoneAssumption DEF Unlock, Leave
<1>6. Guarded'
  BY <1>1, <1>3, <1>4, <1>5 DEF IInv, Guarded, Running
<1> QED BY <1>2, <1>6 DEF IInv

\* Every step of the coordinator preserves the inductive invariant.
LEMMA NextInv == IInv /\ [Next]_lockVars => IInv'
<1> SUFFICES ASSUME IInv, [Next]_lockVars PROVE IInv'
  OBVIOUS
<1>1. CASE Next
  BY ZenonT(30), <1>1, IdListsAssumption, CallInv, AuthorityInv, GuardInv, RunInv, ReleaseInv DEF Next, Step
<1>2. CASE UNCHANGED lockVars
  BY <1>2 DEF lockVars, IInv, TypeOK, Guarded, Named, Running
<1> QED BY <1>1, <1>2

\* The inductive invariant.
THEOREM Invariance == Spec => []IInv
BY InitInv, NextInv, PTL DEF Spec

\* Where a thread is says which locks it has.
THEOREM TypeCorrect == Spec => []TypeOK
BY Invariance, PTL DEF IInv

\* Two callbacks that run at once name no repository in common, for each
\* holds the guards of all that it names.
LEMMA InvExcludes == IInv => MutationsExclude
BY DEF IInv, TypeOK, Guarded, MutationsExclude, Running

\* A mutation under with_authority runs alone, and two under with_repositories
\* run together only on different repositories.
THEOREM Exclusion == Spec => []MutationsExclude
BY InvExcludes, Invariance, PTL

\* A thread that waits for a repository mutex, while nobody inside the
\* coordinator can step, waits for a reader that waits for a higher one.
LEMMA WaitsUpward ==
  ASSUME IInv, \A u \in Threads : pc[u] # "idle" => Blocked(u),
         NEW t \in Threads, pc[t] = "guards"
  PROVE  \E u \in Threads : pc[u] = "guards" /\ NextGuard(t) < NextGuard(u)
<1>1. Named(t) \ held[t] # {} /\ ~Free(NextGuard(t))
  BY DEF Blocked
<1>2. PICK u \in Threads : NextGuard(t) \in held[u]
  BY <1>1 DEF Free
<1>3. pc[u] = "guards"
  BY ZenonT(30), <1>2 DEF IInv, TypeOK, Places, Blocked
<1>4. Named(u) \ held[u] # {} /\ Named(u) \ held[u] \in SUBSET Repos
  BY <1>3, NamedAreRepos DEF Blocked, IInv
<1>5. NextGuard(u) \in Named(u) \ held[u]
  BY <1>4, LeastIsLeast DEF NextGuard
<1>6. NextGuard(t) < NextGuard(u)
  BY ZenonT(30), <1>2, <1>3, <1>5 DEF IInv, Guarded
<1> QED BY <1>3, <1>6

\* Sorted locking and the writer's claim rule out that all threads inside the
\* coordinator wait for each other.
THEOREM DeadlockFree == Spec => []NoDeadlock
<1>1. IInv => NoDeadlock
  <2> SUFFICES ASSUME IInv, NEW a \in Threads, pc[a] # "idle",
                      \A u \in Threads : pc[u] # "idle" => Blocked(u)
               PROVE  FALSE
    BY DEF NoDeadlock
  <2>1. \E t \in Threads : pc[t] = "guards"
    <3>1. CASE writer = None
      BY ZenonT(30), <3>1 DEF IInv, TypeOK, Places, Blocked
    <3>2. CASE writer # None
      <4>1. writer \in Threads /\ pc[writer] \in {"drain", "guards"}
        BY ZenonT(30), <3>2 DEF IInv, TypeOK, Blocked
      <4>2. CASE pc[writer] = "drain"
        BY ZenonT(30), <4>1, <4>2 DEF IInv, TypeOK, Blocked
      <4> QED BY <4>1, <4>2
    <3> QED BY <3>1, <3>2
  <2> DEFINE W == {t \in Threads : pc[t] = "guards"}
             N == {NextGuard(t) : t \in W}
  <2>2. \A t \in W : NextGuard(t) \in Repos
    <3> SUFFICES ASSUME NEW t \in W PROVE NextGuard(t) \in Repos
      BY ZenonT(30)
    <3>1. Named(t) \ held[t] # {} /\ Named(t) \ held[t] \in SUBSET Repos
      BY NamedAreRepos DEF Blocked, IInv
    <3> QED BY <3>1, LeastIsLeast DEF NextGuard
  <2>3. N # {} /\ N \in SUBSET Repos
    BY <2>1, <2>2
  <2>4. PICK m \in N : \A q \in N : q <= m
    BY ZenonT(30), <2>3, OrderAssumption
  <2>5. PICK t \in W : m = NextGuard(t)
    BY <2>4
  <2>6. PICK u \in W : NextGuard(t) < NextGuard(u)
    BY WaitsUpward
  <2>7. NextGuard(u) <= NextGuard(t) /\ NextGuard(u) \in Nat /\ NextGuard(t) \in Nat
    BY ZenonT(30), <2>2, <2>4, <2>5, ReposAssumption
  <2> QED BY <2>6, <2>7
<1> QED BY <1>1, Invariance, PTL

-----------------------------------------------------------------------------
(* Admission *)

Named3 == {"write", "delete", "comment"}
Scopes == Named3 \cup {"global", "audit", "transfer", "block", "create", "reserve", "close"}

\* What a thread asked for says which locks it asked for.
CallOK(t) ==
  LET c == call[t]
  IN  /\ c.scope \in Named3 =>
           /\ c.names \in NameLists
           /\ DOMAIN c.hints = DOMAIN c.names
           /\ ids[t] = c.hints
      /\ c.scope = "delete" => mode[t] = "write" /\ Len(c.names) = 1
      /\ c.scope = "comment" => c.author \in Users /\ (mode[t] = "write" \/ c.author \in users)
      /\ c.scope \in {"global", "transfer", "block", "create", "reserve", "close"} => mode[t] = "write"
      /\ c.scope = "global" => c.author \in Users
      /\ c.scope \in {"transfer", "create"} => c.id \in Repos /\ c.name \in Names
      /\ c.scope = "block" => c.id \in Repos /\ c.block \in {"read_only", "reconciliation"}
      /\ c.scope \in Scopes \cup {"none"}
      /\ pc[t] \in {"idle", "leaving"} <=> c.scope = "none"

CatalogInv ==
  /\ catalog \in [Names -> Repos \cup {None}]
  /\ aliases \in [Names -> Repos \cup {None}]
  /\ creations \subseteq Repos
  /\ \A n \in Names : catalog[n] # None => catalog[n] \in creations
  /\ blocks \in [Repos -> {"none", "read_only", "reconciliation"}]
  /\ users \subseteq Users
  /\ barrier \in BOOLEAN
  /\ OneSlugPerRepository

\* A transfer that was admitted finds its repository in the catalog.
TransferListed == \A t \in admitted : call[t].scope = "transfer" => call[t].id \in Listed

CallsInv ==
  /\ TransferListed
  /\ DOMAIN call = Threads
  /\ admitted \subseteq Threads
  /\ \A t \in admitted : Running(t)
  /\ \A t \in Threads : CallOK(t)

AdmissionInv == /\ IInv
                /\ CatalogInv
                /\ CallsInv
                /\ AdmissionHoldsThroughout
                /\ BarrierDrainsCallbacks

\* What AdmissionHoldsThroughout says of one call, with the guards it holds.
Holding(c, guards, cat, blk) ==
  /\ c.scope \in Named3 =>
       /\ \A i \in DOMAIN c.names : /\ cat[c.names[i]] = c.hints[i]
                                    /\ c.hints[i] \in guards
                                    /\ blk[c.hints[i]] # "reconciliation"
       /\ blk[c.hints[1]] = "none"
  /\ c.scope = "transfer" => blk[c.id] = "none"

\* What the property says of an admitted mutation, with the state as a
\* parameter.
LEMMA HoldingNow ==
  AdmissionHoldsThroughout => \A u \in admitted : Holding(call[u], held[u], catalog, blocks)
  BY ZenonT(30) DEF AdmissionHoldsThroughout, Holding, Named3

\* The same after a step.
LEMMA HoldingNext ==
  (\A u \in admitted' : Holding(call'[u], held'[u], catalog', blocks')) => AdmissionHoldsThroughout'
  BY ZenonT(30) DEF AdmissionHoldsThroughout, Holding, Named3

\* A step that leaves the catalog alone, and the calls and guards of the admitted.
LEMMA HoldingKept ==
  ASSUME AdmissionHoldsThroughout, catalog' = catalog, blocks' = blocks, held' = held,
         \A u \in admitted' : u \in admitted /\ call'[u] = call[u]
  PROVE  AdmissionHoldsThroughout'
<1>1. \A u \in admitted' : Holding(call'[u], held'[u], catalog', blocks')
  BY HoldingNow
<1> QED
  BY <1>1, HoldingNext

\* A request names at least one slug.
LEMMA NameListFacts ==
  ASSUME NEW list \in NameLists
  PROVE  /\ list \in Seq(Names) /\ DOMAIN list = 1..Len(list)
         /\ Len(list) \in Nat /\ 1 \in DOMAIN list
         /\ \A i \in DOMAIN list : list[i] \in Names
<1>1. CASE \E n \in Names : list = <<n>>
  <2>1. PICK n \in Names : list = <<n>>
    BY <1>1
  <2>2. <<n>> \in Seq(Names) /\ Len(<<n>>) = 1 /\ DOMAIN <<n>> = 1..1 /\ <<n>>[1] = n
    OBVIOUS
  <2> QED
    BY <2>1, <2>2
<1>2. CASE \E n, m \in Names : list = <<n, m>>
  <2>1. PICK n, m \in Names : list = <<n, m>>
    BY <1>2
  <2>2. /\ <<n, m>> \in Seq(Names) /\ Len(<<n, m>>) = 2 /\ DOMAIN <<n, m>> = 1..2
        /\ <<n, m>>[1] = n /\ <<n, m>>[2] = m
    OBVIOUS
  <2>3. \A i \in 1..2 : i = 1 \/ i = 2
    OBVIOUS
  <2> QED
    BY <2>1, <2>2, <2>3
<1> QED
  BY <1>1, <1>2 DEF NameLists

\* Slugs that are all in the catalog resolve to as many ids.
LEMMA HintsFacts ==
  ASSUME CatalogInv, NEW list \in NameLists, \A i \in DOMAIN list : catalog[list[i]] # None
  PROVE  HintsOf(list) \in Seq(Repos) /\ DOMAIN HintsOf(list) = DOMAIN list
<1>1. /\ DOMAIN list = 1..Len(list) /\ Len(list) \in Nat
      /\ \A i \in DOMAIN list : list[i] \in Names
  BY NameListFacts
<1>2. \A i \in DOMAIN list : catalog[list[i]] \in Repos
  BY <1>1 DEF CatalogInv
<1>3. HintsOf(list) \in [1..Len(list) -> Repos]
  BY <1>1, <1>2 DEF HintsOf
<1>4. HintsOf(list) \in Seq(Repos)
  BY <1>1, <1>3, SeqDef
<1> QED
  BY <1>4 DEF HintsOf

\* The first state satisfies the inductive invariant.
LEMMA AdmissionInitInv == AdmissionInit => AdmissionInv
<1> SUFFICES ASSUME AdmissionInit PROVE AdmissionInv
  OBVIOUS
<1>1. IInv
  BY InitInv DEF AdmissionInit
<1>2. CatalogInv
  BY ZenonT(30) DEF AdmissionInit, CatalogInv, OneSlugPerRepository
<1>3. CallsInv
  BY ZenonT(30) DEF AdmissionInit, Init, CallsInv, CallOK, NoCall, Named3, TransferListed
<1>4. AdmissionHoldsThroughout /\ BarrierDrainsCallbacks
  BY DEF AdmissionInit, AdmissionHoldsThroughout, BarrierDrainsCallbacks
<1> QED
  BY <1>1, <1>2, <1>3, <1>4 DEF AdmissionInv

\* A call that is asked for touches nobody else's.
LEMMA AskInv ==
  ASSUME AdmissionInv, NEW t \in Threads, NEW m \in {"read", "write"}, NEW list \in Seq(Repos),
         NEW c, Ask(t, m, list, c), c.scope \in Scopes,
         c.scope \in Named3 => c.names \in NameLists /\ DOMAIN c.hints = DOMAIN c.names /\ list = c.hints,
         c.scope = "delete" => m = "write" /\ Len(c.names) = 1,
         c.scope = "comment" => c.author \in Users /\ (m = "write" \/ c.author \in users),
         c.scope \in {"global", "transfer", "block", "create", "reserve", "close"} => m = "write",
         c.scope = "global" => c.author \in Users,
         c.scope \in {"transfer", "create"} => c.id \in Repos /\ c.name \in Names,
         c.scope = "block" => c.id \in Repos /\ c.block \in {"read_only", "reconciliation"}
  PROVE  AdmissionInv'
<1>1. IInv' /\ Call(t, m, list)
  BY ZenonT(30), CallInv DEF Ask, AdmissionInv
<1>2. /\ call' = [call EXCEPT ![t] = c]
      /\ UNCHANGED <<stateVars, barrier, admitted, held>>
      /\ mode' = [mode EXCEPT ![t] = m] /\ ids' = [ids EXCEPT ![t] = list]
      /\ pc' = [pc EXCEPT ![t] = "authority"] /\ pc[t] = "idle"
  BY ZenonT(30) DEF Ask, Call
<1>3. /\ DOMAIN mode = Threads /\ DOMAIN ids = Threads /\ DOMAIN call = Threads
      /\ DOMAIN pc = Threads
  BY ZenonT(30) DEF AdmissionInv, IInv, TypeOK, CallsInv
<1>4. t \notin admitted
  BY ZenonT(30), <1>2 DEF AdmissionInv, CallsInv, Running
<1>5. /\ call'[t] = c /\ mode'[t] = m /\ ids'[t] = list
      /\ \A u \in Threads \ {t} : /\ call'[u] = call[u] /\ mode'[u] = mode[u]
                                   /\ ids'[u] = ids[u] /\ pc'[u] = pc[u]
      /\ DOMAIN call' = Threads
  BY ZenonT(30), <1>2, <1>3
<1>6. CatalogInv'
  BY ZenonT(30), <1>2 DEF AdmissionInv, CatalogInv, OneSlugPerRepository, stateVars
<1>7. \A u \in Threads \ {t} : CallOK(u)'
  BY <1>2, <1>5 DEF AdmissionInv, CallsInv, CallOK, stateVars
<1>8. CallOK(t)'
  <2>1. pc'[t] = "authority"
    BY ZenonT(30), <1>2, <1>3
  <2> QED
    BY ZenonT(30), <1>2, <1>5, <2>1 DEF CallOK, Scopes, Named3, stateVars
<1>10. \A u \in admitted : u \in Threads \ {t}
  BY ZenonT(30), <1>4 DEF AdmissionInv, CallsInv
<1>13. TransferListed'
  BY <1>2, <1>5, <1>10 DEF AdmissionInv, CallsInv, TransferListed, Listed, stateVars
<1>9. CallsInv'
  BY ZenonT(30), <1>2, <1>4, <1>5, <1>7, <1>8, <1>13 DEF AdmissionInv, CallsInv, Running
<1>11. AdmissionHoldsThroughout'
  BY <1>2, <1>5, <1>10 DEF AdmissionInv, AdmissionHoldsThroughout, stateVars
<1>12. BarrierDrainsCallbacks'
  BY ZenonT(30), <1>2, <1>5, <1>10 DEF AdmissionInv, BarrierDrainsCallbacks
<1> QED
  BY ZenonT(30), <1>1, <1>6, <1>9, <1>11, <1>12 DEF AdmissionInv

\* The kinds of calls.
LEMMA AskStepInv ==
  ASSUME AdmissionInv, NEW t \in Threads,
         \/ \E scope \in {"write", "delete"}, list \in NameLists : AskNamed(t, scope, list)
         \/ \E list \in NameLists, author \in Users : AskProfile(t, list, author)
         \/ \E author \in Users : AskGlobal(t, author)
         \/ \E n \in Names : AskAudit(t, n)
         \/ \E r \in Repos, n \in Names : AskById(t, "transfer", r, n, "none")
         \/ \E r \in Repos, b \in {"read_only", "reconciliation"} : AskById(t, "block", r, None, b)
         \/ \E r \in Repos, n \in Names : AskCreate(t, r, n)
         \/ \E scope \in {"reserve", "close"}, r \in Repos : AskCommission(t, scope, r)
  PROVE  AdmissionInv'
<1>0. CatalogInv
  BY DEF AdmissionInv
<1>1. ASSUME NEW scope \in {"write", "delete"}, NEW list \in NameLists, AskNamed(t, scope, list)
      PROVE  AdmissionInv'
  <2>1. PICK c, m : /\ c = [scope |-> scope, names |-> list, hints |-> HintsOf(list)]
                    /\ m = (IF scope = "delete" THEN "write" ELSE "read")
                    /\ Ask(t, m, HintsOf(list), c)
    BY ZenonT(30), <1>1 DEF AskNamed
  <2>2. HintsOf(list) \in Seq(Repos) /\ DOMAIN HintsOf(list) = DOMAIN list
    BY ZenonT(30), <1>0, <1>1, HintsFacts DEF AskNamed
  <2>3. c.scope = scope /\ c.names = list /\ c.hints = HintsOf(list) /\ m \in {"read", "write"}
    BY ZenonT(30), <2>1
  <2>4. scope = "delete" => m = "write" /\ Len(list) = 1
    BY ZenonT(30), <1>1, <2>1 DEF AskNamed
  <2> QED
    BY ZenonT(30), <2>1, <2>2, <2>3, <2>4, AskInv DEF Named3, Scopes
<1>2. ASSUME NEW list \in NameLists, NEW author \in Users, AskProfile(t, list, author)
      PROVE  AdmissionInv'
  <2>1. PICK c, m :
          /\ c = [scope |-> "comment", names |-> list, hints |-> HintsOf(list), author |-> author]
          /\ m = (IF author \in users THEN "read" ELSE "write")
          /\ Ask(t, m, HintsOf(list), c)
    BY ZenonT(30), <1>2 DEF AskProfile
  <2>2. HintsOf(list) \in Seq(Repos) /\ DOMAIN HintsOf(list) = DOMAIN list
    BY ZenonT(30), <1>0, <1>2, HintsFacts DEF AskProfile
  <2>3. /\ c.scope = "comment" /\ c.names = list /\ c.hints = HintsOf(list)
        /\ c.author = author /\ m \in {"read", "write"}
        /\ m = "write" \/ author \in users
    BY ZenonT(30), <2>1
  <2> QED
    BY ZenonT(30), <2>1, <2>2, <2>3, AskInv DEF Named3, Scopes
<1>8. ASSUME NEW author \in Users, AskGlobal(t, author) PROVE AdmissionInv'
  <2>1. PICK c : c = [scope |-> "global", author |-> author] /\ Ask(t, "write", <<>>, c)
    BY ZenonT(30), <1>8 DEF AskGlobal
  <2>2. <<>> \in Seq(Repos) /\ c.scope = "global" /\ c.author = author
    BY <2>1
  <2> QED
    BY ZenonT(30), <2>1, <2>2, AskInv DEF Named3, Scopes
<1>3. ASSUME NEW n \in Names, AskAudit(t, n) PROVE AdmissionInv'
  <2>1. PICK list, c : /\ list = (IF Resolve(n) = None THEN <<>> ELSE <<Resolve(n)>>)
                       /\ c = [scope |-> "audit", subject |-> n, hint |-> Resolve(n)]
                       /\ Ask(t, "write", list, c)
    BY ZenonT(30), <1>3 DEF AskAudit
  <2>2. Resolve(n) \in Repos \cup {None}
    BY ZenonT(30), <1>0 DEF CatalogInv, Resolve
  <2>3. list \in Seq(Repos) /\ c.scope = "audit"
    BY <2>1, <2>2
  <2> QED
    BY ZenonT(30), <2>1, <2>3, AskInv DEF Named3, Scopes
<1>4. ASSUME NEW r \in Repos, NEW n \in Names, AskById(t, "transfer", r, n, "none")
      PROVE  AdmissionInv'
  <2>1. PICK c : /\ c = [scope |-> "transfer", id |-> r, name |-> n, block |-> "none"]
                 /\ Ask(t, "write", <<r>>, c)
    BY ZenonT(30), <1>4 DEF AskById
  <2>2. <<r>> \in Seq(Repos) /\ c.scope = "transfer" /\ c.id = r /\ c.name = n
    BY <2>1
  <2> QED
    BY ZenonT(30), <2>1, <2>2, AskInv DEF Named3, Scopes
<1>5. ASSUME NEW r \in Repos, NEW b \in {"read_only", "reconciliation"},
             AskById(t, "block", r, None, b)
      PROVE  AdmissionInv'
  <2>1. PICK c : /\ c = [scope |-> "block", id |-> r, name |-> None, block |-> b]
                 /\ Ask(t, "write", <<r>>, c)
    BY ZenonT(30), <1>5 DEF AskById
  <2>2. <<r>> \in Seq(Repos) /\ c.scope = "block" /\ c.id = r /\ c.block = b
    BY <2>1
  <2> QED
    BY ZenonT(30), <2>1, <2>2, AskInv DEF Named3, Scopes
<1>6. ASSUME NEW r \in Repos, NEW n \in Names, AskCreate(t, r, n) PROVE AdmissionInv'
  <2>1. PICK c : /\ c = [scope |-> "create", id |-> r, name |-> n]
                 /\ Ask(t, "write", <<r>>, c)
    BY ZenonT(30), <1>6 DEF AskCreate
  <2>2. <<r>> \in Seq(Repos) /\ c.scope = "create" /\ c.id = r /\ c.name = n
    BY <2>1
  <2> QED
    BY ZenonT(30), <2>1, <2>2, AskInv DEF Named3, Scopes
<1>7. ASSUME NEW scope \in {"reserve", "close"}, NEW r \in Repos, AskCommission(t, scope, r)
      PROVE  AdmissionInv'
  <2>1. PICK c : c = [scope |-> scope] /\ Ask(t, "write", <<r>>, c)
    BY ZenonT(30), <1>7 DEF AskCommission
  <2>2. <<r>> \in Seq(Repos) /\ c.scope = scope
    BY <2>1
  <2> QED
    BY ZenonT(30), <2>1, <2>2, AskInv DEF Named3, Scopes
<1> QED
  BY ZenonT(30), <1>1, <1>2, <1>3, <1>4, <1>5, <1>6, <1>7, <1>8

\* A step of the locks keeps what the admitted callbacks hold: they run, and only
\* a thread that leaves gives up a mutex or forgets its list.
LEMMA LockInv ==
  ASSUME AdmissionInv, NEW t \in Threads, Lock(t)
  PROVE  AdmissionInv'
<1>1. IInv'
  BY ZenonT(30), AuthorityInv, GuardInv, RunInv, ReleaseInv DEF AdmissionInv, Lock
<1>2. UNCHANGED <<stateVars, barrier, call, admitted>>
  BY DEF Lock
<1>3. \A u \in Threads : Running(u) => Running(u)' /\ held[u] \subseteq held'[u]
  BY ZenonT(30) DEF AdmissionInv, IInv, TypeOK, Lock, Read, Claim, Drain, Guard, Enter, Unlock, Leave, Running
<1>4. CatalogInv'
  BY ZenonT(30), <1>2 DEF AdmissionInv, CatalogInv, OneSlugPerRepository, stateVars
<1>5. \A u \in Threads : CallOK(u)'
  <2> SUFFICES ASSUME NEW u \in Threads PROVE CallOK(u)'
    OBVIOUS
  <2>1. CallOK(u) /\ call' = call /\ users' = users
    BY <1>2 DEF AdmissionInv, CallsInv, stateVars
  <2>2. CASE u = t /\ Leave(t)
    <3>1. call[u].scope = "none" /\ pc'[u] = "idle"
      BY ZenonT(30), <2>1, <2>2 DEF AdmissionInv, IInv, TypeOK, CallOK, Leave
    <3> QED
      BY ZenonT(30), <2>1, <3>1 DEF CallOK, Named3
  <2>3. CASE ~(u = t /\ Leave(t))
    <3>1. /\ mode'[u] = mode[u] /\ ids'[u] = ids[u]
          /\ pc'[u] \in {"idle", "leaving"} <=> pc[u] \in {"idle", "leaving"}
      BY ZenonT(30), <2>3 DEF AdmissionInv, IInv, TypeOK, Lock, Read, Claim, Drain, Guard, Enter, Unlock, Leave
    <3> QED
      BY ZenonT(30), <2>1, <3>1 DEF CallOK
  <2> QED
    BY <2>2, <2>3
<1>6. CallsInv'
  BY ZenonT(30), <1>2, <1>3, <1>5 DEF AdmissionInv, CallsInv, TransferListed, Listed, stateVars
<1>7. AdmissionHoldsThroughout'
  <2>1. \A u \in admitted : u \in Threads /\ held[u] \subseteq held'[u]
    BY <1>3 DEF AdmissionInv, CallsInv
  <2> QED
    BY ZenonT(30), <1>2, <2>1 DEF AdmissionInv, AdmissionHoldsThroughout, stateVars
<1>8. BarrierDrainsCallbacks'
  BY <1>2 DEF AdmissionInv, BarrierDrainsCallbacks
<1> QED
  BY ZenonT(30), <1>1, <1>4, <1>6, <1>7, <1>8 DEF AdmissionInv

\* The checks are made with all guards held.
LEMMA AdmitInv ==
  ASSUME AdmissionInv, NEW t \in Threads, Admit(t)
  PROVE  AdmissionInv'
<1>1. /\ admitted' = admitted \cup {t} /\ Running(t) /\ MayRun(call[t])
      /\ UNCHANGED <<lockVars, stateVars, barrier, call>>
  BY DEF Admit
<1>2. UNCHANGED lockVars => IInv'
  BY NextInv DEF AdmissionInv
<1>3. CatalogInv'
  BY ZenonT(30), <1>1 DEF AdmissionInv, CatalogInv, OneSlugPerRepository, stateVars
<1>4. CallsInv'
  <2>1. call[t].scope = "transfer" => call[t].id \in Listed
    BY <1>1 DEF MayRun, Admissible
  <2>2. TransferListed'
    BY ZenonT(30), <1>1, <2>1 DEF AdmissionInv, CallsInv, TransferListed, Listed, stateVars
  <2> QED
    BY ZenonT(30), <1>1, <2>2 DEF AdmissionInv, CallsInv, CallOK, Running, lockVars, stateVars
<1> DEFINE c == call[t]
<1>5. c.scope \in Named3 =>
        /\ \A i \in DOMAIN c.names : /\ catalog[c.names[i]] = c.hints[i]
                                     /\ c.hints[i] \in held[t]
                                     /\ blocks[c.hints[i]] # "reconciliation"
        /\ blocks[c.hints[1]] = "none"
  <2> SUFFICES ASSUME c.scope \in Named3
               PROVE  /\ \A i \in DOMAIN c.names : /\ catalog[c.names[i]] = c.hints[i]
                                                   /\ c.hints[i] \in held[t]
                                                   /\ blocks[c.hints[i]] # "reconciliation"
                      /\ blocks[c.hints[1]] = "none"
    BY ZenonT(30)
  <2>1. /\ c.names \in NameLists /\ DOMAIN c.hints = DOMAIN c.names /\ ids[t] = c.hints
    BY ZenonT(30) DEF AdmissionInv, CallsInv, CallOK
  <2>2. 1 \in DOMAIN c.names
    BY ZenonT(30), <2>1, NameListFacts
  <2>3. NamesHold(c)
    BY ZenonT(30), <1>1 DEF MayRun, Named3
  <2>4. \A i \in DOMAIN c.names : c.hints[i] \in held[t]
    BY <1>1, <2>1 DEF AdmissionInv, IInv, Guarded, Named
  <2>5. \A i \in DOMAIN c.names : /\ catalog[c.names[i]] = c.hints[i]
                                  /\ Admissible(c.hints[i], i = 1)
    BY ZenonT(30), <2>3 DEF NamesHold
  <2>6. \A r : Admissible(r, TRUE) => blocks[r] = "none"
    BY DEF Admissible
  <2>7. \A r, w : Admissible(r, w) => blocks[r] # "reconciliation"
    BY DEF Admissible
  <2>8. Admissible(c.hints[1], TRUE)
    <3>1. Admissible(c.hints[1], 1 = 1)
      BY ZenonT(30), <2>2, <2>5
    <3> QED
      BY ZenonT(30), <3>1 DEF Admissible
  <2> HIDE DEF c
  <2> QED
    BY ZenonT(30), <2>4, <2>5, <2>6, <2>7, <2>8
<1>6. c.scope = "transfer" => blocks[c.id] = "none"
  BY <1>1 DEF MayRun, Admissible
<1>7. AdmissionHoldsThroughout'
  <2>1. Holding(call[t], held[t], catalog, blocks)
    BY ZenonT(30), <1>5, <1>6 DEF Holding
  <2>2. \A u \in admitted : Holding(call[u], held[u], catalog, blocks)
    BY HoldingNow DEF AdmissionInv
  <2>3. /\ admitted' = admitted \cup {t} /\ call' = call /\ held' = held
        /\ catalog' = catalog /\ blocks' = blocks
    BY <1>1 DEF lockVars, stateVars
  <2>4. \A u \in admitted' : Holding(call'[u], held'[u], catalog', blocks')
    BY ZenonT(30), <2>1, <2>2, <2>3
  <2> QED
    BY <2>4, HoldingNext
<1>8. barrier => c.scope \in {"create", "reserve", "close"}
  <2>1. c.scope \in Scopes
    BY ZenonT(30), <1>1 DEF AdmissionInv, CallsInv, CallOK, Running
  <2> QED
    BY ZenonT(30), <1>1, <2>1 DEF MayRun, OrdinaryMutation, Scopes, Named3
<1>9. BarrierDrainsCallbacks'
  BY ZenonT(30), <1>1, <1>8 DEF AdmissionInv, BarrierDrainsCallbacks
<1> QED
  BY ZenonT(30), <1>1, <1>2, <1>3, <1>4, <1>7, <1>9 DEF AdmissionInv

\* The end of a callback, admitted or refused: others keep their calls.
LEMMA ReturnCalls ==
  ASSUME AdmissionInv, NEW t \in Threads, Return(t), call' = [call EXCEPT ![t] = NoCall],
         users \subseteq users'
  PROVE  /\ IInv'
         /\ \A u \in Threads : CallOK(u)'
         /\ DOMAIN call' = Threads
         /\ held' = held
         /\ \A u \in Threads \ {t} : call'[u] = call[u] /\ (Running(u) => Running(u)')
<1>1. IInv'
  BY RunInv DEF AdmissionInv
<1>2. DOMAIN call = Threads /\ \A u \in Threads : CallOK(u)
  BY DEF AdmissionInv, CallsInv
<1>3. /\ call'[t] = NoCall /\ DOMAIN call' = Threads
      /\ \A u \in Threads \ {t} : call'[u] = call[u]
  BY <1>2
<1>4. /\ pc'[t] = "leaving" /\ mode' = mode /\ ids' = ids /\ held' = held
      /\ \A u \in Threads \ {t} : pc'[u] = pc[u]
  BY ZenonT(30) DEF AdmissionInv, IInv, TypeOK, Return
<1>5. CallOK(t)'
  BY ZenonT(30), <1>3, <1>4 DEF CallOK, NoCall, Named3
<1>6. \A u \in Threads \ {t} : CallOK(u)'
  <2> TAKE u \in Threads \ {t}
  <2>1. CallOK(u)
    BY <1>2
  <2>2. call'[u] = call[u] /\ pc'[u] = pc[u] /\ mode'[u] = mode[u] /\ ids'[u] = ids[u]
    BY ZenonT(30), <1>3, <1>4
  <2> QED
    BY ZenonT(30), <2>1, <2>2 DEF CallOK
<1> QED
  BY ZenonT(30), <1>1, <1>3, <1>4, <1>5, <1>6 DEF Running

\* A refused admission preserves the invariant.
LEMMA RefuseInv ==
  ASSUME AdmissionInv, NEW t \in Threads, Refuse(t)
  PROVE  AdmissionInv'
<1>1. /\ Return(t) /\ call' = [call EXCEPT ![t] = NoCall] /\ t \notin admitted
      /\ UNCHANGED <<stateVars, barrier, admitted>>
  BY DEF Refuse
<1>2. /\ IInv' /\ (\A u \in Threads : CallOK(u)') /\ DOMAIN call' = Threads /\ held' = held
      /\ \A u \in Threads \ {t} : call'[u] = call[u] /\ (Running(u) => Running(u)')
  BY ZenonT(30), <1>1, ReturnCalls DEF stateVars
<1>3. \A u \in admitted : u \in Threads \ {t}
  BY <1>1 DEF AdmissionInv, CallsInv
<1>4. CatalogInv'
  BY ZenonT(30), <1>1 DEF AdmissionInv, CatalogInv, OneSlugPerRepository, stateVars
<1>5. CallsInv'
  <2>1. TransferListed /\ admitted \subseteq Threads /\ \A u \in admitted : Running(u)
    BY DEF AdmissionInv, CallsInv
  <2>2. admitted' = admitted /\ \A u \in admitted : call'[u] = call[u] /\ Running(u)'
    BY ZenonT(30), <1>1, <1>2, <1>3, <2>1
  <2>3. Listed' = Listed
    BY <1>1 DEF Listed, stateVars
  <2>4. TransferListed'
    BY ZenonT(30), <2>1, <2>2, <2>3 DEF TransferListed
  <2> QED
    BY ZenonT(30), <1>2, <2>1, <2>2, <2>4 DEF CallsInv
<1>6. AdmissionHoldsThroughout'
  <2>1. /\ catalog' = catalog /\ blocks' = blocks /\ held' = held /\ admitted' = admitted
        /\ \A u \in admitted : call'[u] = call[u]
    BY ZenonT(30), <1>1, <1>2, <1>3 DEF stateVars
  <2>2. AdmissionHoldsThroughout
    BY DEF AdmissionInv
  <2> QED
    BY ZenonT(30), <2>1, <2>2, HoldingKept
<1>7. BarrierDrainsCallbacks'
  BY ZenonT(30), <1>1, <1>2, <1>3 DEF AdmissionInv, BarrierDrainsCallbacks
<1> QED
  BY ZenonT(30), <1>2, <1>4, <1>5, <1>6, <1>7 DEF AdmissionInv

\* What a callback does to the catalog leaves every repository with one slug.
LEMMA ApplyCatalog ==
  ASSUME AdmissionInv, NEW t \in admitted, Apply(call[t])
  PROVE  CatalogInv'
<1> DEFINE c == call[t]
<1>1. CallOK(t) /\ CatalogInv
  BY DEF AdmissionInv, CallsInv
<1>2. CASE Delete(c)
  <2>1. PICK n \in Names : catalog' = [catalog EXCEPT ![n] = None]
    <3>1. c.names \in NameLists
      BY ZenonT(30), <1>1, <1>2 DEF CallOK, Delete, Named3
    <3> QED
      BY ZenonT(30), <1>2, <3>1, NameListFacts DEF Delete
  <2> QED
    BY ZenonT(30), <1>1, <1>2, <2>1 DEF Delete, CatalogInv, OneSlugPerRepository
<1>3. CASE CreateProfile(c)
  BY ZenonT(30), <1>1, <1>3 DEF CallOK, CreateProfile, CatalogInv, OneSlugPerRepository
<1>4. CASE Create(c)
  <2>1. c.id \in Repos /\ c.name \in Names
    BY ZenonT(30), <1>1, <1>4 DEF CallOK, Create
  <2> QED
    BY ZenonT(30), <1>1, <1>4, <2>1 DEF Create, CatalogInv, OneSlugPerRepository
<1>5. CASE Transfer(c)
  <2>1. c.id \in Repos /\ c.name \in Names /\ c.id \in Listed
    BY ZenonT(30), <1>1, <1>5 DEF CallOK, Transfer, AdmissionInv, CallsInv, TransferListed
  <2>2. PICK n : n = CurrentName(c.id)
    OBVIOUS
  <2>3. n \in Names /\ catalog[n] = c.id
    BY ZenonT(30), <2>1, <2>2 DEF Listed, CurrentName
  <2>4. /\ catalog' = [catalog EXCEPT ![n] = None, ![c.name] = c.id]
        /\ aliases' = [aliases EXCEPT ![n] = c.id]
        /\ catalog[c.name] = None
        /\ UNCHANGED <<creations, blocks, users, barrier>>
    BY ZenonT(30), <1>5, <2>2 DEF Transfer
  <2> QED
    BY SMTT(20), <1>1, <2>1, <2>3, <2>4 DEF CatalogInv, OneSlugPerRepository
<1>6. CASE Block(c)
  <2>1. c.id \in Repos /\ c.block \in {"read_only", "reconciliation"}
    BY ZenonT(30), <1>1, <1>6 DEF CallOK, Block
  <2> QED
    BY ZenonT(30), <1>1, <1>6, <2>1 DEF Block, CatalogInv, OneSlugPerRepository
<1>7. CASE Commission(c) \/ UNCHANGED <<stateVars, barrier>>
  BY ZenonT(30), <1>1, <1>7 DEF Commission, CatalogInv, OneSlugPerRepository, stateVars
<1> QED
  BY ZenonT(30), <1>2, <1>3, <1>4, <1>5, <1>6, <1>7 DEF Apply

\* A callback that has authority shared leaves the catalog alone.
LEMMA SharedChangesNothing ==
  ASSUME AdmissionInv, NEW t \in admitted, Apply(call[t]), mode[t] # "write"
  PROVE  UNCHANGED <<stateVars, barrier>>
<1> DEFINE c == call[t]
<1>1. CallOK(t)
  BY DEF AdmissionInv, CallsInv
<1>2. CASE CreateProfile(c)
  <2>1. c.author \in users
    BY ZenonT(30), <1>1, <1>2 DEF CallOK, CreateProfile
  <2> QED
    BY ZenonT(30), <1>2, <2>1 DEF CreateProfile, stateVars
<1>3. ~Delete(c) /\ ~Create(c) /\ ~Transfer(c) /\ ~Block(c) /\ ~Commission(c)
  BY ZenonT(30), <1>1 DEF CallOK, Delete, Create, Transfer, Block, Commission
<1> QED
  BY ZenonT(30), <1>2, <1>3 DEF Apply

\* The end of an admitted callback preserves the invariant.
LEMMA FinishInv ==
  ASSUME AdmissionInv, NEW t \in Threads, Finish(t)
  PROVE  AdmissionInv'
<1>1. /\ Return(t) /\ call' = [call EXCEPT ![t] = NoCall] /\ t \in admitted
      /\ Apply(call[t]) /\ admitted' = admitted \ {t}
  BY DEF Finish
<1>2. users \subseteq users'
  BY ZenonT(30), <1>1 DEF Apply, Delete, CreateProfile, Create, Transfer, Block, Commission, stateVars
<1>3. /\ IInv' /\ (\A u \in Threads : CallOK(u)') /\ DOMAIN call' = Threads /\ held' = held
      /\ \A u \in Threads \ {t} : call'[u] = call[u] /\ (Running(u) => Running(u)')
  BY ZenonT(30), <1>1, <1>2, ReturnCalls
<1>4. CatalogInv'
  BY <1>1, ApplyCatalog
<1>5. \A u \in admitted' : u \in Threads \ {t} /\ Running(u) /\ Running(u)'
  BY ZenonT(30), <1>1, <1>3 DEF AdmissionInv, CallsInv
<1>6. CASE mode[t] = "write"
  <2>1. \A u \in Threads \ {t} : ~Running(u)
    BY ZenonT(30), <1>1, <1>6, InvExcludes DEF AdmissionInv, MutationsExclude, CallsInv
  <2>2. admitted' = {}
    BY <1>5, <2>1
  <2> QED
    BY ZenonT(30), <1>3, <1>4, <2>2 DEF AdmissionInv, CallsInv, TransferListed, AdmissionHoldsThroughout,
                            BarrierDrainsCallbacks
<1>7. CASE mode[t] # "write"
  <2>1. UNCHANGED <<stateVars, barrier>>
    BY ZenonT(30), <1>1, <1>7, SharedChangesNothing
  <2>2. \A u \in admitted' : u \in admitted /\ call'[u] = call[u]
    BY ZenonT(30), <1>1, <1>3, <1>5
  <2>3. CallsInv'
    BY ZenonT(30), <1>3, <1>5, <2>1, <2>2 DEF AdmissionInv, CallsInv, TransferListed, Listed, stateVars
  <2>4. AdmissionHoldsThroughout'
    <3>1. catalog' = catalog /\ blocks' = blocks /\ held' = held
      BY ZenonT(30), <1>3, <2>1 DEF stateVars
    <3>2. AdmissionHoldsThroughout
      BY DEF AdmissionInv
    <3> QED
      BY ZenonT(30), <2>2, <3>1, <3>2, HoldingKept
  <2>5. BarrierDrainsCallbacks'
    BY ZenonT(30), <2>1, <2>2 DEF AdmissionInv, BarrierDrainsCallbacks
  <2> QED
    BY ZenonT(30), <1>3, <1>4, <2>3, <2>4, <2>5 DEF AdmissionInv
<1> QED
  BY <1>6, <1>7

\* Every step of the admission preserves the inductive invariant.
LEMMA AdmissionNextInv == AdmissionInv /\ [AdmissionNext]_vars => AdmissionInv'
<1> SUFFICES ASSUME AdmissionInv, [AdmissionNext]_vars PROVE AdmissionInv'
  OBVIOUS
<1>1. CASE AdmissionNext
  BY ZenonT(30), <1>1, AskStepInv, LockInv, AdmitInv, RefuseInv, FinishInv DEF AdmissionNext
<1>2. CASE UNCHANGED vars
  <2>1. UNCHANGED lockVars => IInv'
    BY NextInv DEF AdmissionInv
  <2> QED
    <3>1. UNCHANGED lockVars /\ UNCHANGED <<stateVars, barrier, call, admitted>>
      BY <1>2 DEF vars
    <3>2. CatalogInv'
      BY ZenonT(30), <3>1 DEF stateVars, AdmissionInv, CatalogInv, OneSlugPerRepository
    <3>3. CallsInv'
      BY <3>1 DEF lockVars, stateVars, AdmissionInv, CallsInv, CallOK, Running, TransferListed, Listed
    <3>4. AdmissionHoldsThroughout'
      BY ZenonT(30), <3>1 DEF lockVars, stateVars, AdmissionInv, AdmissionHoldsThroughout
    <3>5. BarrierDrainsCallbacks'
      BY <3>1 DEF AdmissionInv, BarrierDrainsCallbacks
    <3> QED
      BY ZenonT(30), <2>1, <3>1, <3>2, <3>3, <3>4, <3>5 DEF AdmissionInv
<1> QED
  BY <1>1, <1>2

\* The inductive invariant of admission.
THEOREM AdmissionInvariance == AdmissionSpec => []AdmissionInv
  BY AdmissionInitInv, AdmissionNextInv, PTL DEF AdmissionSpec

\* engine/mutation.rs: types; a slug and an alias name repositories, and a callback
\* that was admitted is inside its locks.
THEOREM AdmissionTypeCorrect == AdmissionSpec => []AdmissionTypeOK
<1>1. AdmissionInv => AdmissionTypeOK
  BY DEF AdmissionInv, IInv, CatalogInv, CallsInv, AdmissionTypeOK, Listed
<1> QED
  BY <1>1, AdmissionInvariance, PTL

\* engine/mutation.rs, with_named_mutation: what a callback was admitted on stays
\* true while it runs.
THEOREM AdmissionHolds == AdmissionSpec => []AdmissionHoldsThroughout
<1>1. AdmissionInv => AdmissionHoldsThroughout
  BY DEF AdmissionInv
<1> QED
  BY <1>1, AdmissionInvariance, PTL

\* engine/mutation.rs, require_ordinary_mutation: no restore is open while an
\* ordinary callback runs.
THEOREM BarrierDrains == AdmissionSpec => []BarrierDrainsCallbacks
<1>1. AdmissionInv => BarrierDrainsCallbacks
  BY DEF AdmissionInv
<1> QED
  BY <1>1, AdmissionInvariance, PTL

\* engine/repository_transfer_state.rs: no order of creations, deletions and
\* transfers gives a repository two slugs.
THEOREM OneSlug == AdmissionSpec => []OneSlugPerRepository
<1>1. AdmissionInv => OneSlugPerRepository
  BY DEF AdmissionInv, CatalogInv
<1> QED
  BY <1>1, AdmissionInvariance, PTL

\* engine/coordinator.rs under the admission of engine/mutation.rs: callbacks of
\* all kinds exclude each other as the coordinator promises.
THEOREM AdmissionExclusion == AdmissionSpec => []MutationsExclude
<1>1. AdmissionInv => MutationsExclude
  BY InvExcludes DEF AdmissionInv
<1> QED
  BY <1>1, AdmissionInvariance, PTL

\* engine/mutation.rs, with_profile_mutation and the authority mutations: catalog,
\* profiles, blocks and the barrier change only under exclusive authority, also
\* when the author's profile appeared after the lock was chosen.
THEOREM CatalogAlone == AdmissionSpec => CatalogChangesAlone
<1>1. ASSUME AdmissionInv, [AdmissionNext]_vars, stateVars' # stateVars \/ barrier' # barrier
      PROVE  \E t \in Threads : Running(t) /\ mode[t] = "write"
  <2>1. PICK t \in Threads : Finish(t)
    BY ZenonT(30), <1>1 DEF AdmissionNext, AskNamed, AskProfile, AskGlobal, AskAudit, AskById, AskCreate, AskCommission,
                Ask, Lock, Admit, Refuse, vars
  <2>2. t \in admitted /\ Apply(call[t]) /\ Running(t)
    BY ZenonT(30), <1>1, <2>1 DEF Finish, AdmissionInv, CallsInv
  <2>3. mode[t] = "write"
    BY ZenonT(30), <1>1, <2>2, SharedChangesNothing
  <2> QED
    BY <2>2, <2>3
<1> QED
  BY <1>1, AdmissionInvariance, PTL DEF AdmissionSpec, CatalogChangesAlone

=============================================================================
