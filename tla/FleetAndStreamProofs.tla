------------------------ MODULE FleetAndStreamProofs ------------------------
(***************************************************************************)
(* Proofs about the runner fleet (RunnerFleet) and about the terminal      *)
(* stream of an agent run (TtyStream).  The two                            *)
(* specifications share nothing, and each part below is about one of them. *)
(***************************************************************************)
EXTENDS RunnerFleet, TtyStream, FiniteSetTheorems, TLAPS

-----------------------------------------------------------------------------
(***************************************************************************)
(* Proofs about RunnerFleet for any number of nodes and jobs, any          *)
(* capacities and any heartbeat_ttl.                                       *)
(***************************************************************************)

\* A reservation never carries an epoch its node has not reached.
Past == \A t \in tokens \cup ran : t.epoch <= epoch[t.node]

\* A job has one current reservation at most, and none once it has run.
OnePlace ==
  \A t \in tokens : Owner(t.node, t.epoch) =>
    /\ \A u \in ran : u.job # t.job
    /\ \A u \in tokens : u.job = t.job /\ Owner(u.node, u.epoch) => u = t

\* The jobs a batch has still to place have neither.
JobsPlaced == OnePlace /\ \A j \in batch.todo : Wanted(j)

FleetInv ==
  /\ FleetTypeOK
  /\ IsFiniteSet(tokens)
  /\ Past
  /\ JobsPlaced
  /\ NoOvercommit
  /\ JobsRunOnce

-----------------------------------------------------------------------------

\* A node holds finitely many reservations, so they can be counted.
LEMMA HeldFinite ==
  ASSUME FleetInv, NEW n \in Nodes
  PROVE  IsFiniteSet(Held(n)) /\ Cardinality(Held(n)) \in Nat
<1>1. Held(n) \subseteq tokens
  BY DEF Held
<1> QED
  BY ZenonT(30), <1>1, FS_Subset, FS_CardinalityType DEF FleetInv

\* The empty fleet satisfies the inductive invariant.
LEMMA FleetInitInv == FleetInit => FleetInv
<1> SUFFICES ASSUME FleetInit PROVE FleetInv
  OBVIOUS
<1>1. FleetTypeOK
  BY DEF FleetInit, FleetTypeOK, NodeStates, NoBatch, Tokens
<1>2. \A n \in Nodes : Held(n) = {}
  BY DEF FleetInit, Held
<1>3. NoOvercommit
  BY <1>2, FS_EmptySet DEF FleetInit, NoOvercommit
<1> QED
  BY ZenonT(30), <1>1, <1>3, FS_EmptySet DEF FleetInit, FleetInv, Past, JobsPlaced, OnePlace, JobsRunOnce, NoBatch

\* The steps of the registry itself: reservations stay as they are.
RegistryStep ==
  \/ \E n \in Nodes : \E c \in Capacities : Register(n, c)
  \/ \E n \in Nodes : Heartbeat(n)
  \/ Reap
  \/ \E n \in Nodes : Drain(n)
  \/ Tick

\* A step of the registry (registration, heartbeat, reaping, draining) keeps
\* the types, and leaves the tokens and the batch alone.
LEMMA RegistryType ==
  ASSUME FleetTypeOK, RegistryStep
  PROVE  FleetTypeOK' /\ UNCHANGED <<tokens, batch, ran>>
<1>1. ASSUME NEW n \in Nodes, NEW c \in Capacities, Register(n, c)
      PROVE  FleetTypeOK' /\ UNCHANGED <<tokens, batch, ran>>
  BY <1>1, CapacitiesAssumption DEF FleetTypeOK, Register, NextEpoch, NodeStates
<1>2. ASSUME NEW n \in Nodes, Heartbeat(n)
      PROVE  FleetTypeOK' /\ UNCHANGED <<tokens, batch, ran>>
  BY ZenonT(30), <1>2 DEF FleetTypeOK, Heartbeat
<1>3. ASSUME Reap
      PROVE  FleetTypeOK' /\ UNCHANGED <<tokens, batch, ran>>
  BY <1>3 DEF FleetTypeOK, Reap, Silent, LiveNodes, NodeStates
<1>4. ASSUME NEW n \in Nodes, Drain(n)
      PROVE  FleetTypeOK' /\ UNCHANGED <<tokens, batch, ran>>
  BY ZenonT(30), <1>4 DEF FleetTypeOK, Drain, NodeStates
<1>5. ASSUME Tick
      PROVE  FleetTypeOK' /\ UNCHANGED <<tokens, batch, ran>>
  BY <1>5, TtlAssumption DEF FleetTypeOK, Tick
<1> QED
  BY ZenonT(30), <1>1, <1>2, <1>3, <1>4, <1>5 DEF RegistryStep

\* Epochs only grow, and one that was reached gains no owner.
LEMMA Fences ==
  ASSUME FleetTypeOK, RegistryStep, NEW n \in Nodes
  PROVE  /\ epoch[n] \in Nat /\ epoch'[n] \in Nat
         /\ epoch[n] <= epoch'[n]
         /\ \A e \in Nat : e <= epoch[n] /\ Owner(n, e)' => Owner(n, e)
<1>1. ASSUME NEW m \in Nodes, NEW c \in Capacities, Register(m, c)
      PROVE  /\ epoch[n] <= epoch'[n]
             /\ \A e \in Nat : e <= epoch[n] /\ Owner(n, e)' => Owner(n, e)
  <2>1. CASE m = n
    BY <1>1, <2>1 DEF FleetTypeOK, Register, NextEpoch, Owner
  <2>2. CASE m # n
    BY <1>1, <2>2 DEF FleetTypeOK, Register, Owner
  <2> QED BY ZenonT(30), <2>1, <2>2
<1>2. ASSUME NEW m \in Nodes, Heartbeat(m)
      PROVE  /\ epoch[n] <= epoch'[n]
             /\ \A e \in Nat : e <= epoch[n] /\ Owner(n, e)' => Owner(n, e)
  BY <1>2 DEF FleetTypeOK, Heartbeat, Owner
<1>3. ASSUME Reap
      PROVE  /\ epoch[n] <= epoch'[n]
             /\ \A e \in Nat : e <= epoch[n] /\ Owner(n, e)' => Owner(n, e)
  BY <1>3 DEF FleetTypeOK, Reap, Owner
<1>4. ASSUME NEW m \in Nodes, Drain(m)
      PROVE  /\ epoch[n] <= epoch'[n]
             /\ \A e \in Nat : e <= epoch[n] /\ Owner(n, e)' => Owner(n, e)
  BY <1>4 DEF FleetTypeOK, Drain, Owner
<1>5. ASSUME Tick
      PROVE  /\ epoch[n] <= epoch'[n]
             /\ \A e \in Nat : e <= epoch[n] /\ Owner(n, e)' => Owner(n, e)
  BY <1>5 DEF FleetTypeOK, Tick, Owner
<1>6. epoch[n] \in Nat /\ epoch'[n] \in Nat
  BY ZenonT(30), RegistryType DEF FleetTypeOK
<1> QED
  BY ZenonT(30), <1>1, <1>2, <1>3, <1>4, <1>5, <1>6 DEF RegistryStep

\* A step of the registry preserves the invariant: a node that comes back has
\* a new epoch, which no token carries.
LEMMA RegistryInv ==
  ASSUME FleetInv, RegistryStep
  PROVE  FleetInv'
<1>1. FleetTypeOK' /\ UNCHANGED <<tokens, batch, ran>>
  BY RegistryType DEF FleetInv
<1>2. \A t \in tokens \cup ran : t.node \in Nodes /\ t.epoch \in Nat /\ t.epoch <= epoch[t.node]
  BY ZenonT(30) DEF FleetInv, FleetTypeOK, Past, Tokens
<1>3. \A t \in tokens \cup ran : Owner(t.node, t.epoch)' => Owner(t.node, t.epoch)
  BY ZenonT(30), <1>2, Fences DEF FleetInv
<1>4. Past'
  <2> SUFFICES ASSUME NEW t \in tokens \cup ran PROVE t.epoch <= epoch'[t.node]
    BY <1>1 DEF Past
  <2>1. t.node \in Nodes /\ t.epoch \in Nat /\ t.epoch <= epoch[t.node]
    BY <1>2
  <2>2. epoch[t.node] \in Nat /\ epoch'[t.node] \in Nat /\ epoch[t.node] <= epoch'[t.node]
    BY ZenonT(30), <2>1, Fences DEF FleetInv
  <2> QED
    BY <2>1, <2>2
<1>5. JobsPlaced'
  BY ZenonT(30), <1>1, <1>3 DEF FleetInv, JobsPlaced, OnePlace, Wanted
<1>6. NoOvercommit'
  <2> SUFFICES ASSUME NEW n \in Nodes
               PROVE  Cardinality(Held(n)') <= inFlight'[n] /\ inFlight'[n] <= capacity'[n]
    BY DEF NoOvercommit
  <2>1. Held(n)' \subseteq Held(n)
    BY ZenonT(30), <1>1, <1>3 DEF Held
  <2>2. /\ Cardinality(Held(n)') \in Nat /\ Cardinality(Held(n)) \in Nat
        /\ Cardinality(Held(n)') <= Cardinality(Held(n))
    BY ZenonT(30), <2>1, HeldFinite, FS_Subset, FS_CardinalityType
  <2>3. Cardinality(Held(n)) <= inFlight[n] /\ inFlight[n] <= capacity[n]
    BY DEF FleetInv, NoOvercommit
  <2>4. inFlight[n] \in Nat
    BY DEF FleetInv, FleetTypeOK
  <2>5. CASE inFlight'[n] = inFlight[n] /\ capacity'[n] = capacity[n]
    BY <2>2, <2>3, <2>4, <2>5
  <2>6. CASE \E c \in Capacities : Register(n, c)
    <3>1. PICK c \in Capacities : Register(n, c)
      BY <2>6
    <3>2. epoch'[n] = epoch[n] + 1 /\ inFlight'[n] = 0 /\ capacity'[n] = c /\ c \in Nat
      BY ZenonT(30), <3>1, CapacitiesAssumption DEF Register, NextEpoch, FleetInv, FleetTypeOK
    <3>3. ASSUME NEW t \in tokens, t.node = n PROVE ~Owner(n, t.epoch)'
      <4>1. t.epoch \in Nat /\ t.epoch <= epoch[n] /\ epoch[n] \in Nat
        BY ZenonT(30), <3>3, <1>2 DEF FleetInv, FleetTypeOK
      <4> QED
        BY <4>1, <3>2 DEF Owner
    <3>4. Held(n)' = {}
      BY ZenonT(30), <3>3, <1>1 DEF Held
    <3> QED
      BY <3>2, <3>4, FS_EmptySet
  <2> QED
    BY ZenonT(30), <2>5, <2>6 DEF RegistryStep, Register, Heartbeat, Reap, Drain, Tick, FleetInv, FleetTypeOK
<1> QED
  BY ZenonT(30), <1>1, <1>4, <1>5, <1>6 DEF FleetInv, JobsRunOnce

-----------------------------------------------------------------------------

\* What a step that changes the reservations has to keep, beside the types and
\* the jobs of the batch.
Slots == IsFiniteSet(tokens) /\ Past /\ OnePlace /\ NoOvercommit /\ JobsRunOnce

\* A new reservation takes a slot that was free, and its job had none.
LEMMA AssignSlots ==
  ASSUME FleetInv, NEW j \in Jobs, NEW n \in Nodes, Wanted(j), Assign(j, n)
  PROVE  /\ Slots'
         /\ \A k \in Jobs : k # j /\ Wanted(k) => Wanted(k)'
<1> DEFINE t == [job |-> j, node |-> n, epoch |-> epoch[n]]
<1>1. /\ tokens' = tokens \cup {t}
      /\ UNCHANGED <<state, epoch, capacity, ran>>
      /\ inFlight' = [inFlight EXCEPT ![n] = @ + 1]
  BY ZenonT(30) DEF Assign
<1>2. state[n] = "Active" /\ inFlight[n] < capacity[n]
  BY ZenonT(30) DEF Assign, First, Candidates, Assignable
<1>3. t \in Tokens /\ t.job = j /\ t.node = n /\ t.epoch = epoch[n]
  BY ZenonT(30) DEF FleetInv, FleetTypeOK, Tokens
<1>4. Owner(n, epoch[n])
  BY <1>2 DEF Owner
<1>5. \A u \in tokens : u.job = j => ~Owner(u.node, u.epoch)
  BY DEF Wanted
<1>6. t \notin tokens
  BY ZenonT(30), <1>3, <1>4, <1>5
<1> HIDE DEF t
<1>7. \A m, e : Owner(m, e)' <=> Owner(m, e)
  BY <1>1 DEF Owner
<1>8. IsFiniteSet(tokens')
  BY ZenonT(30), <1>1, FS_AddElement DEF FleetInv
<1>9. Past'
  BY <1>1, <1>3 DEF FleetInv, FleetTypeOK, Past
<1>10. OnePlace'
  <2>1. \A u \in ran : u.job # j
    BY DEF Wanted
  <2>2. OnePlace
    BY DEF FleetInv, JobsPlaced
  <2> QED
    BY ZenonT(30), <1>1, <1>3, <1>5, <1>7, <2>1, <2>2 DEF OnePlace
<1>11. NoOvercommit'
  <2> SUFFICES ASSUME NEW m \in Nodes
               PROVE  Cardinality(Held(m)') <= inFlight'[m] /\ inFlight'[m] <= capacity'[m]
    BY DEF NoOvercommit
  <2>1. /\ Cardinality(Held(m)) <= inFlight[m] /\ inFlight[m] <= capacity[m]
        /\ inFlight[m] \in Nat /\ capacity[m] \in Nat
    BY ZenonT(30) DEF FleetInv, FleetTypeOK, NoOvercommit
  <2>2. IsFiniteSet(Held(m)) /\ Cardinality(Held(m)) \in Nat
    BY HeldFinite
  <2>3. CASE m = n
    <3>1. Held(m)' = Held(m) \cup {t}
      BY ZenonT(30), <1>1, <1>3, <1>4, <1>7, <2>3 DEF Held
    <3>2. t \notin Held(m)
      BY <1>6 DEF Held
    <3>3. Cardinality(Held(m)') = Cardinality(Held(m)) + 1
      BY ZenonT(30), <2>2, <3>1, <3>2, FS_AddElement
    <3>4. inFlight'[m] = inFlight[m] + 1 /\ capacity'[m] = capacity[m]
      BY ZenonT(30), <1>1, <2>3 DEF FleetInv, FleetTypeOK
    <3> QED
      BY <1>2, <2>1, <2>2, <2>3, <3>3, <3>4
  <2>4. CASE m # n
    <3>1. Held(m)' = Held(m)
      BY ZenonT(30), <1>1, <1>3, <1>7, <2>4 DEF Held
    <3>2. inFlight'[m] = inFlight[m] /\ capacity'[m] = capacity[m]
      BY ZenonT(30), <1>1, <2>4 DEF FleetInv, FleetTypeOK
    <3> QED
      BY ZenonT(30), <2>1, <3>1, <3>2
  <2> QED
    BY ZenonT(30), <2>3, <2>4
<1>12. JobsRunOnce'
  BY ZenonT(30), <1>1 DEF FleetInv, JobsRunOnce
<1>13. \A k \in Jobs : k # j /\ Wanted(k) => Wanted(k)'
  BY ZenonT(30), <1>1, <1>3, <1>7 DEF Wanted
<1> QED
  BY ZenonT(30), <1>8, <1>9, <1>10, <1>11, <1>12, <1>13 DEF Slots

\* A current reservation that is run gives its slot back.
LEMMA RunSlots ==
  ASSUME FleetInv, NEW t \in tokens, Run(t)
  PROVE  Slots'
<1>1. /\ tokens' = tokens \ {t}
      /\ ran' = ran \cup {t}
      /\ UNCHANGED <<state, epoch, capacity>>
      /\ inFlight' = [inFlight EXCEPT ![t.node] = IF @ = 0 THEN 0 ELSE @ - 1]
      /\ Owner(t.node, t.epoch)
  BY DEF Run
<1>2. t.node \in Nodes
  BY DEF FleetInv, FleetTypeOK, Tokens
<1>3. \A m, e : Owner(m, e)' <=> Owner(m, e)
  BY ZenonT(30), <1>1 DEF Owner
<1>4. IsFiniteSet(tokens')
  BY ZenonT(30), <1>1, FS_RemoveElement DEF FleetInv
<1>5. Past'
  BY ZenonT(30), <1>1 DEF FleetInv, Past
<1>6. OnePlace
  BY DEF FleetInv, JobsPlaced
<1>7. OnePlace'
  BY ZenonT(30), <1>1, <1>3, <1>6 DEF OnePlace
<1>8. NoOvercommit'
  <2> SUFFICES ASSUME NEW m \in Nodes
               PROVE  Cardinality(Held(m)') <= inFlight'[m] /\ inFlight'[m] <= capacity'[m]
    BY DEF NoOvercommit
  <2>1. /\ Cardinality(Held(m)) <= inFlight[m] /\ inFlight[m] <= capacity[m]
        /\ inFlight[m] \in Nat /\ capacity[m] \in Nat
    BY ZenonT(30) DEF FleetInv, FleetTypeOK, NoOvercommit
  <2>2. IsFiniteSet(Held(m)) /\ Cardinality(Held(m)) \in Nat
    BY HeldFinite
  <2>3. Held(m)' = Held(m) \ {t}
    BY ZenonT(30), <1>1, <1>3 DEF Held
  <2>4. CASE m = t.node
    <3>1. t \in Held(m)
      BY ZenonT(30), <1>1, <2>4 DEF Held
    <3>2. Cardinality(Held(m)') = Cardinality(Held(m)) - 1
      BY ZenonT(30), <2>2, <2>3, <3>1, FS_RemoveElement
    <3>3. /\ inFlight'[m] = IF inFlight[m] = 0 THEN 0 ELSE inFlight[m] - 1
          /\ capacity'[m] = capacity[m]
      BY ZenonT(30), <1>1, <2>4 DEF FleetInv, FleetTypeOK
    <3> QED
      BY <2>1, <2>2, <3>2, <3>3
  <2>5. CASE m # t.node
    <3>1. Held(m)' = Held(m)
      BY ZenonT(30), <2>3, <2>5 DEF Held
    <3>2. inFlight'[m] = inFlight[m] /\ capacity'[m] = capacity[m]
      BY ZenonT(30), <1>1, <2>5 DEF FleetInv, FleetTypeOK
    <3> QED
      BY ZenonT(30), <2>1, <3>1, <3>2
  <2> QED
    BY ZenonT(30), <2>4, <2>5
<1>9. JobsRunOnce'
  BY ZenonT(30), <1>1, <1>6 DEF FleetInv, JobsRunOnce, OnePlace
<1> QED
  BY ZenonT(30), <1>4, <1>5, <1>7, <1>8, <1>9 DEF Slots

-----------------------------------------------------------------------------

\* An assignment keeps the types.
LEMMA AssignType ==
  ASSUME FleetInv, NEW j \in Jobs, NEW n \in Nodes, Assign(j, n),
         batch' \in [todo : SUBSET Jobs, mine : SUBSET Tokens],
         batch'.mine \subseteq tokens'
  PROVE  FleetTypeOK'
<1>1. [job |-> j, node |-> n, epoch |-> epoch[n]] \in Tokens
  BY ZenonT(30) DEF FleetInv, FleetTypeOK, Tokens
<1>2. inFlight' \in [Nodes -> Nat]
  BY DEF FleetInv, FleetTypeOK, Assign
<1> QED
  BY ZenonT(30), <1>1, <1>2 DEF FleetInv, FleetTypeOK, Assign

\* The reservation of one job preserves the invariant.
LEMMA ReserveJobInv ==
  ASSUME FleetInv, NEW j \in Jobs, NEW n \in Nodes, ReserveJob(j, n)
  PROVE  FleetInv'
<1>1. batch = NoBatch /\ batch' = batch /\ Wanted(j) /\ Assign(j, n)
  BY DEF ReserveJob
<1>2. FleetTypeOK'
  BY ZenonT(30), <1>1, AssignType DEF FleetInv, FleetTypeOK, NoBatch
<1>3. Slots'
  BY ZenonT(30), <1>1, AssignSlots
<1> QED
  BY ZenonT(30), <1>1, <1>2, <1>3 DEF FleetInv, Slots, JobsPlaced, NoBatch

\* A reservation in a batch preserves the invariant.
LEMMA BatchReserveInv ==
  ASSUME FleetInv, NEW j \in Jobs, NEW n \in Nodes, BatchReserve(j, n)
  PROVE  FleetInv'
<1>1. /\ j \in batch.todo /\ Assign(j, n) /\ Wanted(j)
      /\ batch' = [todo |-> batch.todo \ {j}, mine |-> batch.mine \cup (tokens' \ tokens)]
  BY DEF BatchReserve, FleetInv, JobsPlaced
<1>2. FleetTypeOK'
  <2>1. tokens \subseteq tokens' /\ tokens' \ tokens \subseteq Tokens
    BY <1>1 DEF Assign, Tokens, FleetInv, FleetTypeOK
  <2>2. batch.todo \subseteq Jobs /\ batch.mine \subseteq Tokens /\ batch.mine \subseteq tokens
    BY ZenonT(30) DEF FleetInv, FleetTypeOK
  <2>3. batch'.mine \subseteq tokens'
    BY ZenonT(30), <1>1, <2>1, <2>2
  <2>4. batch' \in [todo : SUBSET Jobs, mine : SUBSET Tokens]
    BY ZenonT(30), <1>1, <2>1, <2>2
  <2> QED
    BY ZenonT(30), <1>1, <2>3, <2>4, AssignType
<1>3. Slots' /\ \A k \in Jobs : k # j /\ Wanted(k) => Wanted(k)'
  BY ZenonT(30), <1>1, AssignSlots
<1>4. \A k \in batch'.todo : Wanted(k)'
  BY ZenonT(30), <1>1, <1>3 DEF FleetInv, FleetTypeOK, JobsPlaced
<1> QED
  BY ZenonT(30), <1>2, <1>3, <1>4 DEF FleetInv, Slots, JobsPlaced

\* Running a reserved job preserves the invariant, whether its token still
\* holds or is fenced.
LEMMA RunInv ==
  ASSUME FleetInv, NEW t \in tokens, RunReserved(t) \/ BatchRun(t)
  PROVE  FleetInv'
<1>1. Run(t) /\ batch.todo = {} /\ batch'.todo = {} /\ batch'.mine = batch.mine \ {t}
      /\ batch' \in [todo : SUBSET Jobs, mine : SUBSET Tokens]
  BY DEF RunReserved, BatchRun, NoBatch, FleetInv, FleetTypeOK
<1>2. FleetTypeOK'
  <2>1. t \in Tokens /\ t.node \in Nodes
    BY ZenonT(30) DEF FleetInv, FleetTypeOK, Tokens
  <2>2. inFlight' \in [Nodes -> Nat]
    <3>1. inFlight \in [Nodes -> Nat] /\ inFlight[t.node] \in Nat
      BY ZenonT(30), <2>1 DEF FleetInv, FleetTypeOK
    <3>2. (IF inFlight[t.node] = 0 THEN 0 ELSE inFlight[t.node] - 1) \in Nat
      BY <3>1
    <3> QED
      BY ZenonT(30), <1>1, <2>1, <3>1, <3>2 DEF Run
  <2> QED
    BY ZenonT(30), <1>1, <2>1, <2>2 DEF Run, FleetInv, FleetTypeOK
<1>3. Slots'
  BY ZenonT(30), <1>1, RunSlots
<1> QED
  BY ZenonT(30), <1>1, <1>2, <1>3 DEF FleetInv, Slots, JobsPlaced

\* The start of a batch preserves the invariant.
LEMMA BatchBeginInv ==
  ASSUME FleetInv, NEW jobs \in SUBSET Jobs, BatchBegin(jobs)
  PROVE  FleetInv'
<1>1. FleetTypeOK'
  BY ZenonT(30) DEF BatchBegin, FleetInv, FleetTypeOK, nodeVars
<1>2. JobsPlaced'
  BY DEF BatchBegin, FleetInv, JobsPlaced, OnePlace, Wanted, Owner, nodeVars
<1>3. NoOvercommit'
  BY ZenonT(30) DEF BatchBegin, FleetInv, NoOvercommit, Held, Owner, nodeVars
<1> QED
  BY ZenonT(30), <1>1, <1>2, <1>3 DEF BatchBegin, FleetInv, Past, JobsRunOnce, nodeVars

\* A batch that fails drops its reservations and keeps their slots taken.
LEMMA BatchRefusedInv ==
  ASSUME FleetInv, NEW j \in Jobs, NEW denied \in BOOLEAN, BatchRefused(j, denied)
  PROVE  FleetInv'
<1>1. /\ tokens' = tokens \ batch.mine /\ batch' = NoBatch
      /\ UNCHANGED <<nodeVars, ran>>
  BY DEF BatchRefused
<1>2. FleetTypeOK'
  BY ZenonT(30), <1>1 DEF FleetInv, FleetTypeOK, nodeVars, NoBatch
<1>3. IsFiniteSet(tokens')
  BY ZenonT(30), <1>1, FS_Subset DEF FleetInv
<1>4. JobsPlaced'
  BY ZenonT(30), <1>1 DEF FleetInv, JobsPlaced, OnePlace, Owner, nodeVars, NoBatch
<1>5. NoOvercommit'
  <2> SUFFICES ASSUME NEW m \in Nodes
               PROVE  Cardinality(Held(m)') <= inFlight'[m] /\ inFlight'[m] <= capacity'[m]
    BY DEF NoOvercommit
  <2>1. /\ Cardinality(Held(m)) <= inFlight[m] /\ inFlight[m] <= capacity[m]
        /\ inFlight[m] \in Nat
    BY ZenonT(30) DEF FleetInv, FleetTypeOK, NoOvercommit
  <2>2. Held(m)' \subseteq Held(m)
    BY ZenonT(30), <1>1 DEF Held, Owner, nodeVars
  <2>3. /\ Cardinality(Held(m)) \in Nat /\ Cardinality(Held(m)') \in Nat
        /\ Cardinality(Held(m)') <= Cardinality(Held(m))
    BY ZenonT(30), <2>2, HeldFinite, FS_Subset, FS_CardinalityType
  <2>4. inFlight'[m] = inFlight[m] /\ capacity'[m] = capacity[m]
    BY <1>1 DEF nodeVars
  <2> QED
    BY <2>1, <2>3, <2>4
<1> QED
  BY ZenonT(30), <1>1, <1>2, <1>3, <1>4, <1>5 DEF FleetInv, Past, JobsRunOnce, nodeVars

\* A step that changes nothing of the fleet preserves the invariant.
LEMMA StutterInv ==
  ASSUME FleetInv, UNCHANGED fleetVars
  PROVE  FleetInv'
<1>1. FleetTypeOK'
  BY ZenonT(30) DEF FleetInv, FleetTypeOK, fleetVars, nodeVars
<1>2. JobsPlaced'
  BY ZenonT(30) DEF FleetInv, JobsPlaced, OnePlace, Wanted, Owner, fleetVars, nodeVars
<1>3. NoOvercommit'
  BY ZenonT(30) DEF FleetInv, NoOvercommit, Held, Owner, fleetVars, nodeVars
<1> QED
  BY ZenonT(30), <1>1, <1>2, <1>3 DEF FleetInv, Past, JobsRunOnce, fleetVars, nodeVars

\* Every step of the fleet preserves the inductive invariant.
LEMMA FleetNextInv ==
  ASSUME FleetInv, [FleetNext]_fleetVars
  PROVE  FleetInv'
<1>1. CASE RegistryStep
  BY <1>1, RegistryInv
<1>2. ASSUME NEW j \in Jobs, NEW n \in Nodes, ReserveJob(j, n)
      PROVE  FleetInv'
  BY ZenonT(30), <1>2, ReserveJobInv
<1>3. ASSUME NEW j \in Jobs, NEW n \in Nodes, BatchReserve(j, n)
      PROVE  FleetInv'
  BY ZenonT(30), <1>3, BatchReserveInv
<1>4. ASSUME NEW t \in tokens, RunReserved(t) \/ BatchRun(t)
      PROVE  FleetInv'
  BY ZenonT(30), <1>4, RunInv
<1>5. ASSUME NEW jobs \in SUBSET Jobs, BatchBegin(jobs)
      PROVE  FleetInv'
  BY <1>5, BatchBeginInv
<1>6. ASSUME NEW j \in Jobs, NEW denied \in BOOLEAN, BatchRefused(j, denied)
      PROVE  FleetInv'
  BY ZenonT(30), <1>6, BatchRefusedInv
<1>7. CASE UNCHANGED fleetVars
  BY <1>7, StutterInv
<1> QED
  BY ZenonT(30), <1>1, <1>2, <1>3, <1>4, <1>5, <1>6, <1>7 DEF FleetNext, RegistryStep

\* The inductive invariant holds throughout.
THEOREM FleetInvariance == FleetSpec => []FleetInv
<1>1. FleetInit => FleetInv
  BY FleetInitInv
<1>2. FleetInv /\ [FleetNext]_fleetVars => FleetInv'
  BY FleetNextInv
<1> QED
  BY <1>1, <1>2, PTL DEF FleetSpec

\* Records, reservations and batches keep their shapes.
THEOREM FleetTypeCorrect == FleetSpec => []FleetTypeOK
<1>1. FleetInv => FleetTypeOK
  BY DEF FleetInv
<1> QED
  BY <1>1, FleetInvariance, PTL

\* However many nodes and jobs there are, no node has more current reservations
\* than in_flight says, and in_flight stays within the capacity (assign, release
\* and register).
THEOREM SlotsSuffice == FleetSpec => []NoOvercommit
<1>1. FleetInv => NoOvercommit
  BY DEF FleetInv
<1> QED
  BY <1>1, FleetInvariance, PTL

\* No job runs a second time with a reservation of an epoch that was fenced, for
\* any number of nodes, jobs, registrations and reaps (run_reserved).
THEOREM FencedJobsDoNotRun == FleetSpec => []JobsRunOnce
<1>1. FleetInv => JobsRunOnce
  BY DEF FleetInv
<1> QED
  BY <1>1, FleetInvariance, PTL

\* The steps that place and run jobs leave a node's state and epoch alone.
PlacingStep ==
  \/ \E j \in Jobs, n \in Nodes : ReserveJob(j, n) \/ BatchReserve(j, n)
  \/ \E t \in tokens : RunReserved(t) \/ BatchRun(t)
  \/ \E jobs \in SUBSET Jobs : BatchBegin(jobs)
  \/ \E j \in Jobs, denied \in BOOLEAN : BatchRefused(j, denied)

\* Only the registry changes the state or the epoch of a node.
LEMMA PlacingKeepsOwners ==
  ASSUME PlacingStep \/ UNCHANGED fleetVars
  PROVE  UNCHANGED <<state, epoch>>
BY ZenonT(30) DEF PlacingStep, ReserveJob, BatchReserve, Assign, RunReserved, BatchRun, Run,
       BatchBegin, BatchRefused, nodeVars, fleetVars

\* A step is the registry's, a placement, or none.
LEMMA StepKinds ==
  ASSUME [FleetNext]_fleetVars
  PROVE  RegistryStep \/ PlacingStep \/ UNCHANGED fleetVars
BY DEF FleetNext, RegistryStep, PlacingStep

\* A node whose daemon is fenced looks no younger until it registers again.
LEMMA FencedNotRefreshed ==
  ASSUME FleetInv, [FleetNext]_fleetVars, NEW n \in Nodes,
         ~Owner(n, daemon[n]), epoch'[n] = epoch[n]
  PROVE  age[n] <= age'[n]
<1>1. /\ age[n] \in Nat /\ epoch[n] \in Nat
      /\ DOMAIN age = Nodes /\ DOMAIN epoch = Nodes
  BY ZenonT(30) DEF FleetInv, FleetTypeOK
<1>2. CASE RegistryStep
  <2>1. CASE Tick
    BY <1>1, <2>1 DEF Tick
  <2>2. CASE Reap \/ \E m \in Nodes : Drain(m)
    BY <1>1, <2>2 DEF Reap, Drain
  <2>3. ASSUME NEW m \in Nodes, NEW c \in Capacities, Register(m, c) PROVE age[n] <= age'[n]
    BY <1>1, <2>3 DEF Register, NextEpoch
  <2>4. ASSUME NEW m \in Nodes, Heartbeat(m) PROVE age[n] <= age'[n]
    BY <1>1, <2>4 DEF Heartbeat, Owner
  <2> QED
    BY ZenonT(30), <1>2, <2>1, <2>2, <2>3, <2>4 DEF RegistryStep
<1>3. CASE PlacingStep \/ UNCHANGED fleetVars
  <2>1. age' = age
    BY ZenonT(30), <1>3 DEF PlacingStep, ReserveJob, BatchReserve, Assign, RunReserved, BatchRun,
           Run, BatchBegin, BatchRefused, nodeVars, fleetVars
  <2> QED
    BY <1>1, <2>1
<1> QED
  BY ZenonT(30), <1>2, <1>3, StepKinds

\* An epoch that was fenced, by a reap or by a registration, never owns its node
\* again, and its daemon's heartbeats do not refresh the node, for any number of
\* nodes (register, reap, heartbeat).
THEOREM FencingIsFinal == FleetSpec => FencedForGood
<1> DEFINE Fenced ==
      \A n \in Nodes :
        /\ \A e \in 1 .. epoch[n] : ~Owner(n, e) => ~Owner(n, e)'
        /\ ~Owner(n, daemon[n]) /\ epoch'[n] = epoch[n] => age[n] <= age'[n]
<1>1. ASSUME FleetInv, [FleetNext]_fleetVars, NEW n \in Nodes, NEW e \in 1 .. epoch[n], Owner(n, e)'
      PROVE  Owner(n, e)
  <2>1. CASE RegistryStep
    <3>1. epoch[n] \in Nat
      BY ZenonT(30), <1>1 DEF FleetInv, FleetTypeOK
    <3>2. e \in Nat /\ e <= epoch[n]
      BY <3>1
    <3> QED
      BY ZenonT(30), <1>1, <2>1, <3>2, Fences DEF FleetInv
  <2>2. CASE PlacingStep \/ UNCHANGED fleetVars
    BY ZenonT(30), <1>1, <2>2, PlacingKeepsOwners DEF Owner
  <2> QED
    BY ZenonT(30), <1>1, <2>1, <2>2, StepKinds
<1>2. ASSUME FleetInv, [FleetNext]_fleetVars
      PROVE  Fenced
  BY ZenonT(30), <1>1, <1>2, FencedNotRefreshed
<1>3. FleetInv /\ [FleetNext]_fleetVars => [Fenced]_fleetVars
  BY <1>2
<1> QED
  BY <1>3, FleetInvariance, PTL DEF FleetSpec, FencedForGood

\* A draining node is given nothing, by a reservation or by a batch, until it
\* registers again (drain, heartbeat, is_assignable).
THEOREM DrainingIsLeftAlone == FleetSpec => DrainingTakesNothing
<1> DEFINE Kept(n) == state[n] = "Draining" /\ epoch'[n] = epoch[n] =>
                        state'[n] = "Draining" /\ Held(n)' \subseteq Held(n)
           AllKept == \A n \in Nodes : Kept(n)
<1>1. ASSUME FleetInv, [FleetNext]_fleetVars
      PROVE  AllKept
  <2> SUFFICES ASSUME NEW n \in Nodes, state[n] = "Draining", epoch'[n] = epoch[n]
               PROVE  state'[n] = "Draining" /\ Held(n)' \subseteq Held(n)
    OBVIOUS
  <2>1. CASE RegistryStep
    <3>1. FleetTypeOK /\ FleetTypeOK' /\ UNCHANGED <<tokens, batch, ran>>
      BY ZenonT(30), <1>1, <2>1, RegistryType DEF FleetInv
    <3>2. ~\E c \in Capacities : Register(n, c)
      BY <3>1 DEF Register, NextEpoch, FleetTypeOK
    <3>3. state'[n] = "Draining"
      <4>1. ASSUME Reap PROVE state'[n] = "Draining"
        <5>1. n \notin Silent
          BY <3>1, <4>1 DEF Reap, FleetTypeOK
        <5> QED
          BY ZenonT(30), <4>1, <5>1 DEF Reap
      <4>2. ASSUME NEW m \in Nodes, NEW c \in Capacities, Register(m, c)
            PROVE  state'[n] = "Draining"
        BY ZenonT(30), <3>1, <3>2, <4>2 DEF Register, FleetTypeOK
      <4> QED
        BY ZenonT(30), <2>1, <3>1, <4>1, <4>2 DEF RegistryStep, Heartbeat, Drain, Tick, FleetTypeOK
    <3>4. \A e : Owner(n, e)' => Owner(n, e)
      BY <3>3 DEF Owner
    <3> QED
      BY ZenonT(30), <3>1, <3>3, <3>4 DEF Held
  <2>2. CASE PlacingStep \/ UNCHANGED fleetVars
    <3>1. UNCHANGED <<state, epoch>>
      BY ZenonT(30), <2>2, PlacingKeepsOwners
    <3>2. \A t \in tokens' : t \in tokens \/ t.node # n
      <4>1. ASSUME NEW j \in Jobs, NEW m \in Nodes, Assign(j, m)
            PROVE  \A t \in tokens' : t \in tokens \/ t.node # n
        BY <4>1 DEF Assign, First, Candidates, Assignable
      <4> QED
        BY ZenonT(30), <2>2, <4>1 DEF PlacingStep, ReserveJob, BatchReserve, RunReserved, BatchRun,
                          Run, BatchBegin, BatchRefused, fleetVars
    <3> QED
      BY ZenonT(30), <3>1, <3>2 DEF Held, Owner
  <2> QED
    BY ZenonT(30), <1>1, <2>1, <2>2, StepKinds
<1>2. FleetInv /\ [FleetNext]_fleetVars => [AllKept]_fleetVars
  BY ZenonT(30), <1>1
<1> QED
  BY <1>2, FleetInvariance, PTL DEF FleetSpec, DrainingTakesNothing

-----------------------------------------------------------------------------
(***************************************************************************)
(* The stream of a run's terminal, for every depth of the ring and of the  *)
(* channel with ChanCap < RingCap, and for every number of events and of   *)
(* broken connections.                                                     *)
(*                                                                         *)
(* The three invariants are not inductive.  RingInv says how far the ring  *)
(* reaches: from the first event, or over RingCap of them.  StreamInv says *)
(* how the parts of a stream fit together: during the replay the receiver  *)
(* stands right after the replay's last event, and the client's cursor is  *)
(* before the replay's next one, right before it unless a gap is about to  *)
(* be marked or was marked; in the live tail the client's cursor is the    *)
(* server's, and the receiver is beyond it, right after it or marked.      *)
(***************************************************************************)


RingInv ==
  /\ pushed = sent \/ pushed = sent + 1
  /\ pushed = 0 => oldest = 0
  /\ pushed > 0 => /\ 1 <= oldest
                   /\ oldest <= pushed
                   /\ (pushed + 1) - oldest <= RingCap
                   /\ oldest = 1 \/ (pushed + 1) - oldest = RingCap

ReplayInv ==
  /\ lastSeq < next
  /\ next = lastSeq + 1 \/ conn \in {"lagged", "told"}
  /\ cursor = upto
  /\ pos = upto + 1
  /\ upto <= sent

LiveInv ==
  /\ conn # "lagged"
  /\ lastSeq = cursor
  /\ cursor < pos
  /\ pos = cursor + 1 \/ conn = "told"
  /\ pos <= sent + 1

StreamInv ==
  conn # "closed" => /\ next <= upto => ReplayInv
                     /\ next > upto => LiveInv

TtyInv == StreamTypeOK /\ RingInv /\ StreamInv

\* The stream before its first frame satisfies the invariant.
LEMMA StreamInitInv == StreamInit => TtyInv
  BY DEF StreamInit, TtyInv, StreamTypeOK, RingInv, StreamInv

\* The ring grows by one, and drops one exactly when it is full.
LEMMA PushInv == TtyInv /\ Push => TtyInv'
<1> SUFFICES ASSUME TtyInv, Push PROVE TtyInv'
  OBVIOUS
<1> USE CapsAssumption, BoundsAssumption
<1>1. StreamTypeOK'
  BY DEF TtyInv, StreamTypeOK, RingInv, Push, Locked, streamVars
<1>2. RingInv'
  <2>1. CASE pushed = 0
    BY <2>1 DEF TtyInv, StreamTypeOK, RingInv, Push, Locked, streamVars
  <2>2. CASE pushed # 0 /\ (pushed + 1) - oldest >= RingCap
    <3>1. (pushed + 1) - oldest = RingCap
      BY <2>2 DEF TtyInv, StreamTypeOK, RingInv
    <3>2. oldest < pushed
      BY <2>2, <3>1 DEF TtyInv, StreamTypeOK, RingInv
    <3> QED
      BY <2>2, <3>1, <3>2 DEF TtyInv, StreamTypeOK, RingInv, Push, Locked, streamVars
  <2>3. CASE pushed # 0 /\ ~((pushed + 1) - oldest >= RingCap)
    BY <2>3 DEF TtyInv, StreamTypeOK, RingInv, Push, Locked, streamVars
  <2> QED
    BY ZenonT(30), <2>1, <2>2, <2>3
<1>3. StreamInv'
  BY ZenonT(30) DEF TtyInv, StreamTypeOK, StreamInv, ReplayInv, LiveInv, Push, Locked, streamVars
<1> QED
  BY ZenonT(30), <1>1, <1>2, <1>3 DEF TtyInv

\* Sending what was pushed to the channel preserves the invariant.
LEMMA SendInv == TtyInv /\ Send => TtyInv'
  BY DEF TtyInv, StreamTypeOK, RingInv, StreamInv, ReplayInv, LiveInv, Send, Locked, streamVars

\* What the route answers begins right after the client's cursor, or is marked.
LEMMA OpenInv == TtyInv /\ Open => TtyInv'
<1> SUFFICES ASSUME TtyInv, Open PROVE TtyInv'
  OBVIOUS
<1>1. StreamTypeOK' /\ RingInv'
  BY DEF TtyInv, StreamTypeOK, RingInv, Open, Locked, ringVars, Lagged, TailFrom
<1>2. CASE TailFrom(lastSeq) <= pushed
  <2>1. ReplayInv'
    BY <1>2 DEF TtyInv, StreamTypeOK, RingInv, ReplayInv, Open, Locked, ringVars, Lagged, TailFrom
  <2>2. next' <= upto'
    BY ZenonT(30), <1>2 DEF Open
  <2> QED
    BY <1>1, <2>1, <2>2 DEF TtyInv, StreamInv, StreamTypeOK
<1>3. CASE ~(TailFrom(lastSeq) <= pushed)
  <2>1. lastSeq = pushed /\ ~Lagged(lastSeq)
    BY <1>3 DEF TtyInv, StreamTypeOK, RingInv, Lagged, TailFrom
  <2>2. LiveInv'
    BY <1>3, <2>1 DEF TtyInv, StreamTypeOK, RingInv, LiveInv, Open, Locked, ringVars
  <2>3. next' > upto'
    BY <1>3 DEF TtyInv, StreamTypeOK, Open, TailFrom
  <2> QED
    BY <1>1, <2>2, <2>3 DEF TtyInv, StreamInv, StreamTypeOK
<1> QED
  BY ZenonT(30), <1>2, <1>3

\* The mark of a gap in front of a replay preserves the invariant.
LEMMA ReplayMarkInv == TtyInv /\ ReplayMark => TtyInv'
  BY ZenonT(30) DEF TtyInv, StreamTypeOK, RingInv, StreamInv, ReplayInv, LiveInv, ReplayMark, ringVars

\* A replayed frame preserves the invariant.
LEMMA ReplayStepInv == TtyInv /\ Replay => TtyInv'
<1> SUFFICES ASSUME TtyInv, Replay PROVE TtyInv'
  OBVIOUS
<1>1. ReplayInv /\ next \in Nat /\ upto \in Nat
  BY DEF TtyInv, StreamTypeOK, StreamInv, Replay, Serving
<1>2. lastSeq' = next
  BY ZenonT(30), <1>1 DEF TtyInv, StreamTypeOK, ReplayInv, Replay, Receive
<1>3. StreamTypeOK' /\ RingInv'
  BY <1>1, <1>2 DEF TtyInv, StreamTypeOK, RingInv, ReplayInv, Replay, Receive, ringVars
<1>4. StreamInv'
  BY <1>1, <1>2 DEF TtyInv, StreamTypeOK, StreamInv, ReplayInv, LiveInv, Replay, Receive, ringVars
<1> QED
  BY ZenonT(30), <1>3, <1>4 DEF TtyInv

\* In the live tail the receiver is beyond the cursor, so nothing is skipped.
LEMMA LiveStepInv == TtyInv /\ Live => TtyInv'
<1> SUFFICES ASSUME TtyInv, Live PROVE TtyInv'
  OBVIOUS
<1>1. LiveInv /\ next > upto
  BY DEF TtyInv, StreamTypeOK, StreamInv, Live, Replayed, Serving
<1>2. cursor' = pos /\ lastSeq' = pos /\ conn' = "open"
  BY <1>1 DEF TtyInv, StreamTypeOK, LiveInv, Live, Receive
<1>3. StreamTypeOK' /\ RingInv'
  BY <1>2 DEF TtyInv, StreamTypeOK, RingInv, Live, ringVars
<1>4. LiveInv' /\ next' > upto'
  BY <1>1, <1>2 DEF TtyInv, StreamTypeOK, LiveInv, Live, ringVars
<1> QED
  BY <1>3, <1>4 DEF TtyInv, StreamInv, StreamTypeOK

\* A receiver that the channel has left behind is told so, and then stands at
\* the oldest event there is, which preserves the invariant.
LEMMA OverflowInv == TtyInv /\ Overflow => TtyInv'
<1> SUFFICES ASSUME TtyInv, Overflow PROVE TtyInv'
  OBVIOUS
<1> USE CapsAssumption
<1>1. LiveInv /\ next > upto
  BY DEF TtyInv, StreamTypeOK, StreamInv, Overflow, Replayed, Serving
<1>2. ChanOldest \in Nat /\ ChanOldest <= sent + 1
  BY DEF TtyInv, StreamTypeOK, ChanOldest
<1>3. StreamTypeOK' /\ RingInv'
  BY ZenonT(30), <1>2 DEF TtyInv, StreamTypeOK, RingInv, Overflow, ringVars
<1>4. LiveInv' /\ next' > upto'
  BY <1>1, <1>2 DEF TtyInv, StreamTypeOK, LiveInv, Overflow, ringVars
<1> QED
  BY <1>3, <1>4 DEF TtyInv, StreamInv, StreamTypeOK

\* A dropped connection preserves the invariant.
LEMMA DropInv == TtyInv /\ Drop => TtyInv'
  BY BoundsAssumption DEF TtyInv, StreamTypeOK, RingInv, StreamInv, Drop, ringVars

\* Every step of the stream preserves the invariant.
LEMMA StreamNextInv == TtyInv /\ [StreamNext]_ttyVars => TtyInv'
<1> SUFFICES ASSUME TtyInv, [StreamNext]_ttyVars PROVE TtyInv'
  OBVIOUS
<1>1. CASE StreamNext
  BY ZenonT(30), <1>1, PushInv, SendInv, OpenInv, ReplayMarkInv, ReplayStepInv, LiveStepInv,
     OverflowInv, DropInv DEF StreamNext
<1>2. CASE UNCHANGED ttyVars
  BY ZenonT(30), <1>2 DEF ttyVars, ringVars, streamVars, TtyInv, StreamTypeOK, RingInv, StreamInv,
              ReplayInv, LiveInv
<1> QED
  BY ZenonT(30), <1>1, <1>2

\* The invariant of the stream holds throughout.
LEMMA StreamInvariance == StreamSpec => []TtyInv
  BY StreamInitInv, StreamNextInv, PTL DEF StreamSpec

\* The variables keep their types, and the client knows no event that was not
\* published (lastSeq of agentTtyTransport.ts and the events of append_event).
THEOREM StreamTypeCorrect == StreamSpec => []StreamTypeOK
  BY StreamInvariance, PTL DEF TtyInv

\* What a receiver of the broadcast channel can read is in the ring, also while
\* publish_tty is between the two.
THEOREM ChannelRetained == StreamSpec => []ChannelIsRetained
<1>1. TtyInv => ChannelIsRetained
  BY CapsAssumption DEF TtyInv, StreamTypeOK, RingInv, ChannelIsRetained, ChanOldest
<1> QED
  BY <1>1, StreamInvariance, PTL

\* The frames that tty_stream hands out never repeat or precede what the terminal
\* has shown.
THEOREM ShownOnce == StreamSpec => []ShownOnceInOrder
<1>1. TtyInv => ShownOnceInOrder
  <2> SUFFICES ASSUME TtyInv, NEW s \in 1..MaxSeq, Frame(s) PROVE s > lastSeq
    BY DEF ShownOnceInOrder
  <2>1. CASE next <= upto
    BY <2>1 DEF TtyInv, StreamTypeOK, StreamInv, ReplayInv, Frame, Serving
  <2>2. CASE next > upto
    BY <2>2 DEF TtyInv, StreamTypeOK, StreamInv, LiveInv, Frame, Serving
  <2> QED
    BY <2>1, <2>2 DEF TtyInv, StreamTypeOK
<1> QED
  BY <1>1, StreamInvariance, PTL

\* The frames that tty_stream hands out continue what the terminal has shown, or
\* come after a resync frame.
THEOREM GapsMarked == StreamSpec => []GapsAreMarked
<1>1. TtyInv => GapsAreMarked
  <2> SUFFICES ASSUME TtyInv, NEW s \in 1..MaxSeq, Frame(s)
               PROVE  s <= lastSeq + 1 \/ conn = "told"
    BY DEF GapsAreMarked
  <2>1. CASE next <= upto
    BY <2>1 DEF TtyInv, StreamTypeOK, StreamInv, ReplayInv, Frame, Serving
  <2>2. CASE next > upto
    BY <2>2 DEF TtyInv, StreamTypeOK, StreamInv, LiveInv, Frame, Serving
  <2> QED
    BY <2>1, <2>2 DEF TtyInv, StreamTypeOK
<1> QED
  BY <1>1, StreamInvariance, PTL
=============================================================================
