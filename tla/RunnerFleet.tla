----------------------------- MODULE RunnerFleet -----------------------------
(***************************************************************************)
(* The registry of runner nodes (jeryu-runner-registry) and the fleet that *)
(* places jobs on them (jeryu-runnerd, fleet.rs).                          *)
(*                                                                         *)
(* Nodes come up, send heartbeats, fall silent, are reaped, drained and    *)
(* registered again.  A caller reserves a slot for a job and runs the job  *)
(* later with the reservation it was given, or submits a batch, which does *)
(* both in one call.  By the time a reservation is used its node may have  *)
(* died and come back, and its job may have been given to another node.    *)
(*                                                                         *)
(* Every operation takes the fleet by mutable reference, so a batch        *)
(* excludes all others; time alone goes on.  What the registry knows of    *)
(* time is how long ago it heard of a node: age is now minus               *)
(* last_heartbeat_epoch, counted up to the first value that reap acts on.  *)
(***************************************************************************)
EXTENDS Integers, FiniteSets

CONSTANTS
  Nodes,       \* node ids, in the order of the registry's BTreeMap
  Jobs,        \* job ids
  CanRun,      \* the nodes whose classes include the class of each job
  Capacities,  \* the capacities a node may announce
  Ttl,         \* heartbeat_ttl
  MaxEpoch     \* bound: a node registers only below it (u64 in the code)

ASSUME NodesAssumption == Nodes \subseteq Nat
ASSUME CanRunAssumption == CanRun \in [Jobs -> SUBSET Nodes]
ASSUME CapacitiesAssumption == Capacities \subseteq Nat
ASSUME TtlAssumption == Ttl \in Nat
ASSUME MaxEpochAssumption == MaxEpoch \in Nat

VARIABLES
  state,     \* NodeRecord.state, "Unknown" for a node without a record
  epoch,     \* NodeRecord.epoch
  capacity,  \* NodeRecord.capacity
  inFlight,  \* NodeRecord.in_flight
  age,       \* now - NodeRecord.last_heartbeat_epoch
  daemon,    \* the epoch the node's daemon has accepted, 0 without one
  tokens,    \* the reservations that have not been run
  batch,     \* the submit_batch in progress: jobs to reserve, reservations
  ran        \* the reservations that were run

nodeVars == <<state, epoch, capacity, inFlight, age, daemon>>
fleetVars == <<nodeVars, tokens, batch, ran>>

NodeStates == {"Unknown", "Active", "Draining", "Dead"}

Tokens == [job : Jobs, node : Nodes, epoch : Nat]

NoBatch == [todo |-> {}, mine |-> {}]

-----------------------------------------------------------------------------

FleetInit ==
  /\ state = [n \in Nodes |-> "Unknown"]
  /\ epoch = [n \in Nodes |-> 0]
  /\ capacity = [n \in Nodes |-> 0]
  /\ inFlight = [n \in Nodes |-> 0]
  /\ age = [n \in Nodes |-> 0]
  /\ daemon = [n \in Nodes |-> 0]
  /\ tokens = {}
  /\ batch = NoBatch
  /\ ran = {}

\* The epoch a registration gives: 1 to a new node, a higher one than ever
\* before to a known one.  It saturates in the code, at 2^64 - 1.
NextEpoch(n) == epoch[n] + 1

\* RunnerFleet::register and NodeRegistry::register.
Register(n, c) ==
  /\ batch = NoBatch
  /\ epoch[n] + 1 < MaxEpoch
  /\ state' = [state EXCEPT ![n] = "Active"]
  /\ epoch' = [epoch EXCEPT ![n] = NextEpoch(n)]
  /\ capacity' = [capacity EXCEPT ![n] = c]
  /\ inFlight' = [inFlight EXCEPT ![n] = 0]
  /\ age' = [age EXCEPT ![n] = 0]
  /\ daemon' = [daemon EXCEPT ![n] = NextEpoch(n)]
  /\ UNCHANGED <<tokens, batch, ran>>

\* Mutant: a dead node is refreshed as well.
HeartbeatUnfenced(n) ==
  /\ batch = NoBatch
  /\ state[n] # "Unknown"
  /\ age' = [age EXCEPT ![n] = 0]
  /\ UNCHANGED <<state, epoch, capacity, inFlight, daemon, tokens, batch, ran>>

\* heartbeat with the epoch the daemon holds.  One that is stale, or of a dead
\* node, is answered and changes nothing.
Heartbeat(n) ==
  /\ batch = NoBatch
  /\ state[n] \in {"Active", "Draining"}
  /\ daemon[n] = epoch[n]
  /\ age' = [age EXCEPT ![n] = 0]
  /\ UNCHANGED <<state, epoch, capacity, inFlight, daemon, tokens, batch, ran>>

LiveNodes == {n \in Nodes : state[n] \in {"Active", "Draining"}}

\* The nodes whose deadline has passed.
Silent == {n \in LiveNodes : age[n] > Ttl}

\* reap: one sweep over all nodes.
Reap ==
  /\ batch = NoBatch
  /\ Silent # {}
  /\ state' = [n \in Nodes |-> IF n \in Silent THEN "Dead" ELSE state[n]]
  /\ epoch' = [n \in Nodes |-> IF n \in Silent THEN epoch[n] + 1 ELSE epoch[n]]
  /\ UNCHANGED <<capacity, inFlight, age, daemon, tokens, batch, ran>>

\* drain: the node keeps what it runs and is given nothing more.
Drain(n) ==
  /\ batch = NoBatch
  /\ state[n] = "Active"
  /\ state' = [state EXCEPT ![n] = "Draining"]
  /\ UNCHANGED <<epoch, capacity, inFlight, age, daemon, tokens, batch, ran>>

AssignableAtCapacity(n) == state[n] = "Active" /\ inFlight[n] <= capacity[n]

\* NodeRecord::is_assignable
Assignable(n) == state[n] = "Active" /\ inFlight[n] < capacity[n]

\* The nodes that may take job j; assign picks the first.
Candidates(j) == {n \in CanRun[j] : Assignable(n)}

First(n, set) == n \in set /\ \A m \in set : n <= m

\* is_current_owner
Owner(n, e) == state[n] \in {"Active", "Draining"} /\ epoch[n] = e

\* A job that its caller asks a slot for: it has not run, and the slot it may
\* have had before was fenced.
Wanted(j) ==
  /\ \A t \in ran : t.job # j
  /\ \A t \in tokens : t.job = j => ~Owner(t.node, t.epoch)

\* reserve_job, admitted by the runner policy, when some node can take the job.
\* A node with a record has a daemon.
Assign(j, n) ==
  /\ First(n, Candidates(j))
  /\ daemon[n] > 0
  /\ inFlight' = [inFlight EXCEPT ![n] = @ + 1]
  /\ tokens' = tokens \cup {[job |-> j, node |-> n, epoch |-> epoch[n]]}
  /\ UNCHANGED <<state, epoch, capacity, age, daemon, ran>>

ReserveJob(j, n) ==
  /\ batch = NoBatch
  /\ Wanted(j)
  /\ Assign(j, n)
  /\ UNCHANGED batch

RunStale(t) ==
  /\ state[t.node] \in {"Active", "Draining"}
  /\ tokens' = tokens \ {t}
  /\ ran' = ran \cup {t}
  /\ inFlight' = [inFlight EXCEPT ![t.node] = IF @ = 0 THEN 0 ELSE @ - 1]
  /\ UNCHANGED <<state, epoch, capacity, age, daemon>>

\* run_reserved with a reservation that is current, for the registry and for
\* the daemon.  With another one it is an error and changes nothing.
Run(t) ==
  /\ Owner(t.node, t.epoch)
  /\ daemon[t.node] = t.epoch
  /\ tokens' = tokens \ {t}
  /\ ran' = ran \cup {t}
  /\ inFlight' = [inFlight EXCEPT ![t.node] = IF @ = 0 THEN 0 ELSE @ - 1]
  /\ UNCHANGED <<state, epoch, capacity, age, daemon>>

RunReserved(t) ==
  /\ batch = NoBatch
  /\ Run(t)
  /\ UNCHANGED batch

\* submit_batch; submit and submit_with_assignment are batches of one job.
BatchBegin(jobs) ==
  /\ batch = NoBatch
  /\ jobs # {}
  /\ \A j \in jobs : Wanted(j)
  /\ batch' = [todo |-> jobs, mine |-> {}]
  /\ UNCHANGED <<nodeVars, tokens, ran>>

BatchReserve(j, n) ==
  /\ j \in batch.todo
  /\ Assign(j, n)
  /\ batch' = [todo |-> batch.todo \ {j}, mine |-> batch.mine \cup (tokens' \ tokens)]

\* A job of the batch is refused, by the policy or because no node can take it:
\* the call returns the error, and the reservations it held are gone.
BatchRefused(j, denied) ==
  /\ j \in batch.todo
  /\ denied \/ Candidates(j) = {}
  /\ tokens' = tokens \ batch.mine
  /\ batch' = NoBatch
  /\ UNCHANGED <<nodeVars, ran>>

\* Every job has its slot: they are run one after the other.
BatchRun(t) ==
  /\ batch.todo = {}
  /\ t \in batch.mine
  /\ Run(t)
  /\ batch' = [batch EXCEPT !.mine = @ \ {t}]

\* Time passes; for a node without a record, or a dead one, it does not matter.
Tick ==
  /\ \E n \in LiveNodes : age[n] <= Ttl
  /\ age' = [n \in Nodes |-> IF n \in LiveNodes /\ age[n] <= Ttl THEN age[n] + 1 ELSE age[n]]
  /\ UNCHANGED <<state, epoch, capacity, inFlight, daemon, tokens, batch, ran>>

FleetNext ==
  \/ Tick
  \/ Reap
  \/ \E n \in Nodes :
       \/ \E c \in Capacities : Register(n, c)
       \/ Heartbeat(n)
       \/ Drain(n)
       \/ \E j \in Jobs : ReserveJob(j, n) \/ BatchReserve(j, n)
  \/ \E t \in tokens : RunReserved(t) \/ BatchRun(t)
  \/ \E jobs \in SUBSET Jobs : BatchBegin(jobs)
  \/ \E j \in Jobs, denied \in BOOLEAN : BatchRefused(j, denied)

FleetSpec == FleetInit /\ [][FleetNext]_fleetVars

-----------------------------------------------------------------------------

\* Records, reservations and batches have the shapes of the code, a node with a
\* record has a daemon, and a batch holds reservations for jobs not in its list.
FleetTypeOK ==
  /\ state \in [Nodes -> NodeStates]
  /\ epoch \in [Nodes -> Nat]
  /\ capacity \in [Nodes -> Nat]
  /\ inFlight \in [Nodes -> Nat]
  /\ age \in [Nodes -> Nat]
  /\ daemon \in [Nodes -> Nat]
  /\ tokens \subseteq Tokens
  /\ ran \subseteq Tokens
  /\ batch \in [todo : SUBSET Jobs, mine : SUBSET Tokens]
  /\ batch.mine \subseteq tokens
  /\ \A n \in Nodes : state[n] # "Unknown" => daemon[n] > 0

\* The reservations that node n would still run.
Held(n) == {t \in tokens : t.node = n /\ Owner(n, t.epoch)}

\* A node never has more jobs reserved than the slots it announced, across
\* re-registrations with fewer slots, late runs and failed batches (assign,
\* release, register).
NoOvercommit ==
  \A n \in Nodes :
    /\ Cardinality(Held(n)) <= inFlight[n]
    /\ inFlight[n] <= capacity[n]

\* A job that is given to another node after its first one was fenced runs once,
\* however late the first reservation is used and whatever the first node does
\* in the meantime (is_current_owner, run_reserved).
JobsRunOnce == \A t, u \in ran : t.job = u.job => t = u

\* An epoch that was fenced is never an owner again (register, reap), and the
\* heartbeats that its daemon goes on sending do not refresh the node: "this is the
\* fencing guarantee for a node that has been reaped" (node_registry.rs:51).
FencedForGood ==
  [][\A n \in Nodes :
       /\ \A e \in 1 .. epoch[n] : ~Owner(n, e) => ~Owner(n, e)'
       /\ ~Owner(n, daemon[n]) /\ epoch'[n] = epoch[n] => age[n] <= age'[n]]_fleetVars

\* A node that drains is given no job until it registers again, whatever
\* heartbeats it sends ("never auto-promoted back to Active").
DrainingTakesNothing ==
  [][\A n \in Nodes :
       state[n] = "Draining" /\ epoch'[n] = epoch[n] =>
         state'[n] = "Draining" /\ Held(n)' \subseteq Held(n)]_fleetVars

=============================================================================
