------------------------------ MODULE AgentRuns ------------------------------
(***************************************************************************)
(* Agent runs of the web server (jeryu-api, web/agent_runs, sessions.rs):  *)
(* runs started in a workcell that holds a failed tree, agent sessions of  *)
(* a repository with their companion shells, and the two ways in which the *)
(* work of a run becomes a pull request.                                   *)
(*                                                                         *)
(* Every run has a driver thread that supervises its process and records   *)
(* the outcome when the process ends or its time is up.  The handlers take *)
(* the mutexes of the run store, of the workcell manager and of the pool   *)
(* one at a time, so a handler's steps interleave with those of others.    *)
(* A session's branch is registered under the run id, which the caller may *)
(* choose; git compares and swaps the branch.                              *)
(***************************************************************************)
EXTENDS Workcells

CONSTANTS
  Repos,      \* repositories
  Callers,    \* the requests that may be in progress at a time
  MaxPulls,   \* bound on the pull requests
  Base,       \* the tip of the default branch
  Work        \* the commits that a session's agent made

ASSUME MaxPullsAssumption == MaxPulls \in Nat
ASSUME WorkAssumption == Work \notin {Base, None}
ASSUME RunsAssumption == \E x \in Sizes : \A y \in Sizes : y.runs <= x.runs

VARIABLES
  runs,       \* AgentRunStoreInner.runs, None for an id without a run
  nextId,     \* AgentRunStore.next_id
  drivers,    \* how many driver threads report to each run id
  refs,       \* the session branches, None for one that does not exist
  pulls,      \* the pull requests opened for runs, in order
  call        \* the handler that each caller's request is in

runVars == <<runs, nextId, drivers>>
workcellVars == <<web, poolVars>>
vars == <<workcellVars, runVars, refs, pulls, call>>

MaxRuns == CHOOSE n \in {x.runs : x \in Sizes} : \A x \in Sizes : x.runs <= n
RunIds == 1..MaxRuns
Branches == Repos \X Agents \X RunIds

NoCall == [op |-> "none"]

Init ==
  /\ WorkcellsInit
  /\ runs = [r \in RunIds |-> None]
  /\ nextId = 0
  /\ drivers = [r \in RunIds |-> 0]
  /\ refs = [b \in Branches |-> None]
  /\ pulls = <<>>
  /\ call = [p \in Callers |-> NoCall]

\* Bounds
Usable(r) == r \in 1..size.runs
MoreStarts == Usable(nextId + 1 + Cardinality({p \in Callers : call[p].op = "start"}))
MoreSessions == Cardinality({b \in Branches : refs[b] # None}) < size.sessions
MorePulls == Len(pulls) < MaxPulls

Exists(r) == runs[r] # None

Running(r) == Exists(r) /\ runs[r].state = "running"

SetState(rs, r, s) == IF rs[r] = None THEN rs ELSE [rs EXCEPT ![r].state = s]

-----------------------------------------------------------------------------
(* Runs in a workcell *)

\* resolve_workcell_source
Resolves(c, e) ==
  /\ HasEpoch(web, c, e)
  /\ web.cells[c].state \in {"held", "repairing"}

\* The record of a run keeps the cell, the epoch and the tree of the lease that
\* was read.
WorkcellRun(c, e) == [kind |-> "workcell", state |-> "running",
                      cell |-> c, epoch |-> e, tree |-> web.cells[c].tree]

\* start_request up to the unlock of the manager
ResolveSource(p, c, e) ==
  /\ call[p] = NoCall
  /\ MoreStarts
  /\ Resolves(c, e)
  /\ call' = [call EXCEPT ![p] = [op |-> "start", record |-> WorkcellRun(c, e)]]
  /\ UNCHANGED <<workcellVars, runVars, refs, pulls>>

\* allocate_id and insert; the handler has yet to spawn the driver thread.
Insert(p, x) ==
  LET r == nextId + 1 IN
  /\ Usable(r)
  /\ nextId' = r
  /\ runs' = [runs EXCEPT ![r] = x]
  /\ call' = [call EXCEPT ![p] = [op |-> "drive", run |-> r]]
  /\ UNCHANGED <<workcellVars, drivers, refs, pulls>>

\* start_request goes on with the lease that it copied.
StartRun(p) ==
  /\ call[p].op = "start"
  /\ Insert(p, call[p].record)

\* spawn_driver_thread, for the run that the handler inserted
SpawnDriver(p) ==
  /\ call[p].op = "drive"
  /\ drivers' = [drivers EXCEPT ![call[p].run] = @ + 1]
  /\ call' = [call EXCEPT ![p] = NoCall]
  /\ UNCHANGED <<workcellVars, runs, nextId, refs, pulls>>

\* The driver thread's last step, store.complete.
Complete(r, s) ==
  /\ drivers[r] > 0
  /\ drivers' = [drivers EXCEPT ![r] = @ - 1]
  /\ runs' = SetState(runs, r, s)
  /\ UNCHANGED <<workcellVars, nextId, refs, pulls, call>>

\* export_workcell_agent_run up to the unlock of the manager: the run has ended,
\* a repair branch is opened and the lease is copied.
ExportBranch(p, r, s) ==
  /\ call[p] = NoCall
  /\ Exists(r)
  /\ ~Running(r)
  /\ runs[r].kind = "workcell"
  /\ ExportRepairBranch(runs[r].cell, runs[r].epoch, s)
  /\ LET lease == web.cells[runs[r].cell]
         head == IF lease.frozen # None THEN lease.frozen.tree ELSE lease.tree
     IN  call' = [call EXCEPT ![p] = [op |-> "export", run |-> r,
                    pull |-> [kind |-> "export", cell |-> runs[r].cell,
                              head |-> head, source |-> runs[r].tree]]]
  /\ UNCHANGED <<poolVars, runVars, refs, pulls>>

\* The rest of it: the slice gate, create_pull_request and mark_exported.
ExportPull(p) ==
  /\ call[p].op = "export"
  /\ MorePulls
  /\ pulls' = Append(pulls, call[p].pull)
  /\ runs' = SetState(runs, call[p].run, "exported")
  /\ call' = [call EXCEPT ![p] = NoCall]
  /\ UNCHANGED <<workcellVars, nextId, drivers, refs>>

\* The export_pr route of a workcell, which keeps the manager locked.  The branch
\* stays open whether or not the slice gate and create_pull_request succeed
\* after it; the pull request is of no run and is not followed.
ExportCell(c, e, s) ==
  /\ ExportRepairBranch(c, e, s)
  /\ UNCHANGED <<poolVars, runVars, refs, pulls, call>>

-----------------------------------------------------------------------------
(* Sessions *)

\* create_session up to update_ref.  A caller that brings no run id gets the next
\* one whose branch does not exist.
FreshId(repo, agent) ==
  CHOOSE r \in RunIds : /\ r > nextId
                        /\ refs[<<repo, agent, r>>] = None
                        /\ \A q \in nextId + 1..r - 1 : refs[<<repo, agent, q>>] # None

Register(p, repo, agent, r) ==
  /\ call[p] = NoCall
  /\ MoreSessions
  /\ Usable(r)
  /\ refs[<<repo, agent, r>>] = None
  /\ refs' = [refs EXCEPT ![<<repo, agent, r>>] = Base]
  /\ call' = [call EXCEPT ![p] = [op |-> "claim", branch |-> <<repo, agent, r>>]]

RegisterOwn(p, repo, agent) ==
  /\ \E r \in RunIds : r > nextId /\ Usable(r) /\ refs[<<repo, agent, r>>] = None
  /\ Register(p, repo, agent, FreshId(repo, agent))
  /\ nextId' = FreshId(repo, agent)
  /\ UNCHANGED <<workcellVars, runs, drivers, pulls>>

\* An id is allocated and not used: the session cannot be planned, or the branch
\* was created after list_refs.
AllocateOnly ==
  /\ Usable(nextId + 1)
  /\ nextId' = nextId + 1
  /\ UNCHANGED <<workcellVars, runs, drivers, refs, pulls, call>>

RegisterNamed(p, repo, agent, r) ==
  /\ Register(p, repo, agent, r)
  /\ UNCHANGED <<workcellVars, runVars, pulls>>

SessionRequest(b) == [agent |-> b[2], tree |-> Base, epoch |-> 0, budget |-> 1,
                      rebased |-> TRUE]

\* insert_session
SessionRun(b) == [kind |-> "session", state |-> "running", branch |-> b]

ShellRun == [kind |-> "shell", state |-> "running"]

\* The pool's claim, and insert_session if it is answered with a cell.
ClaimSession(p, k) ==
  /\ call[p].op = "claim"
  /\ PoolClaim(SessionRequest(call[p].branch), k)
  /\ IF PoolAnswers(k)
       THEN /\ runs' = [runs EXCEPT ![call[p].branch[3]] = SessionRun(call[p].branch)]
            /\ call' = [call EXCEPT ![p].op = "launch"]
       ELSE /\ call' = [call EXCEPT ![p] = NoCall]
            /\ UNCHANGED runs
  /\ UNCHANGED <<web, nextId, drivers, refs, pulls>>

\* note_session_checkout_failed
CheckoutFails(p) ==
  /\ call[p].op = "launch"
  /\ runs' = SetState(runs, call[p].branch[3], "failed")
  /\ call' = [call EXCEPT ![p] = NoCall]
  /\ UNCHANGED <<workcellVars, nextId, drivers, refs, pulls>>

\* Mutant: a session whose agent is unavailable is not noted as failed.
LaunchAgentUnnoted(p, available) ==
  /\ call[p].op = "launch"
  /\ drivers' = IF available THEN [drivers EXCEPT ![call[p].branch[3]] = @ + 1] ELSE drivers
  /\ call' = [call EXCEPT ![p] = [op |-> "shell"]]
  /\ UNCHANGED <<workcellVars, runs, nextId, refs, pulls>>

\* spawn_session_agent: the driver thread, or note_agent_unavailable.
LaunchAgent(p, available) ==
  LET r == call[p].branch[3] IN
  /\ call[p].op = "launch"
  /\ drivers' = IF available THEN [drivers EXCEPT ![r] = @ + 1] ELSE drivers
  /\ runs' = IF available THEN runs ELSE SetState(runs, r, "failed")
  /\ call' = [call EXCEPT ![p] = [op |-> "shell"]]
  /\ UNCHANGED <<workcellVars, nextId, refs, pulls>>

\* A companion shell: the end of create_session, where the configuration has it,
\* and the shell route, for any run.
CompanionShell(p) ==
  /\ call[p].op = "shell"
  /\ Insert(p, ShellRun)

NoCompanionShell(p) ==
  /\ call[p].op = "shell"
  /\ call' = [call EXCEPT ![p] = NoCall]
  /\ UNCHANGED <<workcellVars, runVars, refs, pulls>>

Shell(p, r) ==
  /\ call[p] = NoCall
  /\ Exists(r)
  /\ Insert(p, ShellRun)

-----------------------------------------------------------------------------
(* publish_session *)

\* publish_info; only a session has a branch that git accepts.
Publish(p, r, head) ==
  /\ call[p] = NoCall
  /\ Exists(r)
  /\ runs[r].kind = "session"
  /\ runs[r].state # "exported"
  /\ call' = [call EXCEPT ![p] = [op |-> "advance", run |-> r,
                                  branch |-> runs[r].branch, head |-> head]]
  /\ UNCHANGED <<workcellVars, runVars, refs, pulls>>

\* Mutant: the branch is moved from wherever it is.
AdvanceAnyway(p) ==
  /\ call[p].op = "advance"
  /\ refs' = [refs EXCEPT ![call[p].branch] = call[p].head]
  /\ call' = [call EXCEPT ![p].op = "open"]
  /\ UNCHANGED <<workcellVars, runVars, pulls>>

\* update_ref from the base that the session was registered at.
Advance(p) ==
  /\ call[p].op = "advance"
  /\ IF refs[call[p].branch] = Base
       THEN /\ refs' = [refs EXCEPT ![call[p].branch] = call[p].head]
            /\ call' = [call EXCEPT ![p].op = "open"]
       ELSE /\ call' = [call EXCEPT ![p] = NoCall]
            /\ UNCHANGED refs
  /\ UNCHANGED <<workcellVars, runVars, pulls>>

\* create_pull_request and mark_exported
OpenPull(p) ==
  /\ call[p].op = "open"
  /\ MorePulls
  /\ pulls' = Append(pulls, [kind |-> "publish", branch |-> call[p].branch,
                             head |-> call[p].head])
  /\ runs' = SetState(runs, call[p].run, "exported")
  /\ call' = [call EXCEPT ![p] = NoCall]
  /\ UNCHANGED <<workcellVars, nextId, drivers, refs>>

\* The slice gate or create_pull_request fails.
NoPull(p) ==
  /\ call[p].op \in {"export", "open"}
  /\ call' = [call EXCEPT ![p] = NoCall]
  /\ UNCHANGED <<workcellVars, runVars, refs, pulls>>

-----------------------------------------------------------------------------

CallerStep(p) ==
  \/ StartRun(p)
  \/ SpawnDriver(p)
  \/ ExportPull(p)
  \/ \E k \in 0..Target + 1 : ClaimSession(p, k)
  \/ CheckoutFails(p)
  \/ \E available \in BOOLEAN : LaunchAgent(p, available)
  \/ CompanionShell(p)
  \/ NoCompanionShell(p)
  \/ Advance(p)
  \/ OpenPull(p)
  \/ NoPull(p)

DriverStep(r) == \E s \in {"succeeded", "failed"} : Complete(r, s)

Next ==
  \/ WebNext /\ UNCHANGED <<runVars, refs, pulls, call>>
  \/ \E c \in DOMAIN web.cells, e \in Epochs, s \in BranchNames : ExportCell(c, e, s)
  \/ \E r \in RunIds : DriverStep(r)
  \/ AllocateOnly
  \/ \E p \in Callers :
       \/ CallerStep(p)
       \/ \E c \in DOMAIN web.cells, e \in Epochs : ResolveSource(p, c, e)
       \/ \E r \in RunIds : Shell(p, r)
       \/ \E r \in RunIds, s \in BranchNames : ExportBranch(p, r, s)
       \/ \E r \in RunIds, head \in {Base, Work} : Publish(p, r, head)
       \/ \E repo \in Repos, agent \in Agents :
            \/ RegisterOwn(p, repo, agent)
            \/ \E r \in RunIds : RegisterNamed(p, repo, agent, r)

Spec == Init /\ [][Next]_vars

-----------------------------------------------------------------------------

RunStates == {"running", "succeeded", "failed", "exported"}

WorkcellRuns == [kind : {"workcell"}, state : RunStates, cell : Nat, epoch : Nat,
                 tree : Trees \cup {None}]

Runs == WorkcellRuns
          \cup [kind : {"session"}, state : RunStates, branch : Branches]
          \cup [kind : {"shell"}, state : RunStates]

ExportPulls == [kind : {"export"}, cell : Nat, head : Trees \cup {None},
                source : Trees \cup {None}]

PublishPulls == [kind : {"publish"}, branch : Branches, head : {Base, Work}]

Calls == {NoCall, [op |-> "shell"]}
           \cup [op : {"start"}, record : WorkcellRuns]
           \cup [op : {"drive"}, run : RunIds]
           \cup [op : {"export"}, run : RunIds, pull : ExportPulls]
           \cup [op : {"claim", "launch"}, branch : Branches]
           \cup [op : {"advance", "open"}, run : RunIds, branch : Branches,
                  head : {Base, Work}]

TypeOK ==
  /\ WorkcellsTypeOK({Base})
  /\ runs \in [RunIds -> Runs \cup {None}]
  /\ nextId \in Nat
  /\ drivers \in [RunIds -> Nat]
  /\ refs \in [Branches -> {None, Base, Work}]
  /\ pulls \in Seq(ExportPulls \cup PublishPulls)
  /\ call \in [Callers -> Calls]

\* The pull request with the work of a session's branch
WorkPull(b) == [kind |-> "publish", branch |-> b, head |-> Work]

\* A session's work is published in one pull request at most, whatever happens to
\* the run's state: the driver thread that reports after a publish overwrites
\* "exported", and two requests may both find the run unpublished, but only one
\* of them moves the branch from its base.
PublishedOnce ==
  \A b \in Branches : \A i, j \in DOMAIN pulls :
    pulls[i] = WorkPull(b) /\ pulls[j] = WorkPull(b) => i = j

\* Two claims never collide on an id (WorkcellManager::claim): runs that were
\* started in the same cell were started on the tree of one claim.
ClaimsNeverCollide ==
  \A q, r \in RunIds :
    /\ Exists(q) /\ runs[q].kind = "workcell"
    /\ Exists(r) /\ runs[r].kind = "workcell"
    /\ runs[q].cell = runs[r].cell
    => runs[q].tree = runs[r].tree

\* The harm of a collision is confined to the cell that is given out twice: any
\* other pull request that is exported for a run is about the failed tree that
\* the run was started on, however late it is exported (hold_failed_tree,
\* export_workcell_agent_run).
OnlyTwiceClaimedMixesTrees ==
  \A x \in Range(pulls) :
    x.kind = "export" /\ ~TwiceClaimed(x.cell) => x.head = x.source

\* What idles in the pool can be handed out: its container is running, its cell
\* is ready in the ledger and queued there, and no cell idles twice.
PoolIsWarm ==
  /\ IsInjective(warm)
  /\ Range(warm) \subseteq containers
  /\ Range(warm) \subseteq Range(pool.queue)
  /\ \A c \in Range(warm) : pool.cells[c].state = "ready"

\* The request of p inserted run r and has yet to spawn its driver thread.
Inserted(p, r) ==
  \/ call[p].op = "launch" /\ call[p].branch[3] = r
  \/ call[p].op = "drive" /\ call[p].run = r

\* A run that is running will be ended by somebody: a driver thread reports to its
\* id, or the request that inserted it has yet to spawn one.  That holds
\* although a caller's run id may replace the record of another run, whose driver
\* then reports to the new record.
RunningIsSupervised ==
  \A r \in RunIds :
    Running(r) => \/ drivers[r] > 0
                  \/ \E p \in Callers : Inserted(p, r)

=============================================================================
