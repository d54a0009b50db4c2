--------------------------- MODULE AgentRunsProofs ---------------------------
(***************************************************************************)
(* Proofs about AgentRuns for every number of callers, repositories, cells,*)
(* runs and pull requests, and every depth of the pools.                   *)
(*                                                                         *)
(* None of the four properties is inductive.  IInv adds what they rest on: *)
(*   - a run in a workcell is in a cell that keeps the run's tree, because *)
(*     a held cell is not queued (WebInv); so is a run that a handler is   *)
(*     about to insert (StartInv), and an export that was begun is of such *)
(*     a tree (ExportInv);                                                 *)
(*   - what idles in the pool is in order (PoolInv);                       *)
(*   - a branch that was moved to the work has been moved by one request,  *)
(*     which has yet to open the pull request or has opened it             *)
(*     (PublishInv).                                                       *)
(* The lemmas go handler by handler, and Invariance puts them together.    *)
(***************************************************************************)
EXTENDS AgentRuns, WorkcellsProofs

\* A run is in a cell that nobody can claim again, so that the cell stays with
\* the run's tree.
RunsKeep(m) ==
    \A r \in RunIds : runs[r] # None /\ runs[r].kind = "workcell" =>
        Keeps(m, runs[r].cell, runs[r].tree)

WebInv == LedgerInv /\ RunsKeep(web)

\* The same of a run that a handler is about to insert
StartInv ==
    \A p \in Callers : call[p].op = "start" =>
        Keeps(web, call[p].record.cell, call[p].record.tree)

\* The same of the exports that were begun, and of those that were opened
Own(x) == x.head = x.source \/ TwiceClaimed(x.cell)

ExportInv ==
    /\ \A p \in Callers : call[p].op = "export" => Own(call[p].pull)
    /\ OnlyTwiceClaimedMixesTrees

Pulled(b) == \E i \in DOMAIN pulls : pulls[i] = WorkPull(b)

Opens(p, b) == call[p].op = "open" /\ call[p].branch = b /\ call[p].head = Work

\* A branch at the work has been moved there by one request, which opens the pull
\* request of the branch or has opened it.
PublishInv ==
    /\ PublishedOnce
    /\ \A b \in Branches :
           /\ Pulled(b) => refs[b] = Work
           /\ \A p \in Callers : Opens(p, b) => /\ refs[b] = Work
                                                /\ ~Pulled(b)
                                                /\ \A q \in Callers : Opens(q, b) => q = p

RunsType ==
    /\ runs \in [RunIds -> Runs \cup {None}]
    /\ nextId \in Nat
    /\ drivers \in [RunIds -> Nat]

RefsType == refs \in [Branches -> {None, Base, Work}]

PullsType == pulls \in Seq(ExportPulls \cup PublishPulls)

CallsType == call \in [Callers -> Calls]

PoolInv == PoolTypeOK({Base} \cup {None}) /\ size \in Sizes /\ Ordered(pool) /\ Idle

IInv ==
    /\ WebType /\ WebInv
    /\ PoolInv
    /\ RunsType /\ RefsType /\ PullsType /\ CallsType
    /\ StartInv /\ ExportInv
    /\ PublishInv
    /\ RunningIsSupervised

-----------------------------------------------------------------------------
(* Runs, calls and pull requests *)

LEMMA UsableIds ==
    ASSUME size \in Sizes, NEW r, Usable(r)
    PROVE  r \in RunIds
<1>1. \E n \in {x.runs : x \in Sizes} : \A x \in Sizes : x.runs <= n
  BY ZenonT(30), RunsAssumption
<1>2. MaxRuns \in {x.runs : x \in Sizes} /\ \A x \in Sizes : x.runs <= MaxRuns
  BY ZenonT(30), <1>1 DEF MaxRuns
<1>3. MaxRuns \in Nat /\ size.runs \in Nat
  BY ZenonT(30), <1>2, SizesAssumption
<1>4. QED
  BY <1>2, <1>3 DEF Usable, RunIds

\* A branch name names an agent and a run.
LEMMA BranchParts ==
    ASSUME NEW b \in Branches
    PROVE  b[2] \in Agents /\ b[3] \in RunIds
BY DEF Branches

\* set_state of a run changes the state of that run and nothing else.
LEMMA SetStateShape ==
    ASSUME NEW rs \in [RunIds -> Runs \cup {None}], NEW r \in RunIds, NEW s \in RunStates,
           NEW t, t = SetState(rs, r, s)
    PROVE  /\ t \in [RunIds -> Runs \cup {None}]
           /\ \A x \in RunIds \ {r} : t[x] = rs[x]
           /\ t[r] # None => rs[r] # None /\ t[r].kind = rs[r].kind /\ t[r].state = s
           /\ t[r] # None /\ t[r].kind = "workcell" =>
                  t[r].cell = rs[r].cell /\ t[r].tree = rs[r].tree
<1>1. CASE rs[r] = None
  BY ZenonT(30), <1>1 DEF SetState
<1>2. CASE rs[r] # None
  <2> DEFINE x == rs[r]
             y == [x EXCEPT !.state = s]
  <2>1. x \in Runs
    BY ZenonT(30), <1>2
  <2>2. t = [rs EXCEPT ![r] = y]
    BY ZenonT(30), <1>2 DEF SetState
  <2> HIDE DEF x
  <2>3. /\ y \in Runs /\ y.kind = x.kind /\ y.state = s
        /\ y.kind = "workcell" => y.cell = x.cell /\ y.tree = x.tree
    BY ZenonT(30), <2>1 DEF Runs, WorkcellRuns
  <2> HIDE DEF y
  <2>4. QED
    BY ZenonT(30), <1>2, <2>2, <2>3 DEF x
<1>3. QED
  BY ZenonT(30), <1>1, <1>2

\* What a caller remembers between two steps of its request: the run and the
\* branch it goes on with are of the right kind, and the step from claim to
\* launch keeps the branch.
LEMMA CallShape ==
    ASSUME NEW x \in Calls
    PROVE  /\ x.op = "start" => x.record \in WorkcellRuns
           /\ x.op = "drive" => x.run \in RunIds
           /\ x.op = "export" => x.run \in RunIds /\ x.pull \in ExportPulls
           /\ x.op \in {"claim", "launch"} => x.branch \in Branches
           /\ x.op = "claim" => /\ [x EXCEPT !.op = "launch"] \in Calls
                                /\ [x EXCEPT !.op = "launch"].op = "launch"
                                /\ [x EXCEPT !.op = "launch"].branch = x.branch
           /\ x.op \in {"advance", "open"} =>
                  x.run \in RunIds /\ x.branch \in Branches /\ x.head \in {Base, Work}
           /\ x.op = "advance" => /\ [x EXCEPT !.op = "open"] \in Calls
                                  /\ [x EXCEPT !.op = "open"].op = "open"
                                  /\ [x EXCEPT !.op = "open"].branch = x.branch
                                  /\ [x EXCEPT !.op = "open"].head = x.head
BY DEF Calls, NoCall

\* One pull request more
LEMMA PullAppended ==
    ASSUME NEW T, NEW s \in Seq(T), NEW x \in T, NEW t, t = Append(s, x)
    PROVE  /\ t \in Seq(T)
           /\ DOMAIN s = 1..Len(s) /\ DOMAIN t = 1..Len(s) + 1 /\ Len(s) \in Nat
           /\ \A i \in 1..Len(s) : t[i] = s[i]
           /\ t[Len(s) + 1] = x
<1>1. Len(s) \in Nat /\ DOMAIN s = 1..Len(s)
  BY ZenonT(30), LenProperties
<1>2. QED
  BY <1>1, AppendProperties

\* A step that leaves the pool alone keeps what is known of it.
LEMMA PoolFrame ==
    ASSUME PoolInv, UNCHANGED poolVars
    PROVE  PoolInv'
BY ZenonT(30), IdleFrame DEF PoolInv, poolVars

\* A step that leaves the web workcells and the runs alone keeps what is
\* known of both.
LEMMA WebFrame ==
    ASSUME WebType, WebInv, UNCHANGED <<web, runs>>
    PROVE  WebType' /\ WebInv'
BY ZenonT(30), LedgerFrame DEF WebInv, RunsKeep

\* A new state of a run, or a run that is in no cell, leaves the others in theirs.
LEMMA SetStateKeeps ==
    ASSUME RunsType, WebType, WebInv, UNCHANGED web, NEW r \in RunIds, NEW s \in RunStates,
           runs' = SetState(runs, r, s)
    PROVE  /\ runs' \in [RunIds -> Runs \cup {None}]
           /\ WebType' /\ WebInv'
           /\ \A x \in RunIds : x # r => runs'[x] = runs[x]
           /\ Running(r)' => s = "running"
<1> DEFINE t == runs'
<1>1. t = SetState(runs, r, s) /\ runs \in [RunIds -> Runs \cup {None}]
  BY DEF RunsType
<1> HIDE DEF t
<1>2. /\ t \in [RunIds -> Runs \cup {None}]
      /\ \A x \in RunIds \ {r} : t[x] = runs[x]
      /\ t[r] # None => runs[r] # None /\ t[r].kind = runs[r].kind /\ t[r].state = s
      /\ t[r] # None /\ t[r].kind = "workcell" =>
             t[r].cell = runs[r].cell /\ t[r].tree = runs[r].tree
  BY SMTT(20), <1>1, SetStateShape
<1>3. RunsKeep(web)'
  BY SMTT(20), <1>2 DEF WebInv, RunsKeep, t
<1>4. QED
  BY ZenonT(30), <1>2, <1>3, LedgerFrame DEF WebInv, Running, Exists, t

\* A new record of a run leaves the others in their cells, if it is in a cell
\* that stays with its tree or in none.
LEMMA NewRunKeeps ==
    ASSUME RunsType, WebType, WebInv, UNCHANGED web, NEW r \in RunIds, NEW x \in Runs,
           x.kind = "workcell" => Keeps(web, x.cell, x.tree),
           runs' = [runs EXCEPT ![r] = x]
    PROVE  /\ runs' \in [RunIds -> Runs \cup {None}]
           /\ WebType' /\ WebInv'
           /\ \A y \in RunIds : y # r => runs'[y] = runs[y]
<1>1. /\ runs' \in [RunIds -> Runs \cup {None}]
      /\ runs'[r] = x
      /\ \A y \in RunIds : y # r => runs'[y] = runs[y]
  BY DEF RunsType
<1>2. RunsKeep(web)'
  BY ZenonT(30), <1>1 DEF WebInv, RunsKeep
<1>3. QED
  BY ZenonT(30), <1>1, <1>2, LedgerFrame DEF WebInv

\* Runs that do not change stay in cells that keep their trees.
LEMMA WebKept ==
    ASSUME WebInv, LedgerInv', KeptBy(web'), UNCHANGED runs
    PROVE  WebInv'
BY ZenonT(30) DEF WebInv, RunsKeep, KeptBy

\* A handler that copied its lease may be overtaken by a step that keeps the
\* trees of the cells.
LEMMA StartKept ==
    ASSUME StartInv, KeptBy(web'), UNCHANGED call
    PROVE  StartInv'
BY ZenonT(30) DEF StartInv, KeptBy

\* A manager that does not change keeps what it kept.
LEMMA SameKept ==
    ASSUME UNCHANGED web
    PROVE  KeptBy(web')
BY ZenonT(30) DEF KeptBy

\* A step of the workcell routes alone preserves the invariant: the runs go
\* on exporting the tree they started with.
LEMMA WebStepInv ==
    ASSUME IInv, WebNext, UNCHANGED <<runVars, refs, pulls, call>>
    PROVE  IInv'
<1>1. WebType' /\ LedgerInv' /\ KeptBy(web') /\ UNCHANGED poolVars
  BY ZenonT(30), WebNextInv DEF IInv, WebInv
<1>2. WebInv'
  BY ZenonT(30), <1>1, WebKept DEF IInv, runVars
<1>3. PoolInv'
  BY ZenonT(30), <1>1, PoolFrame DEF IInv
<1>4. RunsType' /\ RefsType' /\ PullsType' /\ CallsType'
  BY ZenonT(30) DEF IInv, runVars, RunsType, RefsType, PullsType, CallsType
<1>5. StartInv' /\ ExportInv'
  BY ZenonT(30), <1>1, StartKept DEF IInv, ExportInv, OnlyTwiceClaimedMixesTrees
<1>6. PublishInv'
  BY ZenonT(30) DEF IInv, PublishInv, PublishedOnce, Pulled, Opens
<1>7. RunningIsSupervised'
  BY ZenonT(30) DEF IInv, runVars, RunningIsSupervised, Inserted, Running, Exists
<1>8. QED
  BY ZenonT(30), <1>1, <1>2, <1>3, <1>4, <1>5, <1>6, <1>7 DEF IInv

\* Exporting a workcell's repair branch preserves the invariant.
LEMMA ExportCellInv ==
    ASSUME IInv, NEW c \in DOMAIN web.cells, NEW e, NEW s \in BranchNames, ExportCell(c, e, s)
    PROVE  IInv'
<1>1. WebType' /\ WebInv' /\ StartInv'
  <2>1. WebType' /\ LedgerInv' /\ KeptBy(web')
    BY ZenonT(30), OpenBranchInv DEF IInv, WebInv, ExportCell
  <2>2. QED
    BY ZenonT(30), <2>1, WebKept, StartKept DEF IInv, ExportCell, runVars
<1>2. PoolInv'
  BY ZenonT(30), PoolFrame DEF IInv, ExportCell
<1>3. RunsType' /\ RefsType' /\ PullsType' /\ CallsType'
  BY ZenonT(30) DEF IInv, ExportCell, runVars, RunsType, RefsType, PullsType, CallsType
<1>4. ExportInv'
  BY SMTT(20) DEF IInv, ExportCell, ExportInv, OnlyTwiceClaimedMixesTrees
<1>5. PublishInv'
  BY ZenonT(30) DEF IInv, ExportCell, PublishInv, PublishedOnce, Pulled, Opens
<1>6. RunningIsSupervised'
  BY ZenonT(30) DEF IInv, ExportCell, runVars, RunningIsSupervised, Inserted, Running, Exists
<1>7. QED
  BY ZenonT(30), <1>1, <1>2, <1>3, <1>4, <1>5, <1>6 DEF IInv

\* The completion of a run preserves the invariant: no run is left running
\* without its supervisor.
LEMMA CompleteInv ==
    ASSUME IInv, NEW r \in RunIds, NEW s \in {"succeeded", "failed"}, Complete(r, s)
    PROVE  IInv'
<1>1. /\ drivers[r] > 0 /\ drivers' = [drivers EXCEPT ![r] = @ - 1]
      /\ runs' = SetState(runs, r, s)
      /\ UNCHANGED <<workcellVars, nextId, refs, pulls, call>>
      /\ UNCHANGED web
  BY DEF Complete, workcellVars
<1>2. /\ runs' \in [RunIds -> Runs \cup {None}]
      /\ WebType' /\ WebInv'
      /\ \A x \in RunIds : x # r => runs'[x] = runs[x]
      /\ ~Running(r)'
  BY ZenonT(30), <1>1, SetStateKeeps DEF IInv, RunStates
<1>3. drivers' \in [RunIds -> Nat] /\ \A y \in RunIds : y # r => drivers'[y] = drivers[y]
  BY <1>1 DEF IInv, RunsType
<1>4. RunsType' /\ RefsType' /\ PullsType' /\ CallsType'
  BY ZenonT(30), <1>1, <1>2, <1>3 DEF IInv, RunsType, RefsType, PullsType, CallsType
<1>5. PoolInv'
  BY ZenonT(30), <1>1, PoolFrame DEF IInv, workcellVars
<1>6. StartInv' /\ ExportInv'
  <2>1. StartInv'
    BY ZenonT(30), <1>1, SameKept, StartKept DEF IInv
  <2>2. QED
    BY SMTT(20), <1>1, <2>1 DEF IInv, ExportInv, OnlyTwiceClaimedMixesTrees
<1>7. PublishInv'
  BY ZenonT(30), <1>1 DEF IInv, PublishInv, PublishedOnce, Pulled, Opens
<1>8. RunningIsSupervised'
  BY <1>1, <1>2, <1>3 DEF IInv, RunningIsSupervised, Inserted, Running, Exists
<1>9. QED
  BY ZenonT(30), <1>2, <1>4, <1>5, <1>6, <1>7, <1>8 DEF IInv

\* A handler that goes on to a step which opens no pull request of a session.
LEMMA CallInv ==
    ASSUME CallsType, StartInv, ExportInv, PublishInv, NEW p \in Callers, NEW x \in Calls,
           x.op # "open", x.op = "export" => Own(x.pull),
           x.op = "start" => Keeps(web, x.record.cell, x.record.tree),
           call' = [call EXCEPT ![p] = x], UNCHANGED pulls, KeptBy(web'),
           \A b \in Branches : refs[b] = Work => refs'[b] = Work
    PROVE  /\ CallsType' /\ StartInv' /\ ExportInv' /\ PublishInv'
           /\ call'[p] = x /\ \A q \in Callers : q # p => call'[q] = call[q]
<1>1. CallsType' /\ call'[p] = x /\ \A q \in Callers : q # p => call'[q] = call[q]
  BY DEF CallsType
<1>2. ExportInv'
  BY ZenonT(30), <1>1 DEF ExportInv, OnlyTwiceClaimedMixesTrees, Own
<1>3. \A q \in Callers, b \in Branches : Opens(q, b)' => Opens(q, b)
  BY SMTT(20), <1>1 DEF Opens
<1>4. PublishedOnce' /\ \A b \in Branches : Pulled(b)' <=> Pulled(b)
  BY SMTT(20) DEF PublishInv, PublishedOnce, Pulled
<1>5. PublishInv'
  BY ZenonT(30), <1>3, <1>4 DEF PublishInv
<1>6. StartInv'
  BY ZenonT(30), <1>1 DEF StartInv, KeptBy
<1>7. QED
  BY ZenonT(30), <1>1, <1>2, <1>5, <1>6

\* The value of a caller between requests is one of the calls.
LEMMA NoCallShape == NoCall \in Calls /\ NoCall.op = "none"
BY DEF Calls, NoCall

\* A step that only moves one caller on, and neither to opening a pull
\* request nor away from a run that it inserted, preserves the invariant.
LEMMA CallStep ==
    ASSUME IInv, NEW p \in Callers, NEW x \in Calls,
           x.op # "open", x.op = "export" => Own(x.pull),
           x.op = "start" => Keeps(web, x.record.cell, x.record.tree),
           call[p].op \notin {"launch", "drive"},
           call' = [call EXCEPT ![p] = x], UNCHANGED <<workcellVars, runVars, refs, pulls>>
    PROVE  IInv'
<1>1. /\ CallsType' /\ StartInv' /\ ExportInv' /\ PublishInv'
      /\ call'[p] = x /\ \A q \in Callers : q # p => call'[q] = call[q]
  BY ZenonT(30), SameKept, CallInv DEF IInv, workcellVars
<1>2. WebType' /\ WebInv' /\ PoolInv'
  BY ZenonT(30), WebFrame, PoolFrame DEF IInv, workcellVars, runVars
<1>3. RunsType' /\ RefsType' /\ PullsType'
  BY ZenonT(30) DEF IInv, runVars, RunsType, RefsType, PullsType
<1>4. RunningIsSupervised'
  BY <1>1 DEF IInv, runVars, RunningIsSupervised, Inserted, Running, Exists
<1>5. QED
  BY ZenonT(30), <1>1, <1>2, <1>3, <1>4 DEF IInv

\* The first half of an export preserves the invariant: the head that the caller
\* copies from the lease is the tree its run started with, but for the cell that
\* stays queued when it is claimed.
LEMMA ExportBranchInv ==
    ASSUME IInv, NEW p \in Callers, NEW r \in RunIds, NEW s \in BranchNames,
           ExportBranch(p, r, s)
    PROVE  IInv'
<1> DEFINE c == runs[r].cell
           lease == web.cells[c]
           head == IF lease.frozen # None THEN lease.frozen.tree ELSE lease.tree
           x == [op |-> "export", run |-> r,
                 pull |-> [kind |-> "export", cell |-> c, head |-> head,
                           source |-> runs[r].tree]]
<1>1. /\ call[p] = NoCall /\ runs[r] # None /\ runs[r].kind = "workcell"
      /\ ExportRepairBranch(c, runs[r].epoch, s)
      /\ call' = [call EXCEPT ![p] = x]
      /\ UNCHANGED <<poolVars, runVars, refs, pulls>>
  BY ZenonT(30) DEF ExportBranch, Exists
<1>2. c \in DOMAIN web.cells
  BY ZenonT(30), <1>1 DEF IInv, WebInv, RunsKeep, Keeps
<1>3. /\ TwiceClaimed(c) \/ lease.tree = runs[r].tree
      /\ lease.frozen # None => lease.frozen.tree = lease.tree
  BY ZenonT(30), <1>1, <1>2 DEF IInv, WebInv, RunsKeep, Keeps, LedgerInv, Ordered
<1>4. WebType' /\ WebInv' /\ KeptBy(web')
  <2>1. WebType' /\ LedgerInv' /\ KeptBy(web')
    BY ZenonT(30), <1>1, <1>2, OpenBranchInv DEF IInv, WebInv
  <2>2. QED
    BY ZenonT(30), <1>1, <2>1, WebKept DEF IInv, runVars
<1>5. x \in Calls /\ x.op = "export" /\ Own(x.pull)
  <2>1. lease \in CellsOf(WebTrees) /\ c \in Nat
    BY SMTT(20), <1>2, ManagerSequences, ElementOfSeq DEF IInv, WebType
  <2>2. runs[r] \in Runs /\ runs[r].tree \in Trees \cup {None}
    BY ZenonT(30), <1>1 DEF IInv, RunsType, Runs, WorkcellRuns
  <2>3. head = lease.tree /\ lease.tree \in Trees \cup {None}
    BY ZenonT(30), <1>1, <1>3, <2>1 DEF IInv, WebInv, LedgerInv, Ordered, CellsOf, WebTrees
  <2> HIDE DEF c, lease, head
  <2>4. x.pull \in ExportPulls
    BY ZenonT(30), <2>1, <2>2, <2>3 DEF ExportPulls
  <2>5. Own(x.pull)
    BY ZenonT(30), <1>3, <2>3 DEF Own
  <2>6. QED
    BY ZenonT(30), <2>4, <2>5 DEF Calls
<1> HIDE DEF x
<1>6. /\ CallsType' /\ StartInv' /\ ExportInv' /\ PublishInv'
      /\ call'[p] = x /\ \A q \in Callers : q # p => call'[q] = call[q]
  BY ZenonT(30), <1>1, <1>4, <1>5, CallInv DEF IInv
<1>7. RunsType' /\ RefsType' /\ PullsType' /\ PoolInv'
  BY SMTT(20), <1>1, PoolFrame DEF IInv, runVars, RunsType, RefsType, PullsType
<1>8. RunningIsSupervised'
  BY SMTT(20), <1>1, <1>6 DEF IInv, runVars, RunningIsSupervised, Inserted, Running, Exists, NoCall
<1>9. QED
  BY ZenonT(30), <1>4, <1>6, <1>7, <1>8 DEF IInv

\* A branch that did not exist is registered at the base.
LEMMA RegisterInv ==
    ASSUME IInv, NEW p \in Callers, NEW repo \in Repos, NEW agent \in Agents, NEW r,
           Register(p, repo, agent, r), UNCHANGED <<workcellVars, runs, drivers, pulls>>,
           nextId' \in Nat
    PROVE  IInv'
<1> DEFINE b == <<repo, agent, r>>
           x == [op |-> "claim", branch |-> b]
<1>1. r \in RunIds
  BY ZenonT(30), UsableIds DEF IInv, PoolInv, Register
<1>2. b \in Branches
  BY ZenonT(30), <1>1 DEF Branches
<1>3. /\ call[p] = NoCall /\ refs[b] = None /\ refs' = [refs EXCEPT ![b] = Base]
      /\ call' = [call EXCEPT ![p] = x]
  BY SMTT(20) DEF Register
<1> HIDE DEF b
<1>4. x \in Calls /\ x.op = "claim"
  BY ZenonT(30), <1>2 DEF Calls
<1> HIDE DEF x
<1>5. RefsType' /\ \A a \in Branches : refs[a] = Work => refs'[a] = Work
  BY ZenonT(30), <1>2, <1>3, WorkAssumption DEF IInv, RefsType
<1>6. /\ CallsType' /\ StartInv' /\ ExportInv' /\ PublishInv'
      /\ call'[p] = x /\ \A q \in Callers : q # p => call'[q] = call[q]
  BY ZenonT(30), <1>3, <1>4, <1>5, SameKept, CallInv DEF IInv, workcellVars
<1>7. WebType' /\ WebInv' /\ PoolInv'
  BY ZenonT(30), WebFrame, PoolFrame DEF IInv, workcellVars
<1>8. RunsType' /\ PullsType'
  BY ZenonT(30) DEF IInv, RunsType, PullsType
<1>9. RunningIsSupervised'
  BY <1>3, <1>6 DEF IInv, RunningIsSupervised, Inserted, Running, Exists, NoCall
<1>10. QED
  BY ZenonT(30), <1>5, <1>6, <1>7, <1>8, <1>9 DEF IInv

\* The allocation of an id whose registration does not follow preserves the
\* invariant.
LEMMA AllocateOnlyInv ==
    ASSUME IInv, AllocateOnly
    PROVE  IInv'
<1>1. WebType' /\ WebInv' /\ PoolInv'
  BY ZenonT(30), WebFrame, PoolFrame DEF IInv, AllocateOnly, workcellVars
<1>2. RunsType' /\ RefsType' /\ PullsType' /\ CallsType'
  BY SMTT(20) DEF IInv, AllocateOnly, RunsType, RefsType, PullsType, CallsType
<1>3. ExportInv' /\ PublishInv' /\ RunningIsSupervised'
  BY SMTT(20) DEF IInv, AllocateOnly, ExportInv, OnlyTwiceClaimedMixesTrees, PublishInv, PublishedOnce, Pulled, Opens,
         RunningIsSupervised, Inserted, Running, Exists
<1>4. StartInv'
  BY ZenonT(30), SameKept, StartKept DEF IInv, AllocateOnly, workcellVars
<1>5. QED
  BY ZenonT(30), <1>1, <1>2, <1>3, <1>4 DEF IInv

\* A session is recorded when the pool answers, and its caller has to launch it.
LEMMA ClaimSessionInv ==
    ASSUME IInv, NEW p \in Callers, NEW k \in Nat, ClaimSession(p, k)
    PROVE  IInv'
<1> DEFINE b == call[p].branch
           r == b[3]
<1>1. /\ call[p].op = "claim" /\ PoolClaim(SessionRequest(b), k)
      /\ UNCHANGED <<web, nextId, drivers, refs, pulls>>
  BY ZenonT(30) DEF ClaimSession
<1>2. call[p] \in Calls /\ b \in Branches
  BY ZenonT(30), <1>1, CallShape DEF IInv, CallsType
<1>3. b[2] \in Agents /\ r \in RunIds
  BY ZenonT(30), <1>2, BranchParts
<1>4. PoolInv'
  <2>1. SessionRequest(b) \in RequestsOf({Base} \cup {None})
    BY ZenonT(30), <1>3 DEF SessionRequest, RequestsOf
  <2>2. PoolTypeOK({Base} \cup {None})' /\ Ordered(pool)' /\ Idle'
    BY ZenonT(30), <1>1, <2>1, PoolClaimInv DEF IInv, PoolInv
  <2>3. UNCHANGED size
    BY ZenonT(30), <1>1 DEF PoolClaim
  <2>4. QED
    BY ZenonT(30), <2>2, <2>3 DEF IInv, PoolInv
<1>5. RefsType' /\ PullsType'
  BY ZenonT(30), <1>1 DEF IInv, RefsType, PullsType
<1>6. CASE PoolAnswers(k)
  <2> DEFINE x == [call[p] EXCEPT !.op = "launch"]
             y == SessionRun(b)
  <2>1. runs' = [runs EXCEPT ![r] = y] /\ call' = [call EXCEPT ![p] = x]
    BY ZenonT(30), <1>6 DEF ClaimSession
  <2>2. x \in Calls /\ x.op = "launch" /\ x.branch = b
    BY ZenonT(30), <1>1, <1>2, CallShape
  <2>3. y \in Runs /\ y.kind # "workcell"
    BY ZenonT(30), <1>2 DEF SessionRun, Runs, RunStates
  <2> HIDE DEF x, y
  <2>4. /\ CallsType' /\ StartInv' /\ ExportInv' /\ PublishInv'
        /\ call'[p] = x /\ \A q \in Callers : q # p => call'[q] = call[q]
    BY ZenonT(30), <1>1, <2>1, <2>2, SameKept, CallInv DEF IInv
  <2>5. /\ runs' \in [RunIds -> Runs \cup {None}] /\ WebType' /\ WebInv'
        /\ \A z \in RunIds : z # r => runs'[z] = runs[z]
    BY ZenonT(30), <1>1, <1>3, <2>1, <2>3, NewRunKeeps DEF IInv
  <2>6. RunsType'
    BY SMTT(20), <1>1, <2>5 DEF IInv, RunsType
  <2>7. RunningIsSupervised'
    BY SMTT(20), <1>1, <1>3, <2>2, <2>4, <2>5 DEF IInv, RunningIsSupervised, Inserted, Running, Exists
  <2>8. QED
    BY ZenonT(30), <1>4, <1>5, <2>4, <2>5, <2>6, <2>7 DEF IInv
<1>7. CASE ~PoolAnswers(k)
  <2>1. call' = [call EXCEPT ![p] = NoCall] /\ UNCHANGED runs
    BY ZenonT(30), <1>7 DEF ClaimSession
  <2>2. /\ CallsType' /\ StartInv' /\ ExportInv' /\ PublishInv'
        /\ call'[p] = NoCall /\ \A q \in Callers : q # p => call'[q] = call[q]
    BY ZenonT(30), <1>1, <2>1, NoCallShape, SameKept, CallInv DEF IInv
  <2>3. WebType' /\ WebInv'
    BY ZenonT(30), <1>1, <2>1, WebFrame DEF IInv
  <2>4. RunsType' /\ RunningIsSupervised'
    BY SMTT(20), <1>1, <2>1, <2>2 DEF IInv, RunsType, RunningIsSupervised, Inserted, Running, Exists
  <2>5. QED
    BY ZenonT(30), <1>4, <1>5, <2>2, <2>3, <2>4 DEF IInv
<1>8. QED
  BY ZenonT(30), <1>6, <1>7

\* The end of a launch: the run that the handler inserted has a driver thread, or
\* is no longer running.
LEMMA LaunchedInv ==
    ASSUME IInv, NEW p \in Callers, NEW x \in Calls,
           x.op \notin {"open", "export", "start"}, call' = [call EXCEPT ![p] = x],
           NEW r \in RunIds, \A y \in RunIds : Inserted(p, y) => y = r,
           \/ drivers' = [drivers EXCEPT ![r] = @ + 1] /\ UNCHANGED runs
           \/ runs' = SetState(runs, r, "failed") /\ UNCHANGED drivers,
           UNCHANGED <<workcellVars, nextId, refs, pulls>>
    PROVE  IInv'
<1>1. /\ CallsType' /\ StartInv' /\ ExportInv' /\ PublishInv'
      /\ call'[p] = x /\ \A q \in Callers : q # p => call'[q] = call[q]
  BY ZenonT(30), SameKept, CallInv DEF IInv, workcellVars
<1>2. PoolInv' /\ RefsType' /\ PullsType' /\ UNCHANGED web
  BY ZenonT(30), PoolFrame DEF IInv, workcellVars, RefsType, PullsType
<1>2a. \A q \in Callers, y \in RunIds : Inserted(q, y) => Inserted(q, y)' \/ y = r
  BY ZenonT(30), <1>1 DEF Inserted
<1>3. CASE drivers' = [drivers EXCEPT ![r] = @ + 1] /\ UNCHANGED runs
  <2>1. drivers' \in [RunIds -> Nat] /\ drivers'[r] > 0
        /\ \A y \in RunIds : y # r => drivers'[y] = drivers[y]
    BY SMTT(20), <1>3 DEF IInv, RunsType
  <2>2. WebType' /\ WebInv' /\ RunsType'
    BY ZenonT(30), <1>2, <1>3, <2>1, WebFrame DEF IInv, RunsType
  <2>3. RunningIsSupervised'
    BY SMTT(20), <1>2a, <1>3, <2>1 DEF IInv, RunningIsSupervised, Running, Exists
  <2>4. QED
    BY ZenonT(30), <1>1, <1>2, <2>2, <2>3 DEF IInv
<1>4. CASE runs' = SetState(runs, r, "failed") /\ UNCHANGED drivers
  <2>1. /\ runs' \in [RunIds -> Runs \cup {None}]
        /\ WebType' /\ WebInv'
        /\ \A y \in RunIds : y # r => runs'[y] = runs[y]
        /\ ~Running(r)'
    BY ZenonT(30), <1>2, <1>4, SetStateKeeps DEF IInv, RunStates
  <2>2. RunsType'
    BY ZenonT(30), <1>4, <2>1 DEF IInv, RunsType
  <2>3. RunningIsSupervised'
    BY SMTT(20), <1>2a, <1>4, <2>1 DEF IInv, RunningIsSupervised, Running, Exists
  <2>4. QED
    BY ZenonT(30), <1>1, <1>2, <2>1, <2>2, <2>3 DEF IInv
<1>5. QED
  BY ZenonT(30), <1>3, <1>4

\* A claim whose checkout fails preserves the invariant.
LEMMA CheckoutFailsInv ==
    ASSUME IInv, NEW p \in Callers, CheckoutFails(p)
    PROVE  IInv'
<1>1. call[p] \in Calls /\ call[p].op = "launch"
  BY ZenonT(30) DEF IInv, CallsType, CheckoutFails
<1>2. call[p].branch[3] \in RunIds
  BY ZenonT(30), <1>1, CallShape, BranchParts
<1>3. QED
  BY ZenonT(30), <1>1, <1>2, NoCallShape, LaunchedInv DEF CheckoutFails, Inserted

\* The launch preserves the invariant: the run gets its driver thread, or is
\* noted as failed.
LEMMA LaunchAgentInv ==
    ASSUME IInv, NEW p \in Callers, NEW available \in BOOLEAN, LaunchAgent(p, available)
    PROVE  IInv'
<1> DEFINE x == [op |-> "shell"]
<1>1. call[p] \in Calls /\ call[p].op = "launch"
  BY ZenonT(30) DEF IInv, CallsType, LaunchAgent
<1>2. call[p].branch[3] \in RunIds
  BY ZenonT(30), <1>1, CallShape, BranchParts
<1>3. x \in Calls /\ x.op = "shell"
  BY DEF Calls
<1>4. /\ call' = [call EXCEPT ![p] = x]
      /\ \/ drivers' = [drivers EXCEPT ![call[p].branch[3]] = @ + 1] /\ UNCHANGED runs
         \/ runs' = SetState(runs, call[p].branch[3], "failed") /\ UNCHANGED drivers
      /\ UNCHANGED <<workcellVars, nextId, refs, pulls>>
  BY ZenonT(30) DEF LaunchAgent
<1> HIDE DEF x
<1>5. QED
  BY ZenonT(30), <1>1, <1>2, <1>3, <1>4, LaunchedInv DEF Inserted

\* A driver thread for the run that the handler inserted preserves the invariant.
LEMMA SpawnDriverInv ==
    ASSUME IInv, NEW p \in Callers, SpawnDriver(p)
    PROVE  IInv'
<1>1. call[p] \in Calls /\ call[p].op = "drive"
  BY ZenonT(30) DEF IInv, CallsType, SpawnDriver
<1>2. call[p].run \in RunIds
  BY ZenonT(30), <1>1, CallShape
<1>3. QED
  BY ZenonT(30), <1>1, <1>2, NoCallShape, LaunchedInv DEF SpawnDriver, Inserted

\* A new run, whose handler has yet to spawn the driver thread, preserves the
\* invariant if it is in a cell that stays with its tree or in none.
LEMMA InsertInv ==
    ASSUME IInv, NEW p \in Callers, call[p].op \notin {"launch", "drive"}, NEW x \in Runs,
           x.kind = "workcell" => Keeps(web, x.cell, x.tree), Insert(p, x)
    PROVE  IInv'
<1> DEFINE r == nextId + 1
           y == [op |-> "drive", run |-> r]
<1>1. /\ Usable(r) /\ nextId' = r /\ runs' = [runs EXCEPT ![r] = x]
      /\ call' = [call EXCEPT ![p] = y]
      /\ UNCHANGED <<workcellVars, drivers, refs, pulls>> /\ UNCHANGED web
  BY ZenonT(30) DEF Insert, workcellVars
<1>2. r \in RunIds /\ r \in Nat
  BY <1>1, UsableIds DEF IInv, PoolInv, RunsType
<1> HIDE DEF r
<1>3. y \in Calls /\ y.op = "drive" /\ y.run = r
  BY ZenonT(30), <1>2 DEF Calls
<1> HIDE DEF y
<1>4. /\ runs' \in [RunIds -> Runs \cup {None}] /\ WebType' /\ WebInv'
      /\ \A z \in RunIds : z # r => runs'[z] = runs[z]
  BY ZenonT(30), <1>1, <1>2, NewRunKeeps DEF IInv
<1>5. RunsType' /\ RefsType' /\ PullsType' /\ PoolInv'
  BY ZenonT(30), <1>1, <1>2, <1>4, PoolFrame
     DEF IInv, RunsType, RefsType, PullsType, workcellVars
<1>6. /\ CallsType' /\ StartInv' /\ ExportInv' /\ PublishInv'
      /\ call'[p] = y /\ \A q \in Callers : q # p => call'[q] = call[q]
  BY ZenonT(30), <1>1, <1>3, SameKept, CallInv DEF IInv
<1>7. RunningIsSupervised'
  <2>1. \A z \in RunIds : z = r => Inserted(p, z)'
    BY ZenonT(30), <1>3, <1>6 DEF Inserted
  <2>2. ASSUME NEW q \in Callers, NEW z \in RunIds, Inserted(q, z) PROVE Inserted(q, z)'
    <3>1. q # p
      BY ZenonT(30), <2>2 DEF Inserted
    <3>2. call'[q] = call[q]
      BY ZenonT(30), <1>6, <3>1
    <3>3. QED
      BY ZenonT(30), <2>2, <3>2 DEF Inserted
  <2>3. \A z \in RunIds : z # r /\ Running(z)' => Running(z) /\ drivers'[z] = drivers[z]
    BY SMTT(20), <1>1, <1>4 DEF Running, Exists
  <2>4. QED
    BY ZenonT(30), <2>1, <2>2, <2>3 DEF IInv, RunningIsSupervised
<1>8. QED
  BY ZenonT(30), <1>4, <1>5, <1>6, <1>7 DEF IInv

\* A handler that copies the lease of a held cell preserves the invariant: such a
\* cell is not queued, but for the one that is claimed twice.
LEMMA ResolveSourceInv ==
    ASSUME IInv, NEW p \in Callers, NEW c \in DOMAIN web.cells, NEW e \in Epochs,
           ResolveSource(p, c, e)
    PROVE  IInv'
<1> DEFINE y == WorkcellRun(c, e)
           x == [op |-> "start", record |-> y]
<1>1. /\ call[p] = NoCall /\ Resolves(c, e) /\ call' = [call EXCEPT ![p] = x]
      /\ UNCHANGED <<workcellVars, runVars, refs, pulls>>
  BY ZenonT(30) DEF ResolveSource
<1>2. web.cells[c].state \in {"held", "repairing"}
  BY ZenonT(30), <1>1 DEF Resolves
<1>3. y \in WorkcellRuns /\ y.cell = c /\ y.tree = web.cells[c].tree
  <2>1. web.cells[c] \in CellsOf(WebTrees) /\ c \in Nat
    BY SMTT(20), ManagerSequences, ElementOfSeq DEF IInv, WebType
  <2>2. QED
    BY ZenonT(30), <2>1, EpochsAssumption
       DEF WorkcellRun, WorkcellRuns, RunStates, CellsOf, WebTrees
<1>4. Keeps(web, y.cell, y.tree)
  <2>1. TwiceClaimed(c) \/ \A i \in DOMAIN web.queue : web.queue[i] # c
    BY ZenonT(30), <1>2 DEF IInv, WebInv, LedgerInv, Waits
  <2>2. QED
    BY ZenonT(30), <1>3, <2>1 DEF Keeps
<1> HIDE DEF y
<1>5. x \in Calls /\ x.op = "start" /\ x.record = y
  BY ZenonT(30), <1>3 DEF Calls
<1> HIDE DEF x
<1>6. QED
  BY ZenonT(30), <1>1, <1>4, <1>5, NoCallShape, CallStep

\* The run that a handler starts is in the cell of the lease that it copied, which
\* has stayed with its tree since.
LEMMA StartRunInv ==
    ASSUME IInv, NEW p \in Callers, StartRun(p)
    PROVE  IInv'
<1>1. call[p] \in Calls /\ call[p].op = "start" /\ Insert(p, call[p].record)
  BY ZenonT(30) DEF IInv, CallsType, StartRun
<1>2. call[p].record \in WorkcellRuns
  BY ZenonT(30), <1>1, CallShape
<1>3. call[p].record \in Runs
  BY ZenonT(30), <1>2 DEF Runs
<1>4. Keeps(web, call[p].record.cell, call[p].record.tree)
  BY ZenonT(30), <1>1 DEF IInv, StartInv
<1>5. QED
  BY ZenonT(30), <1>1, <1>3, <1>4, InsertInv

\* A companion shell, of a session or by the shell route, is in no cell.
LEMMA ShellInv ==
    ASSUME IInv, NEW p \in Callers, call[p].op \notin {"launch", "drive"}, Insert(p, ShellRun)
    PROVE  IInv'
<1>1. ShellRun \in Runs /\ ShellRun.kind # "workcell"
  BY ZenonT(30) DEF ShellRun, Runs, RunStates
<1>2. QED
  BY ZenonT(30), <1>1, InsertInv

\* Only the handler that finds the branch at its base goes on to open a pull
\* request, and it is then the only one that does for the branch.
LEMMA AdvanceInv ==
    ASSUME IInv, NEW p \in Callers, Advance(p)
    PROVE  IInv'
<1> DEFINE b == call[p].branch
           x == [call[p] EXCEPT !.op = "open"]
<1>1. call[p] \in Calls /\ call[p].op = "advance"
  BY ZenonT(30) DEF IInv, CallsType, Advance
<1>2. /\ b \in Branches /\ call[p].head \in {Base, Work}
      /\ x \in Calls /\ x.op = "open" /\ x.branch = b /\ x.head = call[p].head
  BY ZenonT(30), <1>1, CallShape
<1>3. CASE refs[b] # Base
  <2>1. call' = [call EXCEPT ![p] = NoCall] /\ UNCHANGED <<workcellVars, runVars, refs, pulls>>
    BY ZenonT(30), <1>3 DEF Advance
  <2>2. QED
    BY ZenonT(30), <1>1, <2>1, NoCallShape, CallStep
<1>4. CASE refs[b] = Base
  <2>1. /\ refs' = [refs EXCEPT ![b] = call[p].head]
        /\ call' = [call EXCEPT ![p] = x]
        /\ UNCHANGED <<workcellVars, runVars, pulls>>
    BY ZenonT(30), <1>4 DEF Advance
  <2> HIDE DEF b, x
  <2>2. CallsType' /\ call'[p] = x /\ \A q \in Callers : q # p => call'[q] = call[q]
    BY ZenonT(30), <1>2, <2>1 DEF IInv, CallsType
  <2>3. /\ RefsType' /\ refs'[b] = call[p].head
        /\ \A a \in Branches : a # b => refs'[a] = refs[a]
    BY ZenonT(30), <1>2, <2>1 DEF IInv, RefsType
  <2>4. /\ WebType' /\ WebInv' /\ PoolInv' /\ RunsType' /\ PullsType'
    BY SMTT(20), <2>1, WebFrame, PoolFrame DEF IInv, workcellVars, runVars, RunsType, PullsType
  <2>5. StartInv' /\ ExportInv'
    <3>1. StartInv'
      BY ZenonT(30), <1>2, <2>1, <2>2, SameKept DEF IInv, StartInv, KeptBy, workcellVars
    <3>2. QED
      BY ZenonT(30), <1>1, <1>2, <2>1, <2>2, <3>1
         DEF IInv, ExportInv, OnlyTwiceClaimedMixesTrees
  <2>6. PublishInv'
    <3>1. PublishedOnce' /\ \A a \in Branches : Pulled(a)' <=> Pulled(a)
      BY ZenonT(30), <2>1 DEF IInv, PublishInv, PublishedOnce, Pulled
    <3> SUFFICES ASSUME NEW a \in Branches
                 PROVE  /\ Pulled(a)' => refs'[a] = Work
                        /\ \A q \in Callers : Opens(q, a)' =>
                               /\ refs'[a] = Work
                               /\ ~Pulled(a)'
                               /\ \A z \in Callers : Opens(z, a)' => z = q
      BY SMTT(20), <3>1 DEF PublishInv
    <3>2. CASE a = b
      <4>1. ~Pulled(a) /\ \A q \in Callers : ~Opens(q, a)
        BY ZenonT(30), <1>4, <3>2, WorkAssumption DEF IInv, PublishInv, b
      <4>2. \A q \in Callers : Opens(q, a)' => q = p /\ call[p].head = Work
        BY SMTT(20), <1>2, <2>2, <4>1 DEF Opens
      <4>3. QED
        BY SMTT(20), <2>3, <3>1, <3>2, <4>1, <4>2
    <3>3. CASE a # b
      <4>1. \A q \in Callers : Opens(q, a)' => Opens(q, a)
        BY SMTT(20), <1>2, <2>2, <3>3 DEF Opens
      <4>2. QED
        BY SMTT(20), <2>3, <3>1, <3>3, <4>1 DEF IInv, PublishInv
    <3>4. QED
      BY SMTT(20), <3>2, <3>3
  <2>7. RunningIsSupervised'
    BY SMTT(20), <1>1, <2>1, <2>2 DEF IInv, runVars, RunningIsSupervised, Inserted, Running, Exists
  <2>8. QED
    BY ZenonT(30), <2>2, <2>3, <2>4, <2>5, <2>6, <2>7 DEF IInv
<1>5. QED
  BY ZenonT(30), <1>3, <1>4

\* A pull request is opened and its run is marked as exported.
LEMMA PullOpened ==
    ASSUME IInv, NEW p \in Callers, call[p].op \notin {"launch", "drive"}, NEW r \in RunIds,
           NEW x \in ExportPulls \cup PublishPulls, x.kind = "export" => Own(x),
           pulls' = Append(pulls, x), runs' = SetState(runs, r, "exported"),
           call' = [call EXCEPT ![p] = NoCall],
           UNCHANGED <<workcellVars, nextId, drivers, refs>>,
           \A b \in Branches : x = WorkPull(b) => Opens(p, b)
    PROVE  IInv'
<1>1. /\ CallsType' /\ call'[p] = NoCall /\ \A q \in Callers : q # p => call'[q] = call[q]
  BY ZenonT(30), NoCallShape DEF IInv, CallsType
<1>2. UNCHANGED web /\ PoolInv' /\ RefsType'
  BY ZenonT(30), PoolFrame DEF IInv, workcellVars, RefsType
<1>3. /\ runs' \in [RunIds -> Runs \cup {None}]
      /\ WebType' /\ WebInv'
      /\ \A y \in RunIds : y # r => runs'[y] = runs[y]
      /\ ~Running(r)'
  BY ZenonT(30), <1>2, SetStateKeeps DEF IInv, RunStates
<1>4. RunsType'
  BY SMTT(20), <1>3 DEF IInv, RunsType
<1>5. /\ pulls' \in Seq(ExportPulls \cup PublishPulls)
      /\ DOMAIN pulls = 1..Len(pulls) /\ DOMAIN pulls' = 1..Len(pulls) + 1 /\ Len(pulls) \in Nat
      /\ \A i \in 1..Len(pulls) : pulls'[i] = pulls[i]
      /\ pulls'[Len(pulls) + 1] = x
  BY SMTT(20), PullAppended DEF IInv, PullsType
<1>6. PullsType'
  BY ZenonT(30), <1>5 DEF PullsType
<1> DEFINE n == Len(pulls) + 1
<1>7. /\ n \in DOMAIN pulls' /\ n \notin DOMAIN pulls /\ pulls'[n] = x
      /\ \A i \in DOMAIN pulls' : i = n \/ (i \in DOMAIN pulls /\ pulls'[i] = pulls[i])
      /\ \A i \in DOMAIN pulls : i \in DOMAIN pulls' /\ pulls'[i] = pulls[i]
  BY <1>5
<1> HIDE DEF n
<1>8. ExportInv'
  <2>1. \A y \in Range(pulls) : y.kind = "export" => Own(y)
    BY SMTT(20) DEF IInv, ExportInv, OnlyTwiceClaimedMixesTrees, Own, TwiceClaimed
  <2>2. \A i \in DOMAIN pulls' : pulls'[i].kind = "export" => Own(pulls'[i])
    BY SMTT(20), <1>7, <2>1 DEF Range
  <2>3. OnlyTwiceClaimedMixesTrees'
    BY ZenonT(30), <2>2 DEF OnlyTwiceClaimedMixesTrees, Own, TwiceClaimed, Range
  <2>4. QED
    BY SMTT(20), <1>1, <2>3, NoCallShape DEF IInv, ExportInv, Own, TwiceClaimed
<1>9. PublishInv'
  <2>1. \A q \in Callers, b \in Branches : Opens(q, b)' => Opens(q, b) /\ q # p
    BY SMTT(20), <1>1, NoCallShape DEF Opens
  <2>2. \A b \in Branches : Pulled(b)' => Pulled(b) \/ x = WorkPull(b)
    BY ZenonT(30), <1>7 DEF Pulled
  <2>3. \A b \in Branches : x = WorkPull(b) =>
            /\ refs[b] = Work /\ ~Pulled(b)
            /\ \A q \in Callers : Opens(q, b) => q = p
    BY ZenonT(30) DEF IInv, PublishInv
  <2>4. ASSUME NEW b \in Branches, NEW i \in DOMAIN pulls', NEW j \in DOMAIN pulls',
               pulls'[i] = WorkPull(b), pulls'[j] = WorkPull(b)
        PROVE  i = j
    <3>1. CASE x = WorkPull(b)
      BY ZenonT(30), <1>7, <2>3, <2>4, <3>1 DEF Pulled
    <3>2. CASE x # WorkPull(b)
      BY ZenonT(30), <1>7, <2>4, <3>2 DEF IInv, PublishInv, PublishedOnce
    <3>3. QED
      BY SMTT(20), <3>1, <3>2
  <2>5. PublishedOnce'
    BY SMTT(20), <2>4 DEF PublishedOnce, WorkPull
  <2>6. ASSUME NEW b \in Branches
        PROVE  /\ Pulled(b)' => refs'[b] = Work
               /\ \A q \in Callers : Opens(q, b)' =>
                      /\ refs'[b] = Work
                      /\ ~Pulled(b)'
                      /\ \A z \in Callers : Opens(z, b)' => z = q
    BY SMTT(20), <2>1, <2>2, <2>3 DEF IInv, PublishInv
  <2>7. QED
    BY ZenonT(30), <2>5, <2>6 DEF PublishInv
<1>10. RunningIsSupervised'
  BY <1>1, <1>3 DEF IInv, RunningIsSupervised, Inserted, Running, Exists
<1>11. StartInv'
  BY ZenonT(30), <1>1, <1>2, NoCallShape DEF IInv, StartInv
<1>12. QED
  BY ZenonT(30), <1>1, <1>2, <1>3, <1>4, <1>6, <1>8, <1>9, <1>10, <1>11 DEF IInv

\* The second half of an export, which opens the pull request, preserves the
\* invariant.
LEMMA ExportPullInv ==
    ASSUME IInv, NEW p \in Callers, ExportPull(p)
    PROVE  IInv'
<1> DEFINE x == call[p].pull
           r == call[p].run
<1>1. call[p] \in Calls /\ call[p].op = "export"
  BY ZenonT(30) DEF IInv, CallsType, ExportPull
<1>2. r \in RunIds /\ x \in ExportPulls /\ Own(x)
  BY ZenonT(30), <1>1, CallShape DEF IInv, ExportInv
<1>3. \A b \in Branches : x # WorkPull(b)
  BY SMTT(20), <1>2 DEF ExportPulls, WorkPull
<1>4. /\ pulls' = Append(pulls, x) /\ runs' = SetState(runs, r, "exported")
      /\ call' = [call EXCEPT ![p] = NoCall]
      /\ UNCHANGED <<workcellVars, nextId, drivers, refs>>
  BY ZenonT(30) DEF ExportPull
<1> HIDE DEF x, r
<1>5. QED
  BY ZenonT(30), <1>1, <1>2, <1>3, <1>4, PullOpened

\* The second half of a publication preserves the invariant: the caller that
\* moved the branch to the work is the one that opens a pull request for it.
LEMMA OpenPullInv ==
    ASSUME IInv, NEW p \in Callers, OpenPull(p)
    PROVE  IInv'
<1> DEFINE x == [kind |-> "publish", branch |-> call[p].branch, head |-> call[p].head]
           r == call[p].run
<1>1. call[p] \in Calls /\ call[p].op = "open"
  BY ZenonT(30) DEF IInv, CallsType, OpenPull
<1>2. r \in RunIds /\ call[p].branch \in Branches /\ call[p].head \in {Base, Work}
  BY ZenonT(30), <1>1, CallShape
<1>3. x \in PublishPulls /\ x.kind = "publish"
  BY ZenonT(30), <1>2 DEF PublishPulls
<1>4. \A b \in Branches : x = WorkPull(b) => Opens(p, b)
  BY ZenonT(30), <1>1 DEF WorkPull, Opens
<1>5. /\ pulls' = Append(pulls, x) /\ runs' = SetState(runs, r, "exported")
      /\ call' = [call EXCEPT ![p] = NoCall]
      /\ UNCHANGED <<workcellVars, nextId, drivers, refs>>
  BY SMTT(20) DEF OpenPull
<1> HIDE DEF x, r
<1>6. QED
  BY ZenonT(30), <1>1, <1>2, <1>3, <1>4, <1>5, PullOpened

\* The driver's request to publish preserves the invariant.
LEMMA PublishStepInv ==
    ASSUME IInv, NEW p \in Callers, NEW r \in RunIds, NEW head \in {Base, Work},
           Publish(p, r, head)
    PROVE  IInv'
<1> DEFINE x == [op |-> "advance", run |-> r, branch |-> runs[r].branch, head |-> head]
<1>1. /\ call[p] = NoCall /\ runs[r] # None /\ runs[r].kind = "session"
      /\ call' = [call EXCEPT ![p] = x]
      /\ UNCHANGED <<workcellVars, runVars, refs, pulls>>
  BY SMTT(20) DEF Publish, Exists
<1>2. runs[r].branch \in Branches
  BY SMTT(20), <1>1 DEF IInv, RunsType, Runs, WorkcellRuns
<1>3. x \in Calls /\ x.op = "advance"
  BY ZenonT(30), <1>2 DEF Calls
<1> HIDE DEF x
<1>4. QED
  BY ZenonT(30), <1>1, <1>3, NoCallShape, CallStep

-----------------------------------------------------------------------------
(* The invariant *)

LEMMA InitInv == Init => IInv
<1> SUFFICES ASSUME Init PROVE IInv
  OBVIOUS
<1>1. /\ web = WithWarmPool(Warm) /\ pool = WithWarmPool(Target)
      /\ warm = [i \in 1..Target |-> i] /\ containers = 1..Target /\ size \in Sizes
  BY ZenonT(30) DEF Init, WorkcellsInit
<1>2. /\ runs = [r \in RunIds |-> None] /\ nextId = 0 /\ drivers = [r \in RunIds |-> 0]
      /\ refs = [b \in Branches |-> None] /\ pulls = <<>>
      /\ call = [p \in Callers |-> NoCall]
  BY DEF Init
<1>3. Warm \in Nat /\ Target \in Nat
  BY SMTT(20), DepthAssumption
<1>4. WebType /\ WebInv
  <2>1. /\ web \in ManagersOf(WebTrees) /\ Ordered(web)
        /\ Len(web.queue) = Warm /\ Len(web.cells) = Warm
        /\ \A i \in 1..Warm : web.queue[i] = i /\ web.cells[i] = ReadyCell
    BY SMTT(20), <1>1, <1>3, WarmPoolShape DEF WebTrees
  <2>2. /\ web.cells \in Seq(CellsOf(WebTrees)) /\ DOMAIN web.queue = 1..Warm
    BY ZenonT(30), <2>1, ManagerSequences
  <2>3. web.queue = <<>> => web.cells = <<>> /\ Warm = 0
    BY SMTT(20), <2>1, <2>2, EmptySeq
  <2>4. Waits(web)
    BY <2>1, <2>2, <2>3 DEF Waits, ReadyCell
  <2>5. RunsKeep(web)
    BY ZenonT(30), <1>2 DEF RunsKeep
  <2>6. QED
    BY SMTT(20), <2>1, <2>4, <2>5 DEF WebType, WebInv, LedgerInv
<1>5. PoolInv
  <2>1. /\ pool \in ManagersOf({Base} \cup {None}) /\ Ordered(pool)
        /\ Len(pool.queue) = Target /\ Len(pool.cells) = Target
        /\ \A i \in 1..Target : pool.queue[i] = i /\ pool.cells[i] = ReadyCell
    BY <1>1, <1>3, WarmPoolShape
  <2>2. DOMAIN pool.queue = 1..Target /\ DOMAIN pool.cells = 1..Target
    BY ZenonT(30), <2>1, ManagerSequences
  <2>3. warm \in Seq(Nat)
    <3>1. warm \in [1..Target -> Nat]
      BY SMTT(20), <1>1, <1>3
    <3>2. QED
      BY ZenonT(30), <1>3, <3>1, FunctionIsSequence
  <2>4. Idle
    BY SMTT(20), <1>1, <2>1, <2>2 DEF Idle, IsInjective, ReadyCell
  <2>5. containers \subseteq Nat /\ size \in Sizes
    BY <1>1, <1>3
  <2>6. QED
    BY ZenonT(30), <2>1, <2>3, <2>4, <2>5 DEF PoolInv, PoolTypeOK
<1>6. RunsType /\ RefsType /\ CallsType
  BY ZenonT(30), <1>2, NoCallShape DEF RunsType, RefsType, CallsType
<1>7. PullsType /\ DOMAIN pulls = {}
  BY <1>2 DEF PullsType
<1>8. StartInv /\ ExportInv /\ PublishInv
  BY ZenonT(30), <1>2, <1>7, NoCallShape DEF StartInv, ExportInv, OnlyTwiceClaimedMixesTrees, PublishInv, PublishedOnce, Pulled,
         Opens, Range
<1>9. RunningIsSupervised
  BY ZenonT(30), <1>2 DEF RunningIsSupervised, Inserted, Running, Exists
<1>10. QED
  BY ZenonT(30), <1>4, <1>5, <1>6, <1>7, <1>8, <1>9 DEF IInv

\* Every step of a caller in the middle of its request preserves the
\* invariant.
LEMMA CallerStepInv ==
    ASSUME IInv, NEW p \in Callers, CallerStep(p)
    PROVE  IInv'
<1>1. CASE ExportPull(p)
  BY ZenonT(30), <1>1, ExportPullInv
<1>2. ASSUME NEW k \in 0..Target + 1, ClaimSession(p, k) PROVE IInv'
  BY <1>2, DepthAssumption, ClaimSessionInv
<1>3. CASE CheckoutFails(p)
  BY ZenonT(30), <1>3, CheckoutFailsInv
<1>4. ASSUME NEW available \in BOOLEAN, LaunchAgent(p, available) PROVE IInv'
  BY ZenonT(30), <1>4, LaunchAgentInv
<1>5. CASE CompanionShell(p)
  BY ZenonT(30), <1>5, ShellInv DEF CompanionShell
<1>6. CASE NoCompanionShell(p)
  BY ZenonT(30), <1>6, NoCallShape, CallStep DEF NoCompanionShell
<1>7. CASE Advance(p)
  BY ZenonT(30), <1>7, AdvanceInv
<1>8. CASE OpenPull(p)
  BY ZenonT(30), <1>8, OpenPullInv
<1>9. CASE NoPull(p)
  <2>1. call[p].op \notin {"launch", "drive"}
    BY ZenonT(30), <1>9 DEF NoPull
  <2>2. QED
    BY ZenonT(30), <1>9, <2>1, NoCallShape, CallStep DEF NoPull
<1>10. CASE StartRun(p)
  BY ZenonT(30), <1>10, StartRunInv
<1>11. CASE SpawnDriver(p)
  BY ZenonT(30), <1>11, SpawnDriverInv
<1>12. QED
  BY ZenonT(30), <1>1, <1>2, <1>3, <1>4, <1>5, <1>6, <1>7, <1>8, <1>9, <1>10, <1>11
     DEF CallerStep

\* Every registration of a run preserves the invariant.
LEMMA RequestInv ==
    ASSUME IInv, NEW p \in Callers, NEW repo \in Repos, NEW agent \in Agents,
           \/ RegisterOwn(p, repo, agent)
           \/ \E r \in RunIds : RegisterNamed(p, repo, agent, r)
    PROVE  IInv'
<1>1. CASE RegisterOwn(p, repo, agent)
  <2> DEFINE r == FreshId(repo, agent)
  <2>1. /\ Register(p, repo, agent, r) /\ nextId' = r
        /\ UNCHANGED <<workcellVars, runs, drivers, pulls>>
    BY ZenonT(30), <1>1 DEF RegisterOwn
  <2> HIDE DEF r
  <2>2. r \in RunIds
    BY ZenonT(30), <2>1, UsableIds DEF IInv, PoolInv, Register
  <2>3. nextId' \in Nat
    BY SMTT(20), <2>1, <2>2 DEF RunIds
  <2>4. QED
    BY ZenonT(30), <2>1, <2>3, RegisterInv
<1>2. ASSUME NEW r \in RunIds, RegisterNamed(p, repo, agent, r) PROVE IInv'
  BY SMTT(20), <1>2, RegisterInv DEF RegisterNamed, runVars, IInv, RunsType
<1>3. QED
  BY ZenonT(30), <1>1, <1>2

\* Every step preserves the inductive invariant.
LEMMA NextInv == IInv /\ [Next]_vars => IInv'
<1> SUFFICES ASSUME IInv, [Next]_vars PROVE IInv'
  OBVIOUS
<1>1. CASE WebNext /\ UNCHANGED <<runVars, refs, pulls, call>>
  BY ZenonT(30), <1>1, WebStepInv
<1>2. ASSUME NEW p \in Callers, NEW c \in DOMAIN web.cells, NEW e \in Epochs,
             ResolveSource(p, c, e)
      PROVE  IInv'
  BY ZenonT(30), <1>2, ResolveSourceInv
<1>3. ASSUME NEW c \in DOMAIN web.cells, NEW e \in Epochs, NEW s \in BranchNames,
             ExportCell(c, e, s)
      PROVE  IInv'
  BY ZenonT(30), <1>3, ExportCellInv
<1>4. ASSUME NEW r \in RunIds, DriverStep(r) PROVE IInv'
  BY ZenonT(30), <1>4, CompleteInv DEF DriverStep
<1>5. ASSUME NEW p \in Callers, NEW r \in RunIds, Shell(p, r) PROVE IInv'
  BY ZenonT(30), <1>5, NoCallShape, ShellInv DEF Shell
<1>6. CASE AllocateOnly
  BY ZenonT(30), <1>6, AllocateOnlyInv
<1>7. ASSUME NEW p \in Callers, CallerStep(p) PROVE IInv'
  BY ZenonT(30), <1>7, CallerStepInv
<1>8. ASSUME NEW p \in Callers, NEW r \in RunIds, NEW s \in BranchNames, ExportBranch(p, r, s)
      PROVE  IInv'
  BY ZenonT(30), <1>8, ExportBranchInv
<1>9. ASSUME NEW p \in Callers, NEW r \in RunIds, NEW head \in {Base, Work},
             Publish(p, r, head)
      PROVE  IInv'
  BY ZenonT(30), <1>9, PublishStepInv
<1>10. ASSUME NEW p \in Callers, NEW repo \in Repos, NEW agent \in Agents,
              \/ RegisterOwn(p, repo, agent)
              \/ \E r \in RunIds : RegisterNamed(p, repo, agent, r)
       PROVE  IInv'
  BY ZenonT(30), <1>10, RequestInv
<1>11. CASE UNCHANGED vars
  <2>1. UNCHANGED <<web, pool, warm, containers, size, runs, nextId, drivers, refs, pulls, call>>
    BY ZenonT(30), <1>11 DEF vars, workcellVars, poolVars, runVars
  <2>2. WebType' /\ WebInv' /\ PoolInv'
    BY ZenonT(30), <2>1, WebFrame, PoolFrame DEF IInv, poolVars
  <2>3. RunsType' /\ RefsType' /\ PullsType' /\ CallsType'
    BY SMTT(20), <2>1 DEF IInv, RunsType, RefsType, PullsType, CallsType
  <2>4. ExportInv' /\ PublishInv' /\ RunningIsSupervised'
    BY SMTT(20), <2>1 DEF IInv, ExportInv, OnlyTwiceClaimedMixesTrees, PublishInv, PublishedOnce, Pulled, Opens,
           RunningIsSupervised, Inserted, Running, Exists
  <2>5. StartInv'
    BY ZenonT(30), <2>1, SameKept, StartKept DEF IInv
  <2>6. QED
    BY ZenonT(30), <2>2, <2>3, <2>4, <2>5 DEF IInv
<1>12. QED
  BY ZenonT(30), <1>1, <1>2, <1>3, <1>4, <1>5, <1>6, <1>7, <1>8, <1>9, <1>10, <1>11 DEF Next

-----------------------------------------------------------------------------

\* The steps of the handlers, of the driver threads and of the workcell routes
\* preserve the invariant, in whatever order the locks let them run.
THEOREM Invariance == Spec => []IInv
BY InitInv, NextInv, PTL DEF Spec

\* The managers, the pool, the run store, the branches, the pull requests and the
\* handlers in progress keep their types.
THEOREM TypeCorrect == Spec => []TypeOK
<1>1. IInv => TypeOK
  BY ZenonT(30)
     DEF IInv, WebType, WebTrees, PoolInv, PoolTypeOK, RunsType, RefsType, PullsType,
         CallsType, TypeOK, WorkcellsTypeOK
<1>2. QED
  BY <1>1, Invariance, PTL

\* publish_session: the work of a session's branch is in one pull request at most,
\* however many callers publish the run and whatever its driver reports later.
THEOREM WorkIsPublishedOnce == Spec => []PublishedOnce
<1>1. IInv => PublishedOnce
  BY ZenonT(30) DEF IInv, PublishInv, PublishedOnce
<1>2. QED
  BY <1>1, Invariance, PTL

\* export_workcell_agent_run: the pull request of a run is about the tree that the
\* run was started on, unless it is of the first cell of a manager that started
\* empty, which is given to two claims in turn.
THEOREM RunsExportTheirTree == Spec => []OnlyTwiceClaimedMixesTrees
<1>1. IInv => OnlyTwiceClaimedMixesTrees
  BY DEF IInv, ExportInv
<1>2. QED
  BY <1>1, Invariance, PTL

\* WorkcellManager::claim: that the first claim finds the queue empty is the only
\* way for two claims to collide.  A manager that starts with a warm cell gives a
\* cell that holds a failed tree to nobody else, and all runs in it are on that
\* tree.
THEOREM WarmClaimsNeverCollide ==
    ASSUME Warm # 0
    PROVE  Spec => []ClaimsNeverCollide
<1>1. IInv => ClaimsNeverCollide
  <2>1. ASSUME IInv, NEW q \in RunIds, NEW r \in RunIds,
               runs[q] # None, runs[q].kind = "workcell",
               runs[r] # None, runs[r].kind = "workcell", runs[q].cell = runs[r].cell
        PROVE  runs[q].tree = runs[r].tree
    BY ZenonT(30), <2>1 DEF IInv, WebInv, RunsKeep, Keeps, TwiceClaimed
  <2>2. QED
    BY ZenonT(30), <2>1 DEF ClaimsNeverCollide, Exists
<1>2. QED
  BY <1>1, Invariance, PTL

\* WarmPool: a cell that idles has a running container and is ready and queued in
\* the ledger, whichever container starts failed.
THEOREM IdleCellsAreWarm == Spec => []PoolIsWarm
<1>1. IInv => PoolIsWarm
  BY ZenonT(30) DEF IInv, PoolInv, Idle, PoolIsWarm, Range
<1>2. QED
  BY <1>1, Invariance, PTL

\* A run that is running has a driver thread, or a caller who is about to launch
\* it or to note that it failed.
THEOREM RunsAreSupervised == Spec => []RunningIsSupervised
<1>1. IInv => RunningIsSupervised
  BY DEF IInv
<1>2. QED
  BY <1>1, Invariance, PTL

=============================================================================
