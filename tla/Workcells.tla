------------------------------ MODULE Workcells ------------------------------
(***************************************************************************)
(* Workcells (jeryu-runnerd, workcell/manager.rs, workcell/model.rs) and   *)
(* the warm container pool (warm_pool.rs).                                 *)
(*                                                                         *)
(* A WorkcellManager keeps a ledger of cells and a queue of the ids ready  *)
(* to be claimed.  The web server has one, which its workcell routes work  *)
(* on; the warm pool has another one, whose cells it pairs with containers *)
(* for agent sessions.  What a method does to a manager is an operator on  *)
(* the manager's value, so that both use the same definitions.             *)
(*                                                                         *)
(* A cell is claimed by a request that brings its own runner epoch, and    *)
(* whoever knows the epoch of a cell may act on it.  A request stands for  *)
(* the tree it is about: its head commit, its CI run, its failure log.     *)
(***************************************************************************)
EXTENDS Integers, Sequences, FiniteSets, Functions

CONSTANTS
  Agents,     \* agent ids
  Trees,      \* what a claim is about
  Epochs,     \* the runner epochs that callers bring
  Budgets,    \* the branch budgets that callers ask for
  BranchNames, \* branch suffixes
  Warm,       \* the cells that the web server's manager starts with
  Target,     \* WarmPool.target
  Sizes,      \* bounds of a behaviour: how many cells the web server's manager
              \* spawns, how many sessions are created, how many run ids there are
  None

ASSUME EpochsAssumption == Epochs \subseteq Nat
ASSUME BudgetsAssumption == Budgets \subseteq Nat
ASSUME DepthAssumption == {Warm, Target} \subseteq Nat
ASSUME SizesAssumption == Sizes \subseteq [cells : Nat, sessions : Nat, runs : Nat]

VARIABLES
  web,        \* the manager of the workcell routes
  pool,       \* the manager of the warm pool
  warm,       \* WarmPool.warm: the cells that idle with a container, in order
  containers, \* the cells whose container is running
  size        \* the bounds of this behaviour

poolVars == <<pool, warm, containers, size>>

-----------------------------------------------------------------------------
(* WorkcellManager *)

WORKCELL_MAX_BRANCH_BUDGET == 5

\* BranchPolicy::new clamps the budget.
Clamp(b) == CHOOSE n \in 1..WORKCELL_MAX_BRANCH_BUDGET :
              n = b \/ (n = 1 /\ b < 1)
                    \/ (n = WORKCELL_MAX_BRANCH_BUDGET /\ b > WORKCELL_MAX_BRANCH_BUDGET)

\* WorkcellLease::ready
ReadyCell == [state |-> "ready", agent |-> None, tree |-> None, epoch |-> 0,
              max |-> 1, open |-> {}, frozen |-> None]

Spawned(m) == Len(m.cells)

\* spawn_ready_cell, n times; a cell's id is its place in the ledger.
Spawn(m, n) == [queue |-> m.queue \o [i \in 1..n |-> Spawned(m) + i],
                cells |-> m.cells \o [i \in 1..n |-> ReadyCell]]

\* with_warm_pool; new() is that of an empty pool.
WithWarmPool(n) == Spawn([queue |-> <<>>, cells |-> <<>>], n)

Requests == [agent : Agents, tree : Trees, epoch : Epochs, budget : Budgets,
             rebased : BOOLEAN]

\* apply_claim and apply_startup: a claim whose startup rebase failed blocks
\* the cell, and is answered with an error.
ApplyClaim(q) == [state |-> IF q.rebased THEN "claimed" ELSE "blocked",
                  agent |-> q.agent, tree |-> q.tree, epoch |-> q.epoch,
                  max |-> Clamp(q.budget), open |-> {}, frozen |-> None]

NextCell(m) == IF m.queue = <<>> THEN Spawned(m) + 1 ELSE Head(m.queue)

\* claim: the next ready cell, or a new one, which is queued as well; then a
\* replacement is queued.
Claim(m, q) ==
  LET taken == IF m.queue = <<>> THEN Spawn(m, 1) ELSE [m EXCEPT !.queue = Tail(@)]
  IN  Spawn([taken EXCEPT !.cells[NextCell(m)] = ApplyClaim(q)], 1)

\* The first e of a sequence, found with position, and removed
Without(s, e) ==
  LET first == CHOOSE i \in DOMAIN s : s[i] = e /\ \A j \in 1..i - 1 : s[j] # e
  IN  IF \E i \in DOMAIN s : s[i] = e
        THEN SubSeq(s, 1, first - 1) \o SubSeq(s, first + 1, Len(s))
        ELSE s

\* claim_ready: a cell that its container is labelled with.
ClaimReady(m, c, q) ==
  [queue |-> Without(m.queue, c),
   cells |-> [m.cells EXCEPT ![c] = ApplyClaim(q)]]

\* FrozenCiSnapshot::from_workcell
Freeze(m, c) == [agent |-> m.cells[c].agent, tree |-> m.cells[c].tree,
                 epoch |-> m.cells[c].epoch, max |-> m.cells[c].max,
                 open |-> m.cells[c].open]

\* Mutant: hold_failed_tree takes the snapshot of a ready cell before it claims it.
HoldFailedTreeEarly(m, q) ==
  LET c == NextCell(m)
      n == Claim(m, q)
      seen == IF c \in DOMAIN m.cells THEN m ELSE n
  IN  IF q.rebased
        THEN [n EXCEPT !.cells[c].state = "held", !.cells[c].frozen = Freeze(seen, c)]
        ELSE n

\* hold_failed_tree: a claim, whose cell is held with the snapshot of its own tree.
HoldFailedTree(m, q) ==
  LET c == NextCell(m)
      n == Claim(m, q)
  IN  IF q.rebased
        THEN [n EXCEPT !.cells[c].state = "held", !.cells[c].frozen = Freeze(n, c)]
        ELSE n

\* require_epoch
HasEpoch(m, c, e) == m.cells[c].epoch = e

\* open_branch; namespaced_branch names the agent, the cell and the suffix.
MayOpen(cell) == Cardinality(cell.open) < cell.max

OpenBranch(cell, c, s) == [cell EXCEPT !.open = @ \cup {<<cell.agent, c, s>>}]

-----------------------------------------------------------------------------
(* The workcell routes *)

WorkcellsInit ==
  /\ web = WithWarmPool(Warm)
  /\ pool = WithWarmPool(Target)
  /\ warm = [i \in 1..Target |-> i]
  /\ containers = 1..Target
  /\ size \in Sizes

\* Whether the next claim stays within the bound.
Room == Spawned(web) + (IF web.queue = <<>> THEN 2 ELSE 1) <= size.cells

ClaimCell(q) ==
  /\ Room
  /\ web' = Claim(web, q)
  /\ UNCHANGED poolVars

\* repair_live: hold_failed_tree and begin_live_repair, so that nobody else sees
\* the cell held.
RepairLive(q) ==
  LET m == HoldFailedTree(web, q) IN
  /\ Room
  /\ web' = IF q.rebased THEN [m EXCEPT !.cells[NextCell(web)].state = "repairing"] ELSE m
  /\ UNCHANGED poolVars

\* freeze_failed_ci_run answers with a snapshot, now or as the cell was held.
Snapshots(c) == {Freeze(web, c), web.cells[c].frozen} \ {None}

\* repair_from_snapshot, with the epoch after that of the snapshot.  The startup of
\* the new claim may have another head, which nobody reads while the cell holds
\* the snapshot; the run ids, the logs and the branches are those of the snapshot.
RepairFromSnapshot(f, rebased) ==
  LET q == [agent |-> f.agent, tree |-> f.tree, epoch |-> f.epoch + 1,
            budget |-> f.max, rebased |-> rebased]
      m == Claim(web, q)
      c == NextCell(web)
  IN  /\ q \in Requests
      /\ Room
      /\ web' = IF rebased
                  THEN [m EXCEPT !.cells[c] = [@ EXCEPT !.state = "held", !.frozen = f,
                                                        !.max = f.max, !.open = f.open]]
                  ELSE m
      /\ UNCHANGED poolVars

BeginLiveRepair(c, e) ==
  /\ HasEpoch(web, c, e)
  /\ web.cells[c].state = "held"
  /\ web' = [web EXCEPT !.cells[c].state = "repairing"]
  /\ UNCHANGED poolVars

Release(c, e) ==
  /\ HasEpoch(web, c, e)
  /\ web' = [web EXCEPT !.cells[c].state = "released"]
  /\ UNCHANGED poolVars

\* block; mark_blocked
Block(c, e) ==
  /\ HasEpoch(web, c, e)
  /\ web' = [web EXCEPT !.cells[c].state = "blocked"]
  /\ UNCHANGED poolVars

\* export_repair_branch
ExportRepairBranch(c, e, s) ==
  /\ HasEpoch(web, c, e)
  /\ web.cells[c].state \in {"held", "repairing"}
  /\ MayOpen(web.cells[c])
  /\ web' = [web EXCEPT !.cells[c] = OpenBranch(@, c, s)]

WebNext ==
  \/ \E q \in Requests : ClaimCell(q) \/ RepairLive(q)
  \/ \E c \in DOMAIN web.cells :
       \/ \E f \in Snapshots(c), rebased \in BOOLEAN : RepairFromSnapshot(f, rebased)
       \/ \E e \in Epochs \cup {0} :
            \/ BeginLiveRepair(c, e)
            \/ Release(c, e)
            \/ Block(c, e)

-----------------------------------------------------------------------------
(* WarmPool *)

\* The containers that a claim asks the runtime for: one to hand out if none
\* idles, and the refill to the target.
Wanted == IF warm = <<>> THEN 1 + Target ELSE Target - Len(Tail(warm))

\* Mutant: an entry is put into the pool before its container is started.
PoolClaimUnstarted(q, k) ==
  LET n     == Spawned(pool)
      asked == IF k < Wanted THEN k + 1 ELSE k
      all   == warm \o [i \in 1..asked |-> n + i]
  IN  /\ k \in 0..Wanted
      /\ all # <<>>
      /\ containers' = containers \cup (n + 1..n + k)
      /\ UNCHANGED size
      /\ pool' = ClaimReady(Spawn(pool, asked), Head(all), q)
      /\ warm' = Tail(all)

\* claim, with warm_cell and refill.  The runtime starts the first k containers
\* it is asked for and fails on the next one, whose cell is in the ledger by
\* then.  The claimed cell's startup has been rebased, as in create_session.
PoolClaim(q, k) ==
  LET n     == Spawned(pool)
      asked == IF k < Wanted THEN k + 1 ELSE k
      new   == [i \in 1..k |-> n + i]
      all   == warm \o new
      m     == Spawn(pool, asked)
  IN  /\ k \in 0..Wanted
      /\ containers' = containers \cup Range(new)
      /\ UNCHANGED size
      /\ IF all = <<>>
           THEN /\ pool' = m
                /\ UNCHANGED warm
           ELSE /\ pool' = ClaimReady(m, Head(all), q)
                /\ warm' = Tail(all)

\* Whether the claim is answered with its cell.
PoolAnswers(k) == k = Wanted

-----------------------------------------------------------------------------

\* The cell that two claims are given in turn: the first one of a manager that
\* started empty stays queued when it is claimed.
TwiceClaimed(c) == Warm = 0 /\ c = 1

-----------------------------------------------------------------------------
(* Types *)

CellStates == {"ready", "claimed", "held", "repairing", "released", "blocked"}

BranchIds == (Agents \cup {None}) \X Nat \X BranchNames

\* Snapshots, cells and managers of claims about the trees T
FrozenOf(T) == [agent : Agents \cup {None}, tree : T, epoch : Nat, max : Nat,
                open : SUBSET BranchIds]

CellsOf(T) == [state : CellStates, agent : Agents \cup {None}, tree : T, epoch : Nat,
               max : Nat, open : SUBSET BranchIds, frozen : FrozenOf(T) \cup {None}]

ManagersOf(T) == [queue : Seq(Nat), cells : Seq(CellsOf(T))]

WorkcellsTypeOK(T) ==
  /\ web \in ManagersOf(Trees \cup {None})
  /\ pool \in ManagersOf(T \cup {None})
  /\ warm \in Seq(Nat)
  /\ containers \subseteq Nat
  /\ size \in Sizes

=============================================================================
