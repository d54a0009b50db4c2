# Verification of Jeryu

Jeryu is a self-hosted forge: a Git host with pull requests, reviews, a CI
scheduler with its own runners, caches, a mirror, agents and the tools to deploy
and restore it. This directory holds TLA+ models of its stateful core, the TLC
configurations that check them on small instances, and TLAPS proofs for
instances of any size.

Paths below are relative to `src/components/`; `E/` stands for
`jeryu-core/crates/jeryu-core/src/engine/` and `A/` for
`jeryu-deploy/crates/jeryu-api/src/`.

## The system

| Part | State | Operations | What is hard about it |
| --- | --- | --- | --- |
| Mutation coordinator (`E/coordinator.rs`) | one read-write lock, one mutex per repository | run a callback under shared or exclusive authority and a list of repositories | lock order, starvation |
| Mutation admission (`E/mutation.rs`) | the catalog of repositories, aliases, blocks | every scope in which Core changes State | names are resolved before the locks are held |
| Repository lifecycle (`E/repository_creation.rs`, `repositories.rs`, `repository_transfer.rs`, `A/web/repository_create.rs`, `A/web/repo_admin.rs`, `A/git_materializer.rs`) | State, SQLite, receipts, Git directories | create, delete in two tiers, transfer | three stores that cannot change together; crashes and retries |
| Ref-operation journal (`E/ref_operations.rs`, `E/storage/ref_operations.rs`) | rows, outcomes and an outbox in SQLite | prepare, reconcile, acknowledge | Git is a second store; its transactions land late or never |
| Commissioning journal (`E/commissioning_*.rs`) | a hash chain of records per restore | reserve, admit, complete, close | windows, lost replies, a barrier over all of Core |
| Lease book (`jeryu-ci-runner/.../jeryu-ci-scheduler/src/leases/`) | a record per job | acquire, report, expire | late and duplicated reports |
| Runner registry and fleet (`jeryu-ci-runner/.../jeryu-runner-registry`, `fleet.rs`) | nodes, epochs, reservations | register, heartbeat, reap, drain, assign, run a batch | fencing of nodes that are only slow |
| Workcells and warm pool (`jeryu-ci-runner/.../workcell/`, `warm_pool.rs`) | a ledger of cells, a queue of ready ones, containers | claim, hold a failed tree, repair, export, release, refill | a claim brings its own epoch; containers fail |
| Agent runs and sessions (`A/web/agent_runs/`, `A/web/sessions.rs`, `A/web/workcells.rs`) | runs, driver threads, session branches, pull requests | start, supervise, export, publish | three mutexes taken one at a time; drivers report late |
| Terminal stream (`A/web/agent_runs/store.rs`, `jeryu-web/.../agentTtyTransport.ts`) | a ring, a broadcast channel, the browser's cursor | publish, replay, live tail, reconnect | a slow reader, overflow, broken connections |
| Required attempts, publisher enrollment (`E/required_publisher_controller.rs`, `E/publisher_enrollment.rs`) | enrollments, attempts | install, rotate, revoke, reserve, complete, read the verdict | the clock moves during a call and may be set back |
| Accounts (`E/auth.rs`, `E/actors.rs`) | accounts, epochs, sessions, tokens, invitations, grants | log in, reset, disable, invite, activate | handles outlive the request that made them |
| Reviews, pull requests, branch protection (`E/bound_reviews.rs`, `E/reviews.rs`, `E/pull_requests.rs`, `E/branch_protection.rs`) | challenges, events, the pull request with its stored evaluation | ask for a challenge, decide, dismiss, push, refresh, change the policy | a decision rests on a snapshot that goes stale |
| Everything else (cache, mirror, merge queue, bug tracker, Jira, MCP, terminal, web pages, release tools) | files, tables | many | see Not modelled |

The parts meet in Core. A web handler or a daemon calls an operation of
`ForgeCore`; admission resolves the names it was given, the coordinator takes
the locks, admission checks again and runs the callback, and the callback
changes State and saves it to SQLite. The commissioning journal raises a
barrier that admission asks for. The ref-operation journal extends one such
callback over a Git transaction that no lock protects. Accounts, reviews and
required attempts are operations of Core under those locks. Agent runs and
workcells live in the web server, outside Core, each behind its own mutex.

## The models

A call that the code answers with an error, or with an earlier answer, and no
change of state is a stuttering step and has no action. What other parts decide
(a clock, an admission, the answer of a verifier) is a parameter of the action,
chosen freely at each call.

### LeaseBook

`attempt`, `state` and `lease` are the fields of `JobLeaseRecord`, one function
per field; `issued` and `receipts` remember what callers were given. Each
public operation of the book is an action; `acquire_with_epoch` is three, one
per state it finds. A report may come for any lease ever issued, any number of
times, with any worker and epoch, and the time of a call is any time up to the
clock's. Times end at `MaxEpoch`, where the code's `u64` ends. `Expire` may come at
any time or never: only tests call `expire`, nothing calls it on a schedule.

### RefOperations and RefOperationContract

`RefOperations` has the rows of the journal, and Git and the broker around it:
`Dispatch`, `Land`, `Die`, `ForeignWrite`, `Observe` and `Crash` are external
and come from what the journal's comments expect of its callers. Of the object
at the marker ref an observation keeps whether it is the operation's own
(`bound`), none, or one that somebody else put there (`other`), since
`classify` tells the three apart. `RefOperationContract` says what this is for,
in five actions: the ref change, the catalog change and the event happen
together or not at all, one operation of a repository at a time, and an
operation of unknown fate closes its repository.

### MutationCoordinator and MutationAdmission

`MutationCoordinator` has one step per lock operation; a thread waits for the
authority lock, for each guard in turn, runs, and lets go. The lock is
parking_lot's: a writer that waits holds off readers that come later.
`MutationAdmission` extends it with what the locks protect: a thread first asks
(it reads the catalog without a lock and keeps hints), then locks as the
coordinator does, then is admitted or refused, then changes the catalog. Each
way of asking is an action: by name (`AskNamed`), by names with an author whose
profile may have to be made, as a profile or a source mutation does
(`AskProfile`), globally (`AskGlobal`), by audit, by id, for a creation and for
a restore. The callbacks that matter to other threads are modelled as what they
do (delete, create, transfer, block, open and close a restore); the others
change nothing in the catalog.

### RepositoryLifecycle

The three stores are `receipt` (a file per idempotency key), Core's State
(`repos`, `creation`, `transfer`, `aliases`) and `dir`, the owner of the
directory of each slug. A request for a creation and a deletion walk through
their handlers; between any two steps another thread may run, and an error or a
crash may end the walk. `MoveStorage` is external: the caller of a transfer
moves the directory between `prepare` and `commit`. `guard` is Core's lock,
held over the callback. `cleared` is a history variable that no action reads: the
paths from which a deletion removed the directory of a repository that the
catalog still has. The lookup of the slug and the audit entry of a deletion are
one step (`Request`): of what the lookup found only the slug is used again, tier
one looks it up anew, and the check for live work in between can only refuse.

### Commissioning

`journal` is the chain of records of each operation and the other variables are
the operation that `apply_record` reduces it to. The plan of a restore is
`Sequence`, from the targets of its scope. The clock of each call is any time.

### RunnerFleet

One function per field of a `NodeRecord`; `age` is the time since the last
heartbeat, counted up to the first value that `reap` acts on. `tokens` are the
reservations handed out and not run, `ran` those that were run. Every operation
takes `&mut self`, so each is one action, except `submit_batch`: its jobs are
placed and run one by one while time goes on, and it may stop at any of them.
`Wanted` is what the callers do: they ask for a job that has not run and whose
earlier reservation, if any, was fenced. `is_assignable`, `is_current_owner`
and the choice of the first node of the BTreeMap are operators of their own.

### Workcells and AgentRuns

`Workcells` gives what each method of `WorkcellManager` does to a manager as an
operator on the manager's value, because there are two managers: `web`, which
the workcell routes use, and `pool`, whose cells the warm pool pairs with
containers. A cell's id is its place in the ledger. `AgentRuns` extends it with
the runs of the web server. A handler that takes several mutexes is several
steps; `call` holds what a request has read so far, and two requests may be in
progress. `drivers` counts the threads that supervise a run and will report its
outcome, possibly after the run was published. `pulls` has the pull requests in
the order in which they were opened, so that two with the same content are two.
A start of a run in a workcell is three steps: the lease is read and the manager
unlocked (`ResolveSource`), the record is inserted (`StartRun`), the driver
thread is spawned (`SpawnDriver`); companion shells take the last two. A
session's branch is a compare and swap of Git, which is external, as the
containers are. A caller may choose the id of its run. A container that was
started runs on, as nothing in `warm_pool.rs` looks at it again.
`RepairFromSnapshot`, which only tests call, takes the tree of the snapshot for
the head that its startup reports; while a cell holds a snapshot, exports read
the snapshot.

### TtyStream

Events are numbered in the order of publication, so that the ring, the channel
and the replay are intervals. `Push` and `Send` are the two halves of a publish
under the store's lock; `Open` takes the lock, subscribes and reads the ring;
`ReplayMark`, `Replay`, `Live` and `Overflow` are what the response stream does;
`Drop` is a connection that breaks. `lastSeq` is the browser's cursor, with
which it comes back. The stream is that of one record of a run; for a record
that is replaced see the observations under Findings.

### RequiredAttempts

`enrolled` has the revisions of each publisher, `attempts` the attempts by
idempotency key and `history` the attempts of a commit and context in order.
`Reserve` and `Complete` take two readings of the clock, before and after they
look at the managed ref. `StoreReservation` and `StoreCompletion` are what the
storage checks and writes. A revocation states its own time, which storage
compares with the installation. The clock may go back, tokens and accounts may lose
their standing, the ref may move and the policy may change at any time.

### Accounts and ReviewGate

`Accounts` has one function per field of an account, and the credentials,
invitations and activations beside it. The expiry of a credential, an invitation
or a challenge is a step that may happen at any time after it was issued, and it
is final: the wall clock is taken not to be set back over the expiry of a
credential (`E/actors.rs:186`), which would make the handle valid again. `clock`
counts changes: it stands for the timestamps that snapshots compare.
`ReviewGate` extends it with one pull request. A challenge keeps the snapshot it
was given (`Snapshot`), a verdict is accepted if the same snapshot is observed
again, and its event keeps the snapshot that was observed. `Evaluation` computes
the stored `mergeable` in each operation that the code ends with an evaluation.
`AuditEnforced` is the setting `JERYU_AUDIT_ENFORCE_MERGE`: where it is on,
nothing is mergeable, because the evaluation is given no check runs in which to
find the proof it asks for. A push moves the branch (`live`) at once and the
pull request's head when its refresh arrives: refreshes may be lost or come in
another order.

## The runs

Each run is listed with its distinct states. Each takes from some seconds to
four minutes on two workers.

| Run | States | What it shows |
| --- | --- | --- |
| `ref_operations` | 611,904 | the journal agrees with Git, effects happen once, and journal, Git and broker implement `RefOperationContract` |
| `mutation_coordinator` | 6,039 | no threads wait for each other, every admitted mutation runs |
| `mutation_admission` | 2,018,916 | callbacks exclude each other, what one was admitted on holds until it returns, the catalog changes under the exclusive lock only |
| `repository_lifecycle` | 727,130 | receipts are true, a deletion is final, State rests under a barrier, and a published repository loses its directory to a late deletion only |
| `commissioning_and_leases` | 132,486 | journals follow the plan, only a verified plan releases the barrier; a job is lent once per attempt, an attempt ends once, receipts stand, a live lease is not taken over |
| `runner_fleet` | 2,140,802 | no overcommitment, jobs run once, a fenced daemon neither owns nor refreshes its node |
| `agent_runs` | 1,439,415 | only a cell that was claimed twice (see Findings) makes a run export another tree than its own, warm cells can be handed out, a running run has a driver, a session is published once |
| `tty_stream` | 2,276 | the browser is handed each event once and in order or a gap is marked, the ring keeps what the channel has, a reader catches up |
| `required_attempts` | 1,043,316 | stored records can be read back, the verdict on a commit changes for a cause only |
| `review_gate` | 966,558 | a reviewer's last word counts, a decision was made on what was seen, nothing is stored as mergeable over a rejection, the owner is the first administrator, dead handles stay dead |
| `lifecycle_storage_deleted` | | a counterexample, see Findings |
| `workcell_claims_collide` | | a counterexample, see Findings |

### Bounds

- `commissioning_and_leases`: the two ledgers have no variable in common, so a
  behaviour of the run uses one of them and leaves the other as it was at the
  start; nothing is lost by it. Of the journal, two restores of one target each
  (plans of one present and of one absent target), times before, in and after
  the window; proofs cover longer plans. Of the book, one job with two attempts,
  because no operation relates two jobs; two workers and two node epochs, so
  that a lease can be taken over and a late report can differ in either; times
  0..3, so that a lease can be issued, lapse, be taken over and lapse again.
  `MaxEpoch` stands for `u64::MAX`: the overflow of an expiry happens inside the
  bound.
- `ref_operations`: two operations, three intents: two with the same key and
  other content, and a merge that names a second repository. One ref with two
  values and absent covers each disagreement of expected, seen and result.
- `mutation_coordinator`: three threads, so that a writer can wait between a
  reader that runs and one that comes; two repositories in both orders.
  `mutation_admission`: two threads, since each hazard there is between two;
  every pair of scopes, lists of up to two repositories, with repetitions.
- `repository_lifecycle`: two requests for one slug and one for the slug that its
  repositories are transferred to, with three UUIDs, so that a slug can be used,
  deleted and used again while an old request retries, and a transfer can meet a
  creation at its destination; a deletion handler, which may keep or take
  directories. The counterexample needs two requests and one handler.
- `runner_fleet`: two nodes with one or two slots, a job for both nodes and one
  for the second only, `Ttl` 0. Each node may register or be reaped three times
  in all (`MaxEpoch` 4). Jobs run out and epochs end, so the instance may stop;
  this is why it does not check deadlock.
- `agent_runs`: a behaviour has one of three sizes (`MCSizes`): several repairs in
  up to four cells of one run, two sessions with two run ids, and one session
  beside one repair. All three have two requests in progress, two trees, two
  repositories and two epochs. The largest mix of the three is out of reach, and
  the hazards are between two runs, two cells or two requests. The pool has one
  warm cell (`Target` 1), so that it runs empty; that no cell idles twice in a
  deeper pool is left to the proof, which is for any depth.
  `workcell_claims_collide` is the same instance.
- `tty_stream`: a ring of three and a channel of two with seven events, so that
  both overflow more than once, and two broken connections. The code's sizes are
  4096 and 1024; the proofs need only that the ring is the deeper one.
- `required_attempts`: two publishers, two keys, two contexts and two commits,
  two enrollments, and clock readings 0..2 with attempts of one unit: an attempt
  can end at its expiry, after it, and before it was reserved. A revocation may
  state any of the three times.
- `review_gate`: six sizes (`MCSizes`) share out the challenges, credentials,
  changes and invitations. The first three are about decisions by a reviewer and
  the author, the fourth about changes alone, the last two about new accounts.
  Two commits, one code owner or none, rules that ask for one approval, and
  `AuditEnforced` off, as it is by default: on, the property on mergeable pull
  requests would hold for want of one. The proofs are for both.

`ref_operations` may stop with a quarantined operation, and
`commissioning_and_leases` with a restore that needs recovery: the code has no
way out of either. Its lease book stops when the job is done. `agent_runs`,
`tty_stream` and `review_gate` stop when their bounds are used up. These runs do
not check deadlock.

### Fairness

- `Fairness` of `MutationCoordinator`: a callback returns and its guards are dropped
  (weak fairness of the steps of a thread that runs), and a lock that becomes
  free again and again is given to a waiter (strong fairness of the
  acquisitions). parking_lot forces a fair unlock from time to time and does not
  let new readers pass a waiting writer, which is part of the model.
- `StreamFairness` of `TtyStream`: a publisher that is between the ring and the
  channel goes on (it does nothing but send), the server serves an open stream,
  and the browser's timer reopens a closed one. Nothing is assumed of the
  driver, which may never publish again; connections break a bounded number of
  times.

No other run assumes fairness. That a silent node is fenced, or that every lease
ends, is not claimed: nothing in the repository calls `reap` or the lease book's
`expire` on a schedule.

## The proofs

The modules `*Proofs` prove, with TLAPS, what the runs check on small instances
for every value of the constants that satisfies the `ASSUME`s of the model. For
each model there is an inductive invariant, a lemma per action that the action
keeps it, and the properties as its consequences. All safety properties of the
passing runs are proved, and so is the refinement.

Three of the modules hold the proofs of two models each, one after the other;
the two share no variable and no lemma about state. For this the definitions of
the smaller model carry its name (`JournalSpec`, `AttemptsSpec`, `FleetSpec`,
`StreamSpec`, where others have `Spec`). A leaf cites `ZenonT(30)` where first-order
reasoning is enough, which is most of them, and is left to the SMT solver where it
needs arithmetic.

- **Lease book** (`CommissioningAndLeaseProofs`). For any jobs, workers, retry
  budgets and clock: `OneLeasePerAttempt`, `OneOutcomePerAttempt`,
  `ReceiptsStand`, `TerminalForever`, `NoTakeoverOfLiveLease`. The properties
  speak of what callers were given; the invariant adds how the record relates to
  it. A leased job holds an issued lease for its current attempt (`RecordsInv`),
  no lease was issued for a pending attempt (`IssuedInv`), and no receipt names
  a lease that is still held (`ReceiptsInv`).
- **Ref-operation journal** (`RefAndAttemptProofs`). For any operations,
  intents, refs and object ids: `KeyNamesOneOperation`,
  `OneUnresolvedPerRepository`, `FateAgreesWithGit`, `EffectsExactlyOnce`,
  `RecordsAreImmutable`, and that the system implements `RefOperationContract`
  (`Refinement`: initial states map to initial states and each step to a step of
  the contract or a stutter). The strengthening, `Trustworthy`, is what the
  journal relies on in the broker's evidence: an observed marker is there, and
  evidence that nothing was dispatched stays true while the operation is open.
  This assumption about code outside the repository is in the external actions.
- **Coordinator and admission** (`MutationProofs`). For any threads,
  repositories, names and lists. Of the coordinator: `MutationsExclude` and
  `NoDeadlock`. `Guarded` adds that a writer past its drain leaves no reader,
  and that a thread that takes guards holds only repositories below those it
  still needs, from `ids.sort()`. `OrderAssumption` says that each set of UUIDs
  has a least and a greatest one: there are finitely many. Of admission:
  `AdmissionHoldsThroughout`, `BarrierDrainsCallbacks`, `OneSlugPerRepository`,
  `MutationsExclude` and `CatalogChangesAlone`. `AdmissionInv` is built on the
  coordinator's invariant, since a step of admission is a step of the
  coordinator with a change of the catalog; it adds the shape of the catalog,
  which scopes come with which locks (a new profile and a global mutation take
  the exclusive one), and that an admitted transfer finds its repository.
- **Commissioning journal** (`CommissioningAndLeaseProofs`). For any operations,
  targets and times: `OneOpenRestore`, `JournalFollowsPlan`, `ClosedIsVerified`,
  `RecoveryIsFinal`. The invariant says of each operation how its reduced state
  follows from its journal: record `2k` admits step `k` of the plan, record `2k
  + 1` completes it, and as long as no recovery is required all of them are the
  operator's, in the window and verified. `PlanAssumption` says that the length
  of a plan is a natural number, which needs an induction over the targets that
  the prover cannot do; each run evaluates it.
- **Runner fleet** (`FleetAndStreamProofs`). For any nodes, jobs, capacities and
  `Ttl`: `NoOvercommit`, `JobsRunOnce`, `FencedForGood` (also that a late
  heartbeat of a fenced daemon does not refresh the node),
  `DrainingTakesNothing`. The invariant adds that no reservation is ahead of its
  node's epoch (`Past`), so a new epoch starts with no reservations, and that a
  job has one current reservation at most and none once it has run (`OnePlace`).
- **Terminal stream** (`FleetAndStreamProofs`). For any capacities with the ring
  deeper than the channel, and any number of events and broken connections:
  `ChannelIsRetained`, `ShownOnceInOrder`, `GapsAreMarked`. `RingInv` says what
  a ring holds that is full or not; `StreamInv` relates the browser's cursor to
  the replay (`ReplayInv`) and, after it, to the receiver's place in the channel
  (`LiveInv`): each is right before the next event, or a gap was marked.
- **Required attempts** (`RefAndAttemptProofs`). For any publishers, keys,
  scopes and windows: `RecordsStayReadable` and `SatisfactionHasCause`. `Linked`
  says that the newest attempt of a target is an attempt for it and that no
  attempt is of a revision its publisher has not reached; the dates of each
  enrollment are in order. The second is an action property; each operation that
  can turn a verdict has a lemma on which verdicts it turns. A verdict that
  comes back needs a new success or a clock that is set back over the expiry of
  the publisher's token.
- **Accounts and reviews** (`ReviewGateProofs`). For any logins, commits, code
  owners and bounds: `HandlesStayDead`, `OwnerIsFirst`, `DecidedOnWhatWasSeen`,
  `OneDecisionPerChallenge`, `MergeableHasNoRejection`, `LastWordCounts`. The
  invariant has one part per layer: bindings are of the past and a usable one
  belongs to an active account (`AInv`); a consumed owner's invitation marks the
  installation (`InvitesInv`); events and challenges name each other
  (`ReviewInv`); and the stored evaluation (`EvaluationInv`). An event has the
  snapshot of its challenge because the one observed at the verdict was compared
  with it in full. `LastWordCounts` is about what the loop of
  `reduced_bound_events` computes over a log of any length. The first section of
  the module proves that: the loop is a recursive function of the number of
  events, each claim about it is a set of numbers, and the least number outside
  of the set contradicts one turn of the loop. The library's induction theorems,
  which take the claim as an operator, are not needed for it.
- **Repository lifecycle** (`RepositoryLifecycleProofs`). For any slugs, UUIDs,
  keys, requested slugs and deletion handlers: `ReceiptsAreTrue`,
  `OnlyLateDeletionsTakeStorage`, `NoResurrection`, `StateRestsUnderBarrier`. The
  invariant says what belongs together between any two steps of the handlers.
  Receipts do not share a UUID; Core's lock covers a creation from its row to its
  completion (`GuardedCreation`); a receipt goes past Core only with a completed
  journal entry (`CompletedFirst`); a UUID is under one slug at most; and a
  directory follows its repository through creation and transfer
  (`StorageFollows`). `StorageIsOwnWithoutRemoval` adds that the finding below
  depends on `delete_storage`: where no request asks for it, every published
  repository has its directory (`PublishedStorageIsOwn`).
- **Workcells and agent runs** (`WorkcellsProofs`, `AgentRunsProofs`). For any
  agents, trees, epochs, budgets, depths of the pool, callers, run ids and
  branches: `PublishedOnce`, `OnlyTwiceClaimedMixesTrees`, `PoolIsWarm`,
  `RunningIsSupervised`; and for a manager that starts with a warm cell
  `ClaimsNeverCollide`, which fails for the server's (`WarmClaimsNeverCollide`).
  `WorkcellsProofs` has the lemmas about what each method of the manager
  returns, and the invariant of the ledger: the queue names cells of the ledger,
  each once, a snapshot is of its cell's tree, and what is queued holds no
  failed tree, but for the first cell of a manager that started empty
  (`LedgerInv`). A cell that is not queued cannot be claimed again, so it stays
  with its tree through every route (`KeptBy`). `AgentRunsProofs` adds that each
  run of a workcell is in such a cell (`RunsKeep`), that a start or an export
  that was begun has the tree of its cell or its run (`StartInv`, `ExportInv`),
  and that a branch at a session's work was moved there by one request, which
  alone opens the pull request (`PublishInv`).

Only model-checked: `EveryMutationRuns` and `CatchesUp`. They are liveness
properties under fairness, which is out of this prover's reach.

## Findings

Two runs are expected to fail: the property says what a comment of the repository
says, and the code does otherwise. PROJECT.json quotes the lines.

- `lifecycle_storage_deleted`: the second tier of a deletion removes the
  directory at the path of the slug. If the slug was taken again in between, the
  directory belongs to the new repository, and the check for other repositories
  passes over it because it has this very slug. `OnlyLateDeletionsTakeStorage`
  of `repository_lifecycle` shows that nothing else takes a directory, on slugs
  where no such deletion happened, and its proof shows it for any number of
  slugs, requests and handlers. A transfer to the slug can take the place of the
  creation: its directory is moved there, and the deletion removes it. On a slug
  where one did, a third repository can even end up with a directory that another
  one made.
- `workcell_claims_collide`: a manager made with `WorkcellManager::new`, as the
  server's is (`A/web.rs:214`), starts with an empty queue. Its first claim spawns
  a cell that also enters the queue, so the second claim is given the same cell
  under its own epoch and with its own tree (`workcell/manager.rs:36`); a comment
  in `workcell/tests.rs:320` says "two claims never collide on an id". In the
  counterexample two runs are in one cell on two trees. The first holder's epoch
  is fenced from then on. `OnlyTwiceClaimedMixesTrees` of `agent_runs` shows that
  no other cell is shared, whatever is in progress, and `WarmClaimsNeverCollide`
  that a manager with a warm cell has no such cell.

Observations that were met while modelling, which are in the models as the code
has them and which no run reports as a violation:

- A creation that failed after its row was stored, and is retried while a restore
  is open, makes the Git directory before it is refused:
  `with_repository_creation_mutation` does not ask for the barrier, and the retry
  has nothing to store until the directory is there (`E/repository_creation.rs:130`).
  `jeryu-core/db/constraints.md:511` says that "ordinary Git callbacks" remain
  blocked, and a test is named
  `every_ordinary_core_scope_refuses_before_state_or_external_effect`.
  `StateRestsUnderBarrier` is about the stored State only.
- A repository that was ever transferred cannot be deleted from a persistent
  store: the journals of its transfers stay in State and are refused by their
  foreign key (`E/repositories.rs:229`).
- A batch that is refused half-way drops the reservations it has made without
  releasing their slots (`jeryu-runnerd/src/fleet.rs:351`).
- An update with a draft flag sets the state of a pull request whatever it was:
  a closed one is open again (`E/pull_requests.rs:226`).
- A temporary account is stored, and then the forced change of its password; if
  the second save fails the account stays without it (`E/auth.rs:86`).
- A run id that a caller chose replaces the record of another run
  (`A/web/agent_runs/store.rs:26`). The driver thread of the old run then ends the
  state of the new record; `RunningIsSupervised` says only that no record is left
  running for ever. The events of the new record are numbered from 1 again, so a
  browser that comes back with the old cursor is not shown the first of them.
- A resync frame is a named event (`A/web/agent_runs/handlers.rs:386`), and the
  browser's transport has no listener for it: the server marks every gap
  (`GapsAreMarked`) and the terminal does not show the mark.

## Not modelled

Most of the repository's lines are not modelled: the definitions here stand for
about five in a hundred of them. The models take the parts where several actors
change shared state over several steps; the rest of the repository is of other
kinds, and PROJECT.json lists every part with its reason.

- Programs that run once over files (release tools, split tool, tool control),
  display (terminal, web pages, read models), formats, codecs and hashes: they
  have no steps between which another actor could act, or none that the
  properties here are about.
- Containers, sandboxes, network filters, Git itself and SQLite: external. What
  the modelled code relies on is in the external actions. A save of State is
  atomic, as its SQLite transaction is.
- The merge queue and its schedule, the cache, the mirror and backups, the
  autonomy gate, the runtime registry with its writer lease: these have state
  and could be modelled; they are not yet. That a store has one writing process,
  which the writer lease is for, is assumed by all modules.

Inside the modelled parts, error texts, JSON, digests and timestamps that no
decision reads are left out. Also left out:

- Workcells: the heartbeat flag, which nothing modelled reads, and
  `reap_orphans`, which nothing in the repository calls. Repairs from a
  snapshot and blocks are actions although no route reaches them yet. The web
  server makes its manager with `new`, so `Warm` is 0.
- Agent runs: control commands and pages of events. Nobody but the server is
  taken to push to a session's branch.
- Accounts: teams, SSH keys, rate limits, and proofs of read-only sessions.
- Pull requests: forks, several rules for one branch, labels and comments. One
  pull request is modelled. The merge entry points refuse every call.
- Required attempts: one repository; artifacts and audit rows. Publishers are
  installed and revoked through Core's interface, which only tests call now.

## Plan

1. The runtime registry and the writer lease across processes, on which the
   assumption of a single writer rests.
2. The merge queue and `deterministic_schedule` against a reference definition.
3. An abstract contract for `RequiredAttempts`, as the ref-operation journal has.
4. A composition of `Commissioning` with the barrier of `MutationAdmission`,
   which is a free choice there now.
