------------------------------ MODULE LeaseBook ------------------------------
(***************************************************************************)
(* The lease ledger of one scheduled pipeline run                          *)
(* (jeryu-ci-scheduler, leases/book.rs).  Workers acquire jobs for a time, *)
(* report a result or go silent, and the scheduler retries a job until its *)
(* budget of attempts is spent.                                            *)
(*                                                                         *)
(* What can go wrong here comes from the outside of the book: a runner may *)
(* report late, twice, or for an attempt that was already given to another *)
(* worker, and each call carries a scheduler time that was read before the *)
(* call was served.  So a result may arrive for any lease that was ever    *)
(* issued, as often as it likes, and the time of a call is any time up to  *)
(* the current one.  A call that the code answers with an error and no     *)
(* change of the book is a stuttering step.                                *)
(***************************************************************************)
EXTENDS Integers, FiniteSets

CONSTANTS
  Jobs,        \* the job ids of the pipeline
  Workers,     \* runner node ids
  NodeEpochs,  \* fencing tokens of the runner nodes
  Retry,       \* retry_policy.max_attempts of each job
  MaxEpoch,    \* the largest time: u64::MAX in the code
  NoLease      \* "this job holds no lease"

ASSUME RetryAssumption == Retry \in [Jobs -> Nat]
ASSUME MaxEpochAssumption == MaxEpoch \in Nat

VARIABLES
  clock,    \* the scheduler clock
  attempt,  \* JobLeaseRecord.attempt
  state,    \* the variant of JobLeaseRecord.state
  lease,    \* the lease inside JobLeaseState::Leased
  issued,   \* every lease acquire has returned to a worker
  receipts  \* every receipt returned for the end of a lease

vars == <<clock, attempt, state, lease, issued, receipts>>

Times == 0 .. MaxEpoch

\* deterministic_hash over these five fields: the lease id.
LeaseIds == [job : Jobs, attempt : Nat, worker : Workers,
             epoch : NodeEpochs, at : Times]

Leases == [id : LeaseIds, job : Jobs, worker : Workers, epoch : NodeEpochs,
           attempt : Nat, acquired : Times, expires : Times]

States == {"Pending", "Leased", "Succeeded", "Failed", "Cancelled"}

Terminal == {"Succeeded", "Failed", "Cancelled"}

\* JobOutcome; "Failed" stands for Failed, TimedOut and InfrastructureFailure,
\* which the book treats alike.
Outcomes == {"Success", "Cancelled", "Failed"}

EventKinds == {"Completed", "Requeued", "Failed", "Cancelled"}

Receipts == [kind : EventKinds, lease : Leases, at : Times]

\* job.retry_policy.max_attempts.max(1)
MaxAttempts(j) == IF Retry[j] = 0 THEN 1 ELSE Retry[j]

-----------------------------------------------------------------------------

Init ==
  /\ clock = 0
  /\ attempt = [j \in Jobs |-> 0]
  /\ state = [j \in Jobs |-> "Pending"]
  /\ lease = [j \in Jobs |-> NoLease]
  /\ issued = {}
  /\ receipts = {}

\* build_lease: the id hashes the attempt, the holder and the time.
BuildLease(j, w, e, n, at, ttl) ==
  [id |-> [job |-> j, attempt |-> n, worker |-> w, epoch |-> e, at |-> at],
   job |-> j, worker |-> w, epoch |-> e, attempt |-> n,
   acquired |-> at, expires |-> at + ttl]

RetryOrFailKeepsAttempt(j, n) ==
  IF n < MaxAttempts(j)
  THEN [attempt |-> n, state |-> "Pending", kind |-> "Requeued"]
  ELSE [attempt |-> n, state |-> "Failed", kind |-> "Failed"]

RetryOrFailOnceMore(j, n) ==
  IF n <= MaxAttempts(j)
  THEN [attempt |-> n + 1, state |-> "Pending", kind |-> "Requeued"]
  ELSE [attempt |-> n, state |-> "Failed", kind |-> "Failed"]

\* The effect of retry_or_fail on a record whose attempt is n: the attempt, the
\* state and the kind of receipt that follow.
RetryOrFail(j, n) ==
  IF n < MaxAttempts(j)
  THEN [attempt |-> n + 1, state |-> "Pending", kind |-> "Requeued"]
  ELSE [attempt |-> n, state |-> "Failed", kind |-> "Failed"]

\* An acquisition's lifetime is refused when it is empty or would overflow.
ValidLifetime(at, ttl) == ttl > 0 /\ at + ttl <= MaxEpoch

\* Hand job j, at attempt n, to worker w.
Lend(j, w, e, n, at, ttl) ==
  LET l == BuildLease(j, w, e, n, at, ttl)
  IN /\ attempt' = [attempt EXCEPT ![j] = n]
     /\ state' = [state EXCEPT ![j] = "Leased"]
     /\ lease' = [lease EXCEPT ![j] = l]
     /\ issued' = issued \cup {l}
     /\ UNCHANGED receipts

\* acquire_with_epoch on a job that holds no lease; the first acquisition
\* starts attempt 1.
AcquirePending(j, w, e, at, ttl) ==
  /\ ValidLifetime(at, ttl)
  /\ state[j] = "Pending"
  /\ Lend(j, w, e, IF attempt[j] = 0 THEN 1 ELSE attempt[j], at, ttl)
  /\ UNCHANGED clock

\* The holder asks again while its lease is live: it gets the same lease.
\* Another epoch of the same worker is fenced out, another worker refused.
AcquireAgain(j, w, e, at, ttl) ==
  /\ ValidLifetime(at, ttl)
  /\ state[j] = "Leased"
  /\ lease[j].acquired <= at
  /\ at < lease[j].expires
  /\ lease[j].worker = w
  /\ lease[j].epoch = e
  /\ issued' = issued \cup {lease[j]}
  /\ UNCHANGED <<clock, attempt, state, lease, receipts>>

LapsedEarly(l, at) == l.acquired <= at /\ l.expires <= at + 1

\* The lease is over at this time; a time before its start is refused.
Lapsed(l, at) == l.acquired <= at /\ l.expires <= at

\* acquire_with_epoch on an expired lease: the attempt is consumed first.  With
\* budget left the caller gets the next attempt; otherwise the job fails for
\* good and the caller gets an error.  Neither emits a receipt for the lease
\* that expired.
AcquireExpired(j, w, e, at, ttl) ==
  /\ ValidLifetime(at, ttl)
  /\ state[j] = "Leased"
  /\ Lapsed(lease[j], at)
  /\ LET next == RetryOrFail(j, attempt[j])
     IN \/ /\ next.state = "Pending"
           /\ Lend(j, w, e, next.attempt, at, ttl)
        \/ /\ next.state = "Failed"
           /\ attempt' = [attempt EXCEPT ![j] = next.attempt]
           /\ state' = [state EXCEPT ![j] = next.state]
           /\ lease' = [lease EXCEPT ![j] = NoLease]
           /\ UNCHANGED <<issued, receipts>>
  /\ UNCHANGED clock

\* active_record: the caller's whole lease is the one the record holds, and the
\* time is inside its lifetime.
ActiveRecord(l, at) ==
  /\ state[l.job] = "Leased"
  /\ lease[l.job] = l
  /\ l.acquired <= at
  /\ at < l.expires

\* Take the lease off record j and leave it as r says.
Close(j, r) ==
  /\ attempt' = [attempt EXCEPT ![j] = r.attempt]
  /\ state' = [state EXCEPT ![j] = r.state]
  /\ lease' = [lease EXCEPT ![j] = NoLease]

AfterOutcomeRetriesCancelled(j, n, outcome) ==
  CASE outcome = "Success" ->
         [attempt |-> n, state |-> "Succeeded", kind |-> "Completed"]
    [] outcome = "Cancelled" -> [RetryOrFail(j, n) EXCEPT !.kind = "Cancelled"]
    [] outcome = "Failed" -> RetryOrFail(j, n)

\* What complete, cancel and fail make of a record at attempt n, and the kind of
\* receipt apply_result returns for it.
AfterOutcome(j, n, outcome) ==
  CASE outcome = "Success" ->
         [attempt |-> n, state |-> "Succeeded", kind |-> "Completed"]
    [] outcome = "Cancelled" ->
         [attempt |-> n, state |-> "Cancelled", kind |-> "Cancelled"]
    [] outcome = "Failed" -> RetryOrFail(j, n)

\* complete, fail and cancel called by the scheduler itself: no receipt.
Settle(l, outcome, at) ==
  /\ ActiveRecord(l, at)
  /\ Close(l.job, AfterOutcome(l.job, attempt[l.job], outcome))
  /\ UNCHANGED <<clock, issued, receipts>>

\* apply_result with a runner's report about lease l: the report names the
\* lease by id and the reporting runner's node and epoch, which must be those
\* of the lease the record holds now.
ApplyResult(l, w, e, outcome, at) ==
  LET j == l.job
      active == lease[j]
      r == AfterOutcome(j, attempt[j], outcome)
  IN /\ state[j] = "Leased"
     /\ active.id = l.id
     /\ active.worker = w
     /\ active.epoch = e
     /\ ActiveRecord(active, at)
     /\ Close(j, r)
     /\ receipts' = receipts \cup {[kind |-> r.kind, lease |-> active, at |-> at]}
     /\ UNCHANGED <<clock, issued>>

\* The jobs whose lease is over: a lease ends at its expiry time, not after it.
ExpiredAt(at) == {j \in Jobs : state[j] = "Leased" /\ lease[j].expires <= at}

\* expire: one sweep over all records, one receipt for each expired lease.
Expire(at) ==
  LET gone == ExpiredAt(at)
      after == [j \in Jobs |-> RetryOrFail(j, attempt[j])]
  IN /\ gone # {}
     /\ attempt' = [j \in Jobs |-> IF j \in gone THEN after[j].attempt ELSE attempt[j]]
     /\ state' = [j \in Jobs |-> IF j \in gone THEN after[j].state ELSE state[j]]
     /\ lease' = [j \in Jobs |-> IF j \in gone THEN NoLease ELSE lease[j]]
     /\ receipts' = receipts \cup
          {[kind |-> after[j].kind, lease |-> lease[j], at |-> at] : j \in gone}
     /\ UNCHANGED <<clock, issued>>

\* Time passes.
Tick ==
  /\ clock < MaxEpoch
  /\ clock' = clock + 1
  /\ UNCHANGED <<attempt, state, lease, issued, receipts>>

Acquire(j, w, e, at, ttl) ==
  \/ AcquirePending(j, w, e, at, ttl)
  \/ AcquireAgain(j, w, e, at, ttl)
  \/ AcquireExpired(j, w, e, at, ttl)

\* The time given to a call was read from the clock at or before the call.
Next ==
  \/ Tick
  \/ \E at \in 0 .. clock :
       \/ Expire(at)
       \/ \E j \in Jobs, w \in Workers, e \in NodeEpochs, ttl \in Times :
            Acquire(j, w, e, at, ttl)
       \/ \E l \in issued, outcome \in Outcomes :
            \/ Settle(l, outcome, at)
            \/ \E w \in Workers, e \in NodeEpochs :
                 ApplyResult(l, w, e, outcome, at)

Spec == Init /\ [][Next]_vars

-----------------------------------------------------------------------------

\* Records, leases and receipts have the shapes of leases/types.rs, and every
\* expiry time fits the clock's type.
TypeOK ==
  /\ clock \in Times
  /\ attempt \in [Jobs -> Nat]
  /\ state \in [Jobs -> States]
  /\ lease \in [Jobs -> Leases \cup {NoLease}]
  /\ issued \subseteq Leases
  /\ receipts \subseteq Receipts

\* A job runs at most once for each attempt of its budget, whatever expires, is
\* retried, taken over or asked for again (acquire_with_epoch, retry_or_fail).
OneLeasePerAttempt ==
  /\ \A l \in issued : l.attempt \in 1 .. MaxAttempts(l.job)
  /\ \A k, l \in issued : k.job = l.job /\ k.attempt = l.attempt => k = l

\* An attempt ends once: late, duplicated or competing reports and sweeps never
\* yield a second receipt for it (apply_result, expire).
OneOutcomePerAttempt ==
  \A q, r \in receipts :
    q.lease.job = r.lease.job /\ q.lease.attempt = r.lease.attempt => q = r

\* What receipt r says of its job is true of the job's record now.
Stands(r) ==
  LET j == r.lease.job
  IN IF r.kind = "Requeued"
     THEN attempt[j] > r.lease.attempt
     ELSE /\ attempt[j] = r.lease.attempt
          /\ state[j] = IF r.kind = "Completed" THEN "Succeeded" ELSE r.kind

\* What a receipt told its reader stays true of the book: a completed,
\* cancelled or failed job remains so at that attempt, and a requeued one has
\* moved past it (lease_receipt, against every later transition).
ReceiptsStand == \A r \in receipts : Stands(r)

\* No acquisition, report or sweep reopens a job that ended.
TerminalForever ==
  [][\A j \in Jobs : state[j] \in Terminal => state'[j] = state[j]]_vars

\* A lease changes hands only once the clock has passed its expiry, however
\* stale the time that the acquiring call carries.
NoTakeoverOfLiveLease ==
  [][\A j \in Jobs :
       /\ state[j] = "Leased"
       /\ state'[j] = "Leased"
       /\ lease'[j] # lease[j]
       => lease[j].expires <= clock]_vars

=============================================================================
