------------------------------ MODULE RequiredAttempts ------------------------------
(***************************************************************************)
(* Required status contexts, jeryu-core/src/engine/                        *)
(* required_publisher_controller.rs, with the enrollment of publishers     *)
(* (publisher_enrollment.rs) and the durable records both keep             *)
(* (storage/required_attempts.rs, storage/publisher_enrollment.rs).        *)
(*                                                                         *)
(* A publisher is enrolled for exact commits and contexts.  It reserves an *)
(* attempt under an idempotency key, runs, and completes the attempt inside*)
(* a fixed window.  A commit is satisfied when, for every context the      *)
(* branch policy requires, the newest attempt succeeded and its enrollment *)
(* is still the publisher's latest.  One repository is modelled.           *)
(*                                                                         *)
(* An operation runs under the repository's lock and the shared authority  *)
(* lock, so accounts, refs and attempts stand still while it runs.  The    *)
(* wall clock does not: reserve and complete read it before and after they *)
(* observe the managed ref, and the readings are "now" and "later".  The   *)
(* clock may be set back, which the records' window checks allow for.      *)
(*                                                                         *)
(* The publisher's access to the repository, the mutation barrier and the  *)
(* verdict of the installed authority may change at any time, and all they *)
(* do is refuse a call, which then changes nothing.                        *)
(***************************************************************************)
EXTENDS Integers, Sequences, FiniteSets

CONSTANTS
    Publishers,     \* publisher ids
    Actors,         \* actor bindings: account, credential and epoch
    Commits,
    Contexts,       \* status contexts
    Keys,           \* idempotency keys, unique within the repository
    TokenExpires,   \* when the access token of a binding expires
    ScopeSets,      \* the sets of targets an enrollment may cover
    Windows,        \* the <<issued, expires>> an enrollment may carry
    MaxTime,        \* bound on the wall clock
    MaxWindow,      \* the 7200 seconds an attempt may last, in clock units
    MaxEnrollments  \* bound on the enrollments installed

Targets == Commits \X Contexts
Instants == 0..MaxTime

ASSUME ConstantsAssumption ==
    /\ TokenExpires \in [Actors -> Nat]
    /\ ScopeSets \subseteq SUBSET Targets
    /\ Windows \subseteq Instants \X Instants
    /\ MaxTime \in Nat
    /\ MaxWindow \in Nat
    /\ MaxEnrollments \in Nat

VARIABLES
    now,            \* the wall clock, Utc::now()
    tip,            \* the commit at the managed source ref
    trusted,        \* the bindings whose account, epoch and token still stand
    required,       \* required_status_checks of the default branch
    enrolled,       \* forge_required_publishers: the revisions of each publisher
    attempts,       \* forge_required_attempts, by idempotency key
    history         \* the keys reserved for a target; an attempt's ordinal is its place

attemptVars == <<now, tip, trusted, required, enrolled, attempts, history>>

Conclusions == {"success", "failure", "cancelled"}

\* "revoked" holds the time of the revocation, if there is one.
Enrollment == [actor : Actors, scopes : ScopeSets, issued : Instants, expires : Instants,
               installed : Instants, revoked : SUBSET Instants]

Attempt == [target : Targets, publisher : Publishers, revision : Nat \ {0},
            expires : Instants, reserved : Instants,
            conclusion : Conclusions \cup {"pending"}, completed : Instants]

AttemptsInit ==
    /\ now = 0
    /\ tip \in Commits
    /\ trusted = Actors
    /\ required \in SUBSET Contexts
    /\ enrolled = [p \in Publishers |-> <<>>]
    /\ attempts = [k \in {} |-> 0]
    /\ history = [t \in Targets |-> <<>>]

-----------------------------------------------------------------------------
(* Publishers *)

Last(s) == s[Len(s)]

Latest(p) == Last(enrolled[p])

\* DurableRequiredPublisher::require_current: the enrollment's window is half open.
InForce(e, at) ==
    /\ e.revoked = {}
    /\ e.installed <= at
    /\ e.issued <= at
    /\ at < e.expires

\* validate_actor_binding, for the personal access token of a publisher.
Trusts(a, at) == a \in trusted /\ at < TokenExpires[a]

\* Bound: enrollments left to install.
Room ==
    Cardinality(UNION {{p} \X (1..Len(enrolled[p])) : p \in Publishers}) < MaxEnrollments

\* install_required_publisher: the next revision in the publisher's chain.  The
\* caller names the digest of the revision it replaces, "seen" here; the digest
\* leaves out a revocation.  An operation id that was used answers with its record.
Install(p, seen, a, scopes, issued, expires) ==
    /\ issued < expires
    /\ issued <= now /\ now < expires
    /\ seen = Len(enrolled[p])
    /\ Room
    /\ enrolled' = [enrolled EXCEPT ![p] = Append(@,
           [actor |-> a, scopes |-> scopes, issued |-> issued, expires |-> expires,
            installed |-> now, revoked |-> {}])]
    /\ UNCHANGED <<now, tip, trusted, required, attempts, history>>

\* Mutant: a revocation may be dated before the installation.
\* revoke_required_publisher: the latest revision, if it is the one the caller saw.
\* The caller states the time, which need not be the clock's.
Revoke(p, seen, at) ==
    /\ enrolled[p] # <<>>
    /\ seen = Len(enrolled[p])
    /\ Latest(p).revoked = {}
    /\ Latest(p).installed <= at
    /\ enrolled' = [enrolled EXCEPT ![p][seen].revoked = {at}]
    /\ UNCHANGED <<now, tip, trusted, required, attempts, history>>

-----------------------------------------------------------------------------
(* Attempts *)

\* Mutant: any enrollment of the publisher that is not revoked will do.
StillPublisher(a) == Latest(a.publisher).revoked = {}

\* latest_required_publisher answers with the enrollment this attempt was
\* reserved under, and it is not revoked.
StillEnrolled(a) ==
    /\ a.revision = Len(enrolled[a.publisher])
    /\ Latest(a.publisher).revoked = {}

\* validate_attempt_enrollment: the attempt fits the enrollment it names.
FitsEnrollment(a) ==
    LET e == Latest(a.publisher)
    IN  /\ a.target \in e.scopes
        /\ e.installed <= a.reserved
        /\ e.issued <= a.reserved
        /\ a.expires <= e.expires
        /\ a.expires - a.reserved <= MaxWindow

\* The store's reserve_required_attempt.  A key that was used answers with its
\* attempt when the reservation is the same, and with a conflict otherwise.
StoreReservation(p, k, t, expires, later) ==
    /\ k \notin DOMAIN attempts
    /\ later < expires
    /\ attempts' = [j \in DOMAIN attempts \cup {k} |->
           IF j = k
           THEN [target |-> t, publisher |-> p, revision |-> Len(enrolled[p]),
                 expires |-> expires, reserved |-> later,
                 conclusion |-> "pending", completed |-> 0]
           ELSE attempts[j]]
    /\ history' = [history EXCEPT ![t] = Append(@, k)]

\* reserve_required_attempt
Reserve(p, k, t, expires, later) ==
    /\ enrolled[p] # <<>>
    /\ Trusts(Latest(p).actor, now)
    /\ InForce(Latest(p), now)
    /\ t \in Latest(p).scopes
    /\ now < expires
    /\ expires <= Latest(p).expires
    /\ expires - now <= MaxWindow
    /\ tip = t[1]
    /\ Trusts(Latest(p).actor, later)
    /\ InForce(Latest(p), later)
    /\ StoreReservation(p, k, t, expires, later)
    /\ now' = later
    /\ UNCHANGED <<tip, trusted, required, enrolled>>

\* Mutant: the completion does not look at the time of the reservation.
StoreCompletionEarly(k, conclusion, later) ==
    /\ attempts[k].conclusion = "pending"
    /\ later < attempts[k].expires
    /\ attempts' = [attempts EXCEPT ![k].conclusion = conclusion, ![k].completed = later]

\* The store's complete_required_attempt.  A completed attempt answers a replay of
\* the same completion and refuses another one.
StoreCompletion(k, conclusion, later) ==
    /\ attempts[k].conclusion = "pending"
    /\ attempts[k].reserved <= later
    /\ later < attempts[k].expires
    /\ attempts' = [attempts EXCEPT ![k].conclusion = conclusion, ![k].completed = later]

\* complete_required_attempt
Complete(k, conclusion, later) ==
    /\ k \in DOMAIN attempts
    /\ LET a == attempts[k]
       IN  /\ StillEnrolled(a)
           /\ Trusts(Latest(a.publisher).actor, now)
           /\ FitsEnrollment(a)
           /\ InForce(Latest(a.publisher), now)
           /\ tip = a.target[1]
           /\ Trusts(Latest(a.publisher).actor, later)
           /\ InForce(Latest(a.publisher), later)
    /\ StoreCompletion(k, conclusion, later)
    /\ now' = later
    /\ UNCHANGED <<tip, trusted, required, enrolled, history>>

\* The newest attempt of a target succeeded and its enrollment still stands.
\* status_at: a completed attempt keeps its conclusion when its window has passed.
Satisfied(t) ==
    /\ history[t] # <<>>
    /\ LET a == attempts[Last(history[t])]
       IN  /\ a.conclusion = "success"
           /\ StillEnrolled(a)
           /\ FitsEnrollment(a)
           /\ Trusts(Latest(a.publisher).actor, now)

\* required_attempt_snapshot, when the installed authority accepts the publishers.
SnapshotSatisfied(c) ==
    /\ required # {}
    /\ \A x \in required : Satisfied(<<c, x>>)

-----------------------------------------------------------------------------
(* What changes around the publishers *)

\* The wall clock moves on, or is set back.
SetClock(t) ==
    /\ now' = t
    /\ UNCHANGED <<tip, trusted, required, enrolled, attempts, history>>

\* The managed source ref moves.
MoveRef(c) ==
    /\ tip' = c
    /\ UNCHANGED <<now, trusted, required, enrolled, attempts, history>>

\* A token is revoked or its account's epoch moves: the binding no longer
\* validates, and never will (HandlesStayDead of Accounts).
Distrust(a) ==
    /\ trusted' = trusted \ {a}
    /\ UNCHANGED <<now, tip, required, enrolled, attempts, history>>

\* set_branch_protection on the default branch.
SetRequired(S) ==
    /\ required' = S
    /\ UNCHANGED <<now, tip, trusted, enrolled, attempts, history>>

PublisherStep ==
    \E p \in Publishers, seen \in 0..MaxEnrollments :
        \/ \E at \in Instants : Revoke(p, seen, at)
        \/ \E a \in Actors, scopes \in ScopeSets, w \in Windows :
               Install(p, seen, a, scopes, w[1], w[2])

AttemptStep ==
    \E k \in Keys, later \in Instants :
        \/ \E p \in Publishers, t \in Targets, expires \in Instants :
               Reserve(p, k, t, expires, later)
        \/ \E conclusion \in Conclusions : Complete(k, conclusion, later)

OutsideStep ==
    \/ \E t \in Instants : SetClock(t)
    \/ \E c \in Commits : MoveRef(c)
    \/ \E a \in Actors : Distrust(a)
    \/ \E S \in SUBSET Contexts : SetRequired(S)

AttemptsNext == PublisherStep \/ AttemptStep \/ OutsideStep

AttemptsSpec == AttemptsInit /\ [][AttemptsNext]_attemptVars

-----------------------------------------------------------------------------
(* Properties *)

AttemptsTypeOK ==
    /\ now \in Instants
    /\ tip \in Commits
    /\ trusted \subseteq Actors
    /\ required \subseteq Contexts
    /\ enrolled \in [Publishers -> Seq(Enrollment)]
    /\ DOMAIN attempts \subseteq Keys
    /\ attempts \in [DOMAIN attempts -> Attempt]
    /\ history \in [Targets -> Seq(Keys)]

DatesInOrder(e) ==
    /\ e.issued <= e.installed /\ e.installed < e.expires
    /\ \A at \in e.revoked : e.installed <= at

\* What load_attempt and load demand of a record whenever it is read again,
\* storage/required_attempts.rs:197 and storage/publisher_enrollment.rs:207 and
\* :222.  A record the code wrote never fails them, however the clock was set and
\* whatever time a revocation states: a record that did would make every later
\* snapshot of its commit fail.
RecordsStayReadable ==
    /\ \A k \in DOMAIN attempts :
           LET a == attempts[k]
           IN  /\ a.reserved < a.expires
               /\ a.conclusion # "pending" =>
                      a.reserved <= a.completed /\ a.completed < a.expires
    /\ \A p \in Publishers : \A i \in 1..Len(enrolled[p]) : DatesInOrder(enrolled[p][i])

\* The step completes the newest attempt of the target, on the commit that is at
\* the managed ref, while the publisher is enrolled and the attempt's window is open.
EarnedNow(t) ==
    /\ history[t] # <<>>
    /\ history'[t] = history[t]
    /\ tip = t[1]
    /\ LET k == Last(history[t])
       IN  /\ attempts[k].conclusion = "pending"
           /\ attempts'[k].conclusion = "success"
           /\ attempts'[k].completed < attempts[k].expires
           /\ attempts[k].expires <= Latest(attempts[k].publisher).expires

\* The step sets the clock back to before the token of the newest attempt's
\* publisher expired, and leaves the attempt and the enrollment as they were.
RestoredNow(t) ==
    /\ history[t] # <<>>
    /\ history'[t] = history[t]
    /\ LET a == attempts[Last(history[t])]
           token == TokenExpires[Latest(a.publisher).actor]
       IN  /\ attempts'[Last(history[t])] = a
           /\ enrolled'[a.publisher] = enrolled[a.publisher]
           /\ now' < token /\ token <= now

\* The step reserves a newer attempt for the target, rotates or revokes the
\* enrollment of its newest one, or invalidates that enrollment's actor.
WithdrawnNow(t) ==
    \/ history'[t] # history[t]
    \/ LET a == attempts[Last(history[t])]
       IN  \/ enrolled'[a.publisher] # enrolled[a.publisher]
           \/ ~Trusts(Latest(a.publisher).actor, now)'

\* A commit becomes satisfied only by a change of the policy, by the success of
\* the newest attempt of a required context, or by a clock set back to before the
\* publisher's token expired.  It stops being satisfied only by a change of the
\* policy, a newer attempt, or the end of the publisher's enrollment or actor.  So
\* required_attempt_snapshot is moved by no late success of a superseded attempt,
\* no success under a revoked or rotated enrollment, no replayed call and no push.
SatisfactionHasCause ==
    [][\A c \in Commits :
          /\ ~SnapshotSatisfied(c) /\ SnapshotSatisfied(c)' =>
                 \/ required' # required
                 \/ \E x \in required : EarnedNow(<<c, x>>) \/ RestoredNow(<<c, x>>)
          /\ SnapshotSatisfied(c) /\ ~SnapshotSatisfied(c)' =>
                 \/ required' # required
                 \/ \E x \in required : WithdrawnNow(<<c, x>>)]_attemptVars

==============================================================================
