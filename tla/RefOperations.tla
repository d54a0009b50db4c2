---------------------------- MODULE RefOperations ----------------------------
(***************************************************************************)
(* The durable journal for Git ref changes (jeryu-core, ref_operations.rs  *)
(* and storage/ref_operations.rs).                                         *)
(*                                                                         *)
(* A caller prepares an operation under the guards of its repositories, a  *)
(* broker runs the Git transaction, observes what became of it and records *)
(* the observation.  Between any two of these steps the process may crash, *)
(* the Git transaction may land late or die, other writers may move the    *)
(* refs, and any call may be repeated because its reply was lost.          *)
(*                                                                         *)
(* Git and the broker are not part of the journal's code.  They are        *)
(* modelled from what the journal expects of them: the transaction changes *)
(* the refs and the marker ref together, only from the expected values;    *)
(* the broker observes and records under one custody of the repository and *)
(* reports as application evidence a transaction that may still land.      *)
(***************************************************************************)
EXTENDS Naturals, FiniteSets

CONSTANTS
  Ops,       \* UUIDs of operations
  Repos,     \* UUIDs of repositories
  Intents,   \* the intents callers submit: [repo, source, key, changes]
  Refs,      \* head and tag names
  Oids,      \* object ids
  Absent,    \* RefValue::Absent
  Receipts,  \* delivery receipts
  None       \* no intent, no observation, no event or no receipt

Values == Oids \cup {Absent}

\* A change is never empty and never the identity (RefOperationIntent::validate).
ASSUME IntentsAssumption ==
  \A i \in Intents :
    /\ i.repo \in Repos
    /\ i.source \in Repos
    /\ \E rs \in SUBSET Refs : rs # {} /\ i.changes \in [rs -> [expected : Values, result : Values]]
    /\ \A r \in DOMAIN i.changes : i.changes[r].expected # i.changes[r].result

ASSUME ReposAssumption == Repos # {}

\* A delivery receipt is a SHA-256, never the word "pending".
ASSUME ReceiptsAssumption == "pending" \notin Receipts

ASSUME NoneAssumption == None \notin Intents /\ None \notin Receipts /\ None # "pending"

VARIABLES
  intent,     \* forge_ref_operations: the intent of each row, or None
  opState,    \* forge_ref_operations.state
  outcome,    \* the observation inside outcome_json, or None
  outbox,     \* forge_ref_operation_outbox: None, "pending" or a receipt
  effects,    \* how often on_committed changed the stored catalog for the row
  refs,       \* Git: the value of each ref of a repository an intent changes
  marked,     \* Git: operations whose marker ref exists
  flight,     \* Git: operations whose transaction may still land
  seen        \* the broker's observation of each operation, or None

journalVars == <<intent, opState, outcome, outbox, effects>>
gitVars == <<refs, marked, flight>>
vars == <<journalVars, gitVars, seen>>

OpStates == {"none", "prepared", "committed", "aborted_not_applied",
             "reconciliation_required"}

Unresolved == {"prepared", "reconciliation_required"}

Rows == {o \in Ops : opState[o] # "none"}

\* The repositories whose refs an operation changes; of the source of a merge
\* no ref is written or observed.
Written == {i.repo : i \in Intents}

\* RefOperationIntent::repositories
Repositories(i) == {i.repo, i.source}

-----------------------------------------------------------------------------

Init ==
  /\ intent = [o \in Ops |-> None]
  /\ opState = [o \in Ops |-> "none"]
  /\ outcome = [o \in Ops |-> None]
  /\ outbox = [o \in Ops |-> None]
  /\ effects = [o \in Ops |-> 0]
  /\ refs \in [Written -> [Refs -> Values]]
  /\ marked = {}
  /\ flight = {}
  /\ seen = [o \in Ops |-> None]

\* load_by_key
ByKey(i) == {o \in Rows : intent[o].repo = i.repo /\ intent[o].key = i.key}

\* The rest of Core decides whether an operation may start now.  These inputs
\* change at any time, so each call meets any combination of them:
\*   admission  what require_repository_admissible says of each repository
\*   barrier    a commissioning restore forbids ordinary mutations
\*   expired    the intent's expires_at has passed
Admissions == [Repos -> {"open", "read_only", "closed"}]

\* require_repository_admissible for every repository of the intent: the target
\* is written, the source of a merge is read.
Admissible(i, admission) ==
  /\ admission[i.repo] = "open"
  /\ \A r \in Repositories(i) : admission[r] # "closed"

UnresolvedIgnoresQuarantine(r) ==
  \E o \in Rows : intent[o].repo = r /\ opState[o] = "prepared"

\* The EXISTS query over rows in state prepared or reconciliation_required.
UnresolvedIn(r) ==
  \E o \in Rows : intent[o].repo = r /\ opState[o] \in Unresolved

\* prepare_ref_operation with a key that is not in the journal.  A key that is
\* there is a replay: it returns the row, or a conflict, and changes nothing.
Prepare(o, i, admission, barrier, expired) ==
  /\ opState[o] = "none"
  /\ ByKey(i) = {}
  /\ ~barrier
  /\ Admissible(i, admission)
  /\ ~UnresolvedIn(i.repo)
  /\ ~expired
  /\ intent' = [intent EXCEPT ![o] = i]
  /\ opState' = [opState EXCEPT ![o] = "prepared"]
  /\ UNCHANGED <<outcome, outbox, effects, gitVars, seen>>

RefsAre(i, values, which) ==
  /\ DOMAIN values = DOMAIN i.changes
  /\ \A r \in DOMAIN i.changes : values[r] = i.changes[r][which]

ClassifyIgnoresEvidence(i, obs) ==
  CASE obs.kind = "Unavailable" -> "reconciliation_required"
    [] obs.kind = "Observed" /\ obs.marker = "bound" /\ RefsAre(i, obs.refs, "result") ->
         "committed"
    [] obs.kind = "Observed" /\ obs.marker = "absent" /\ RefsAre(i, obs.refs, "expected") ->
         "aborted_not_applied"
    [] OTHER -> "reconciliation_required"

ClassifyIgnoresMarker(i, obs) ==
  CASE obs.kind = "Unavailable" -> "reconciliation_required"
    [] obs.kind = "Observed" /\ RefsAre(i, obs.refs, "result") -> "committed"
    [] obs.kind = "Observed" /\ obs.marker = "absent" /\ ~obs.evidence
         /\ RefsAre(i, obs.refs, "expected") -> "aborted_not_applied"
    [] OTHER -> "reconciliation_required"

\* DurableRefOperation::classify
Classify(i, obs) ==
  CASE obs.kind = "Unavailable" -> "reconciliation_required"
    [] obs.kind = "Observed" /\ obs.marker = "bound" /\ RefsAre(i, obs.refs, "result") ->
         "committed"
    [] obs.kind = "Observed" /\ obs.marker = "absent" /\ ~obs.evidence
         /\ RefsAre(i, obs.refs, "expected") -> "aborted_not_applied"
    [] OTHER -> "reconciliation_required"

RecordOutcomeAnyState(o) ==
  LET s == Classify(intent[o], seen[o])
  IN /\ opState[o] # "none"
     /\ opState' = [opState EXCEPT ![o] = s]
     /\ outcome' = [outcome EXCEPT ![o] = seen[o]]
     /\ effects' = [effects EXCEPT ![o] = IF s = "committed" THEN @ + 1 ELSE @]
     /\ outbox' = [outbox EXCEPT ![o] = IF s = "committed" THEN "pending" ELSE @]

\* The transaction of reconcile_ref_operation: outcome, catalog snapshot and
\* outbox event are committed together, on the first observation only.
RecordOutcome(o) ==
  LET s == Classify(intent[o], seen[o])
  IN /\ opState[o] = "prepared"
     /\ opState' = [opState EXCEPT ![o] = s]
     /\ outcome' = [outcome EXCEPT ![o] = seen[o]]
     /\ effects' = [effects EXCEPT ![o] = IF s = "committed" THEN @ + 1 ELSE @]
     /\ outbox' = [outbox EXCEPT ![o] = IF s = "committed" THEN "pending" ELSE @]

\* reconcile_ref_operation with the broker's observation.  A row that has an
\* outcome answers the same observation with itself and another one with a
\* conflict; neither changes it.  It is not asked whether the repository is
\* still admissible.
Reconcile(o, barrier) ==
  /\ seen[o] # None
  /\ ~barrier
  /\ RecordOutcome(o)
  /\ UNCHANGED <<intent, gitVars, seen>>

AcknowledgeOverwrites(o, receipt, barrier) ==
  /\ outbox[o] # None
  /\ ~barrier
  /\ outbox' = [outbox EXCEPT ![o] = receipt]
  /\ UNCHANGED <<intent, opState, outcome, effects, gitVars, seen>>

\* acknowledge_ref_operation_event: the first receipt stays.
Acknowledge(o, receipt, barrier) ==
  /\ outbox[o] = "pending"
  /\ ~barrier
  /\ outbox' = [outbox EXCEPT ![o] = receipt]
  /\ UNCHANGED <<intent, opState, outcome, effects, gitVars, seen>>

-----------------------------------------------------------------------------
(* Git and the broker. *)

\* The values Git has for the refs an intent names.
Current(i) == [r \in DOMAIN i.changes |-> refs[i.repo][r]]

\* Hand the prepared transaction to Git; a broker that crashed may do so again.
Dispatch(o) ==
  /\ opState[o] = "prepared"
  /\ seen[o] = None
  /\ o \notin flight
  /\ flight' = flight \cup {o}
  /\ UNCHANGED <<journalVars, refs, marked, seen>>

\* One atomic Git transaction: all refs from expected to result and the marker
\* ref created, or nothing.
Land(o) ==
  LET i == intent[o]
  IN /\ o \in flight
     /\ flight' = flight \ {o}
     /\ \/ /\ o \notin marked
           /\ RefsAre(i, Current(i), "expected")
           /\ marked' = marked \cup {o}
           /\ refs' = [refs EXCEPT ![i.repo] =
                [r \in Refs |-> IF r \in DOMAIN i.changes THEN i.changes[r].result ELSE @[r]]]
        \/ /\ o \in marked \/ ~RefsAre(i, Current(i), "expected")
           /\ UNCHANGED <<refs, marked>>
     /\ UNCHANGED <<journalVars, seen>>

\* The transaction is killed before it takes effect.
Die(o) ==
  /\ o \in flight
  /\ flight' = flight \ {o}
  /\ UNCHANGED <<journalVars, refs, marked, seen>>

\* Someone else moves a ref.
ForeignWrite(r, ref, v) ==
  /\ refs' = [refs EXCEPT ![r][ref] = v]
  /\ UNCHANGED <<journalVars, marked, flight, seen>>

\* What is found at the marker ref: nothing, the object the operation was
\* bound to, or an object some other writer of refs put there.
MarkerSeen(o) == {IF o \in marked THEN "bound" ELSE "absent", "other"}

\* The broker looks at the refs and at the marker, or fails to.
Observe(o) ==
  /\ o \in Rows
  /\ \/ \E marker \in MarkerSeen(o) :
            seen' = [seen EXCEPT ![o] =
                       [kind |-> "Observed", refs |-> Current(intent[o]),
                        marker |-> marker, evidence |-> o \in flight]]
     \/ seen' = [seen EXCEPT ![o] = [kind |-> "Unavailable"]]
  /\ UNCHANGED <<journalVars, gitVars>>

\* The process restarts: the journal, Git and its running children survive.
Crash ==
  /\ seen' = [o \in Ops |-> None]
  /\ UNCHANGED <<journalVars, gitVars>>

Next ==
  \/ \E o \in Ops :
       \/ \E barrier \in BOOLEAN :
            \/ \E i \in Intents, admission \in Admissions, expired \in BOOLEAN :
                 Prepare(o, i, admission, barrier, expired)
            \/ Reconcile(o, barrier)
            \/ \E receipt \in Receipts : Acknowledge(o, receipt, barrier)
       \/ Dispatch(o)
       \/ Land(o)
       \/ Die(o)
       \/ Observe(o)
  \/ \E r \in Written, ref \in Refs, v \in Values : ForeignWrite(r, ref, v)
  \/ Crash

Spec == Init /\ [][Next]_vars

-----------------------------------------------------------------------------

Markers == {"absent", "bound", "other"}

\* RefOperationObservation of the refs of an intent.  Of the value of the marker
\* ref only its relation to the operation's own marker_oid is kept.
Observation(i) ==
  [kind : {"Observed"}, refs : [DOMAIN i.changes -> Values],
   marker : Markers, evidence : BOOLEAN] \cup [kind : {"Unavailable"}]

Observations == UNION {Observation(i) : i \in Intents}

\* Rows, outcomes and events are present exactly as the row's state says, the
\* integrity conditions decode_operation and load_event verify on every read.
TypeOK ==
  /\ intent \in [Ops -> Intents \cup {None}]
  /\ opState \in [Ops -> OpStates]
  /\ outcome \in [Ops -> Observations \cup {None}]
  /\ seen \in [Ops -> Observations \cup {None}]
  /\ outbox \in [Ops -> Receipts \cup {"pending", None}]
  /\ effects \in [Ops -> Nat]
  /\ refs \in [Written -> [Refs -> Values]]
  /\ marked \subseteq Ops
  /\ flight \subseteq Ops
  /\ \A o \in Ops :
       /\ (intent[o] = None) = (opState[o] = "none")
       /\ (outcome[o] = None) = (opState[o] \in {"none", "prepared"})
       /\ intent[o] = None => seen[o] = None
       /\ intent[o] # None =>
            /\ seen[o] \in Observation(intent[o]) \cup {None}
            /\ outcome[o] # None =>
                 /\ outcome[o] \in Observation(intent[o])
                 /\ opState[o] = Classify(intent[o], outcome[o])

\* A caller that lost the reply and prepares again never opens a second
\* operation: an idempotency key of a repository names one row.
KeyNamesOneOperation ==
  \A o, p \in Rows :
    intent[o].repo = intent[p].repo /\ intent[o].key = intent[p].key => o = p

\* A repository has at most one operation whose fate is open or unknown, so no
\* second transaction is started on refs that a first one may still change.
OneUnresolvedPerRepository ==
  \A o, p \in Rows :
    /\ intent[o].repo = intent[p].repo
    /\ opState[o] \in Unresolved
    /\ opState[p] \in Unresolved
    => o = p

\* What the journal records of an operation's fate is what Git did: a committed
\* one took effect; an aborted one did not and can no longer do so.
FateAgreesWithGit ==
  \A o \in Rows :
    /\ opState[o] = "committed" => o \in marked
    /\ opState[o] = "aborted_not_applied" => o \notin marked /\ o \notin flight

\* The catalog change and the event of an operation happen exactly once when it
\* commits and never otherwise, however often outcomes are recorded again.
EffectsExactlyOnce ==
  \A o \in Ops :
    /\ effects[o] = IF opState[o] = "committed" THEN 1 ELSE 0
    /\ (outbox[o] # None) = (opState[o] = "committed")

\* A recorded outcome and a delivery receipt are never revised, whatever is
\* observed or acknowledged later.
RecordsAreImmutable ==
  [][\A o \in Ops :
       /\ outcome[o] # None => outcome'[o] = outcome[o] /\ opState'[o] = opState[o]
       /\ outbox[o] \in Receipts => outbox'[o] = outbox[o]]_vars

Phase(s) ==
  CASE s = "none" -> "none"
    [] s = "prepared" -> "open"
    [] s = "committed" -> "committed"
    [] s = "aborted_not_applied" -> "aborted"
    [] s = "reconciliation_required" -> "quarantined"

Contract == INSTANCE RefOperationContract WITH
  phase <- [o \in Ops |-> Phase(opState[o])],
  repoOf <- [o \in Ops |->
               IF intent[o] = None THEN CHOOSE r \in Repos : TRUE ELSE intent[o].repo],
  performed <- marked,
  effects <- effects,
  announced <- {o \in Ops : outbox[o] # None}

\* The journal, with Git and the broker around it, implements the contract: ref
\* change, catalog change and event together or not at all.
ImplementsContract == Contract!Spec

=============================================================================
