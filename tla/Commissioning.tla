---------------------------- MODULE Commissioning ----------------------------
(***************************************************************************)
(* The commissioning restoration journal (jeryu-core,                      *)
(* engine/commissioning_effects.rs, storage/commissioning_effects.rs and   *)
(* engine/commissioning_controller.rs).                                    *)
(*                                                                         *)
(* A restore is reserved for one operator and one window of time.  Its     *)
(* plan is fixed by the scope; each step is admitted before its effect and *)
(* completed with the outcome received after it, and every one of these is *)
(* a record of an append-only journal.  From the reservation to the        *)
(* closure the restore holds the barrier against ordinary writers.         *)
(*                                                                         *)
(* Each action is one IMMEDIATE transaction under the authority guard, so  *)
(* a crash leaves all of it or nothing.  The clock is the wall clock: it   *)
(* may show any time at any call.  A call answered with an error, or with  *)
(* the response of an earlier identical call, changes nothing.             *)
(***************************************************************************)
EXTENDS Integers, Sequences

CONSTANTS
  Operations, \* UUIDs of restores
  Scopes,     \* the scopes the installed verifier may derive
  Actors,     \* actor bindings
  ClockTimes, \* what the wall clock may show
  Targets,    \* the number of recovery targets (13 in the code)
  None        \* no scope: the UUID is unused

Scope ==
  [contract : STRING, key : STRING, operator : Actors,
   notBefore : ClockTimes, expires : ClockTimes, present : [1..Targets -> BOOLEAN]]

ASSUME ClockAssumption == ClockTimes \subseteq Int
ASSUME TargetsAssumption == Targets \in Nat
ASSUME ScopesAssumption ==
  Scopes \subseteq {s \in Scope : s.notBefore < s.expires}
ASSUME NoneAssumption == None \notin Scopes

VARIABLES
  scope,      \* the scope in the Reserved record of each operation, or None
  journal,    \* the records of each operation, by revision
  steps,      \* the number of steps admitted
  unresolved, \* the last admitted step has no completion
  recovery,   \* recovery_required
  closed      \* closed_at is set

journalVars == <<scope, journal, steps, unresolved, recovery, closed>>

JournalInit ==
  /\ scope = [o \in Operations |-> None]
  /\ journal = [o \in Operations |-> <<>>]
  /\ steps = [o \in Operations |-> 0]
  /\ unresolved = [o \in Operations |-> FALSE]
  /\ recovery = [o \in Operations |-> FALSE]
  /\ closed = [o \in Operations |-> FALSE]

-----------------------------------------------------------------------------
(***************************************************************************)
(* The fixed scope: its window and its plan.                               *)
(***************************************************************************)
InWindow(s, now) == s.notBefore <= now /\ now < s.expires

Phase(phase, target) == [phase |-> phase, target |-> target]

\* A target is prepared, seen to be prepared if it is to be present, applied
\* and read back.
TargetSteps(s, i) ==
  <<Phase("PrepareTarget", i)>>
    \o (IF s.present[i] THEN <<Phase("PreparedTarget", i)>> ELSE <<>>)
    \o <<Phase("ApplyTarget", i), Phase("ReadbackTarget", i)>>

Sequence(s) ==
  LET through[i \in 0..Targets] ==
        IF i = 0 THEN <<Phase("CreateStage", 0)>>
                 ELSE through[i - 1] \o TargetSteps(s, i)
  IN  through[Targets]
        \o <<Phase("FinalReadback", 0), Phase("CompletionDurable", 0)>>

\* Every plan is a finite sequence.  (Sequence is defined by recursion over the
\* targets, about which the proofs assume no more than this.)
ASSUME PlanAssumption == \A s \in Scopes : Len(Sequence(s)) \in Nat

-----------------------------------------------------------------------------
(***************************************************************************)
(* The operation as its records make it.                                   *)
(***************************************************************************)
Open(o) == scope[o] # None /\ ~closed[o]

LastRecordedAt(o) == journal[o][Len(journal[o])].at

\* next_step is refused outside the window, once recovery is required, after
\* closure and while an effect is unresolved.
MayProceed(o, now) ==
  /\ InWindow(scope[o], now)
  /\ ~recovery[o] /\ ~closed[o] /\ ~unresolved[o]

\* A record follows the chain: the operation is not closed and the clock did
\* not go back.
Chain(o, record) ==
  /\ record.at >= LastRecordedAt(o)
  /\ journal' = [journal EXCEPT ![o] = Append(@, record)]

-----------------------------------------------------------------------------
(***************************************************************************)
(* reserve_commissioning_operation.  A retry with the contract and key of  *)
(* an operation reads its reservation back or is refused; a new            *)
(* reservation needs its window and no open operation.                     *)
(***************************************************************************)
ReserveRestore(o, s, now) ==
  /\ scope[o] = None
  /\ \A p \in Operations : scope[p] # None =>
       <<scope[p].contract, scope[p].key>> # <<s.contract, s.key>>
  /\ InWindow(s, now)
  /\ \A p \in Operations : ~Open(p)
  /\ scope' = [scope EXCEPT ![o] = s]
  /\ journal' = [journal EXCEPT ![o] =
       <<[event |-> "reserved", actor |-> s.operator, at |-> now]>>]
  /\ UNCHANGED <<steps, unresolved, recovery, closed>>

(***************************************************************************)
(* admit_commissioning_step, at the current revision.  Only the operator   *)
(* of the scope, in the role of current operator, admits, and only the     *)
(* next step of the plan.  `verified' is the time at which the controller  *)
(* checked the window, `now' the time of the record.                       *)
(***************************************************************************)
\* Mutant: a step is admitted while the previous effect is unresolved.
AdmitUnresolved(o, actor, role, step, verified, now) ==
  /\ Open(o)
  /\ role = "CurrentOperator" /\ actor = scope[o].operator
  /\ InWindow(scope[o], verified) /\ InWindow(scope[o], now)
  /\ ~recovery[o]
  /\ steps[o] < Len(Sequence(scope[o]))
  /\ step = Sequence(scope[o])[steps[o] + 1]
  /\ Chain(o, [event |-> "admitted", actor |-> actor, at |-> now,
                 step |-> step])
  /\ steps' = [steps EXCEPT ![o] = @ + 1]
  /\ unresolved' = [unresolved EXCEPT ![o] = TRUE]
  /\ UNCHANGED <<scope, recovery, closed>>

AdmitStep(o, actor, role, step, verified, now) ==
  /\ Open(o)
  /\ role = "CurrentOperator" /\ actor = scope[o].operator
  /\ InWindow(scope[o], verified)
  /\ MayProceed(o, now)
  /\ steps[o] < Len(Sequence(scope[o]))
  /\ step = Sequence(scope[o])[steps[o] + 1]
  /\ Chain(o, [event |-> "admitted", actor |-> actor, at |-> now,
                 step |-> step])
  /\ steps' = [steps EXCEPT ![o] = @ + 1]
  /\ unresolved' = [unresolved EXCEPT ![o] = TRUE]
  /\ UNCHANGED <<scope, recovery, closed>>

(***************************************************************************)
(* complete_commissioning_step, at the current revision and for the        *)
(* unresolved step.  An outcome is recorded whenever it arrives, and by a  *)
(* recovery recorder as well; but it lets the plan go on only if the       *)
(* operator records a verified effect in the window.                       *)
(***************************************************************************)
AuthorizesProgress(o, actor, role, outcome, now) ==
  /\ role = "CurrentOperator" /\ actor = scope[o].operator
  /\ outcome = "Verified"
  /\ InWindow(scope[o], now)
  /\ ~recovery[o]

\* Mutant: an outcome that does not authorize progress may be recorded again.
CompleteAgain(o, actor, role, outcome, now) ==
  /\ Open(o) /\ unresolved[o]
  /\ role = "CurrentOperator" => actor = scope[o].operator
  /\ Chain(o, [event |-> "completed", actor |-> actor, at |-> now,
                 outcome |-> outcome, role |-> role,
                 authorizes |-> AuthorizesProgress(o, actor, role, outcome, now)])
  /\ unresolved' = [unresolved EXCEPT ![o] =
       ~AuthorizesProgress(o, actor, role, outcome, now)]
  /\ UNCHANGED <<scope, steps, recovery, closed>>

CompleteStep(o, actor, role, outcome, now) ==
  /\ Open(o) /\ unresolved[o]
  /\ role = "CurrentOperator" => actor = scope[o].operator
  /\ Chain(o, [event |-> "completed", actor |-> actor, at |-> now,
                 outcome |-> outcome, role |-> role,
                 authorizes |-> AuthorizesProgress(o, actor, role, outcome, now)])
  /\ unresolved' = [unresolved EXCEPT ![o] = FALSE]
  /\ recovery' = [recovery EXCEPT ![o] =
       @ \/ ~AuthorizesProgress(o, actor, role, outcome, now)]
  /\ UNCHANGED <<scope, steps, closed>>

(***************************************************************************)
(* close_commissioning_operation, at the current revision.  The terminal   *)
(* record and the header that releases the barrier are one transaction.    *)
(***************************************************************************)
\* Mutant: a restore is closed whatever is left of its plan.
CloseUnfinished(o, actor, role, now) ==
  /\ Open(o)
  /\ role = "CurrentOperator" /\ actor = scope[o].operator
  /\ MayProceed(o, now)
  /\ Chain(o, [event |-> "closed", actor |-> actor, at |-> now])
  /\ closed' = [closed EXCEPT ![o] = TRUE]
  /\ UNCHANGED <<scope, steps, unresolved, recovery>>

CloseOperation(o, actor, role, now) ==
  /\ Open(o)
  /\ role = "CurrentOperator" /\ actor = scope[o].operator
  /\ MayProceed(o, now)
  /\ steps[o] = Len(Sequence(scope[o]))
  /\ Chain(o, [event |-> "closed", actor |-> actor, at |-> now])
  /\ closed' = [closed EXCEPT ![o] = TRUE]
  /\ UNCHANGED <<scope, steps, unresolved, recovery>>

-----------------------------------------------------------------------------
Roles == {"CurrentOperator", "RecoveryRecorder"}
EffectOutcomes == {"Verified", "Failed", "Unknown"}
Phases == {"CreateStage", "PrepareTarget", "PreparedTarget", "ApplyTarget",
           "ReadbackTarget", "FinalReadback", "CompletionDurable"}
Steps == [phase : Phases, target : 0..Targets]

JournalNext ==
  \E o \in Operations, actor \in Actors, role \in Roles, now \in ClockTimes :
    \/ \E s \in Scopes : s.operator = actor /\ ReserveRestore(o, s, now)
    \/ \E step \in Steps, verified \in ClockTimes :
         AdmitStep(o, actor, role, step, verified, now)
    \/ \E outcome \in EffectOutcomes : CompleteStep(o, actor, role, outcome, now)
    \/ CloseOperation(o, actor, role, now)

JournalSpec == JournalInit /\ [][JournalNext]_journalVars

-----------------------------------------------------------------------------
(***************************************************************************)
(* Properties.                                                             *)
(***************************************************************************)
Records ==
  [event : {"reserved", "closed"}, actor : Actors, at : ClockTimes]
    \cup [event : {"admitted"}, actor : Actors, at : ClockTimes, step : Steps]
    \cup [event : {"completed"}, actor : Actors, at : ClockTimes,
          outcome : EffectOutcomes, role : Roles, authorizes : BOOLEAN]

\* The journal holds well-formed records, and the reduced operation never
\* counts more steps than its plan has (apply_record).
JournalTypeOK ==
  /\ scope \in [Operations -> Scopes \cup {None}]
  /\ journal \in [Operations -> Seq(Records)]
  /\ steps \in [Operations -> Nat]
  /\ unresolved \in [Operations -> BOOLEAN]
  /\ recovery \in [Operations -> BOOLEAN]
  /\ closed \in [Operations -> BOOLEAN]
  /\ \A o \in Operations :
       scope[o] # None => steps[o] <= Len(Sequence(scope[o]))

\* The operation was reserved and its journal has no terminal record.
HoldsBarrier(o) ==
  /\ journal[o] # <<>>
  /\ \A i \in 1..Len(journal[o]) : journal[o][i].event # "closed"

\* At most one restore is open at a time, whoever reserves and under which
\* contract key: the barrier has a single owner (storage `barrier').
OneOpenRestore ==
  \A o, p \in Operations : HoldsBarrier(o) /\ HoldsBarrier(p) => o = p

\* The records alternate: the k-th step of the plan is admitted at revision
\* 2k, its outcome received at revision 2k + 1, and the terminal record, if
\* there is one, follows the outcome of the last step.  So no step is
\* admitted twice, skipped, or begun before the outcome of the one before,
\* and a journal has at most 2 * Len(plan) + 2 records (112 for the 13
\* targets, within the 128 that load_revision reads back).
JournalFollowsPlan ==
  \A o \in Operations : scope[o] # None =>
    \A i \in 1..Len(journal[o]) :
      LET r == journal[o][i]
          plan == Sequence(scope[o])
      IN  /\ r.event = "reserved" <=> i = 1
          /\ r.event = "admitted" =>
               \E k \in 1..Len(plan) : i = 2 * k /\ r.step = plan[k]
          /\ r.event = "completed" => \E k \in 1..Len(plan) : i = 2 * k + 1
          /\ r.event = "closed" => i = 2 * Len(plan) + 2

\* What lets the plan go on: the operator of the scope saw the effect verified,
\* and recorded it in the window.
Verified(o, r) ==
  /\ r.actor = scope[o].operator /\ r.role = "CurrentOperator"
  /\ r.outcome = "Verified"
  /\ scope[o].notBefore <= r.at /\ r.at < scope[o].expires

\* The barrier is released only by a restore every step of which was verified
\* by its operator in its window; no late, failed or unknown outcome and no
\* recovery recorder's evidence is among the records of a closed operation.
ClosedIsVerified ==
  \A o \in Operations : journal[o] # <<>> /\ ~HoldsBarrier(o) =>
    /\ Len(journal[o]) = 2 * Len(Sequence(scope[o])) + 2
    /\ \A i \in 1..Len(journal[o]) :
         LET r == journal[o][i]
         IN  /\ r.event = "completed" => Verified(o, r)
             /\ r.actor = scope[o].operator
             /\ scope[o].notBefore <= r.at /\ r.at < scope[o].expires

\* Once an outcome is not verified in this sense nothing is appended to the
\* operation any more: no effect is admitted, no second outcome replaces it,
\* and the barrier stays (apply_record, next_step).
RecoveryIsFinal ==
  [][\A o \in Operations :
       (\E i \in 1..Len(journal[o]) :
          journal[o][i].event = "completed" /\ ~Verified(o, journal[o][i]))
       => journal'[o] = journal[o]]_journalVars

=============================================================================
