------------------------ MODULE RefAndAttemptProofs -------------------------
(***************************************************************************)
(* Proofs about the journal of Git ref changes (RefOperations) and about   *)
(* required status contexts (RequiredAttempts).  The two                   *)
(* specifications share nothing, and each part below is about one of them. *)
(***************************************************************************)
EXTENDS RefOperations, RequiredAttempts, TLAPS

-----------------------------------------------------------------------------
(***************************************************************************)
(* Proofs about RefOperations for any sets of operations, repositories,    *)
(* refs and intents: the journal's invariants, and that it implements      *)
(* RefOperationContract.                                                   *)
(***************************************************************************)

\* An observation in the broker's hands is still good evidence when it is
\* recorded: a marker that was seen is there, and an operation seen as not
\* applied, with nothing under way, was not dispatched since.
Trustworthy(o) ==
  seen[o] # None /\ seen[o].kind = "Observed" =>
    /\ seen[o].marker = "bound" => o \in marked
    /\ seen[o].marker = "absent" /\ ~seen[o].evidence /\ opState[o] = "prepared" =>
         o \notin marked /\ o \notin flight

BrokerInv ==
  /\ \A o \in marked \cup flight : o \in Rows
  /\ \A o \in Rows : Trustworthy(o)

IInv ==
  /\ TypeOK
  /\ BrokerInv
  /\ KeyNamesOneOperation
  /\ OneUnresolvedPerRepository
  /\ FateAgreesWithGit
  /\ EffectsExactlyOnce

-----------------------------------------------------------------------------

\* What a classification says of the observation: committed has seen the
\* marker, aborted has seen neither marker nor evidence.
LEMMA ClassifyCases ==
  ASSUME NEW i \in Intents, NEW obs \in Observation(i)
  PROVE  \/ /\ Classify(i, obs) = "committed"
            /\ obs.kind = "Observed" /\ obs.marker = "bound"
         \/ /\ Classify(i, obs) = "aborted_not_applied"
            /\ obs.kind = "Observed" /\ obs.marker = "absent" /\ ~obs.evidence
         \/ Classify(i, obs) = "reconciliation_required"
<1>1. CASE obs.kind = "Unavailable"
  BY <1>1 DEF Classify
<1>2. CASE obs.kind # "Unavailable"
  <2>1. obs.kind = "Observed" /\ obs.marker \in Markers /\ obs.evidence \in BOOLEAN
    BY <1>2 DEF Observation
  <2> QED
    BY <2>1 DEF Classify
<1> QED
  BY <1>1, <1>2

\* The empty journal satisfies the inductive invariant.
LEMMA InitInv == Init => IInv
<1> SUFFICES ASSUME Init PROVE IInv
  OBVIOUS
<1>1. TypeOK
  BY DEF Init, TypeOK, OpStates
<1>2. Rows = {}
  BY DEF Init, Rows
<1> QED
  BY <1>1, <1>2 DEF Init, IInv, BrokerInv, KeyNamesOneOperation,
       OneUnresolvedPerRepository, FateAgreesWithGit, EffectsExactlyOnce

\* prepare preserves the invariant: an operation is admitted only where the
\* repository has no unresolved one.
LEMMA PrepareInv ==
  ASSUME IInv, NEW o \in Ops, NEW i \in Intents, NEW admission, NEW barrier, NEW expired,
         Prepare(o, i, admission, barrier, expired)
  PROVE  IInv'
<1>0. /\ opState[o] = "none" /\ intent[o] = None /\ outcome[o] = None /\ seen[o] = None
      /\ i # None
  BY ZenonT(30), NoneAssumption DEF IInv, TypeOK, Prepare
<1>1. TypeOK'
  BY ZenonT(30), <1>0 DEF IInv, TypeOK, Prepare, gitVars, OpStates
<1>2. Rows' = Rows \cup {o} /\ o \notin Rows
  BY ZenonT(30), <1>0 DEF IInv, TypeOK, Prepare, Rows
<1>3. BrokerInv'
  BY ZenonT(30), <1>0, <1>2 DEF IInv, TypeOK, Prepare, gitVars, BrokerInv, Trustworthy, Rows
<1>4. KeyNamesOneOperation'
  BY ZenonT(30), <1>0, <1>2 DEF IInv, TypeOK, Prepare, KeyNamesOneOperation, ByKey, Rows
<1>5. OneUnresolvedPerRepository'
  BY ZenonT(30), <1>0, <1>2 DEF IInv, TypeOK, Prepare, OneUnresolvedPerRepository, UnresolvedIn, Rows
<1>6. FateAgreesWithGit'
  BY ZenonT(30), <1>0, <1>2 DEF IInv, TypeOK, Prepare, gitVars, FateAgreesWithGit, Rows
<1>7. EffectsExactlyOnce'
  BY ZenonT(30), <1>0 DEF IInv, TypeOK, Prepare, EffectsExactlyOnce
<1> QED
  BY ZenonT(30), <1>1, <1>3, <1>4, <1>5, <1>6, <1>7 DEF IInv

\* reconcile preserves the invariant: it records what the observation, which
\* may be old, still shows truly.
LEMMA ReconcileInv ==
  ASSUME IInv, NEW o \in Ops, NEW barrier, Reconcile(o, barrier)
  PROVE  IInv'
<1> DEFINE s == Classify(intent[o], seen[o])
<1>0. /\ opState[o] = "prepared" /\ intent[o] \in Intents /\ intent[o] # None
      /\ seen[o] \in Observation(intent[o]) /\ seen[o] # None /\ o \in Rows
  BY ZenonT(30), NoneAssumption DEF IInv, TypeOK, Reconcile, RecordOutcome, Rows
<1>1. \/ s = "committed" /\ o \in marked
      \/ s = "aborted_not_applied" /\ o \notin marked /\ o \notin flight
      \/ s = "reconciliation_required"
  BY ZenonT(30), <1>0, ClassifyCases DEF IInv, BrokerInv, Trustworthy
<1>2. /\ opState' = [opState EXCEPT ![o] = s]
      /\ outcome' = [outcome EXCEPT ![o] = seen[o]]
      /\ effects' = [effects EXCEPT ![o] = IF s = "committed" THEN @ + 1 ELSE @]
      /\ outbox' = [outbox EXCEPT ![o] = IF s = "committed" THEN "pending" ELSE @]
      /\ UNCHANGED <<intent, refs, marked, flight, seen>>
  BY DEF Reconcile, RecordOutcome, gitVars
<1>3. Rows' = Rows
  BY ZenonT(30), <1>0, <1>1, <1>2 DEF IInv, TypeOK, Rows
<1>4. TypeOK'
  <2>1. \A p \in Ops : p # o => /\ opState'[p] = opState[p] /\ outcome'[p] = outcome[p]
                                /\ outbox'[p] = outbox[p] /\ effects'[p] = effects[p]
    BY ZenonT(30), <1>2 DEF IInv, TypeOK
  <2>2. opState' \in [Ops -> OpStates]
    BY ZenonT(30), <1>1, <1>2 DEF IInv, TypeOK, OpStates
  <2>3. /\ outbox' \in [Ops -> Receipts \cup {"pending", None}]
        /\ effects' \in [Ops -> Nat]
        /\ outcome' \in [Ops -> Observations \cup {None}]
    BY <1>2 DEF IInv, TypeOK
  <2>4. opState'[o] = s /\ (opState[o] = "prepared" => outcome'[o] = seen[o])
    BY ZenonT(30), <1>2, <1>0 DEF IInv, TypeOK
  <2> HIDE DEF s
  <2>5. \A p \in Ops :
          /\ (intent[p] = None) = (opState'[p] = "none")
          /\ intent[p] = None => seen[p] = None
    BY <1>0, <1>1, <2>1, <2>4 DEF IInv, TypeOK
  <2> QED
    BY <1>0, <1>1, <1>2, <2>1, <2>2, <2>3, <2>4, <2>5 DEF IInv, TypeOK, s
<1> HIDE DEF s
<1>5. BrokerInv'
  BY ZenonT(30), <1>0, <1>1, <1>2, <1>3 DEF IInv, TypeOK, BrokerInv, Trustworthy, Rows
<1>6. KeyNamesOneOperation'
  BY ZenonT(30), <1>2, <1>3 DEF IInv, KeyNamesOneOperation
<1>7. OneUnresolvedPerRepository'
  BY ZenonT(30), <1>0, <1>2, <1>3 DEF IInv, TypeOK, OneUnresolvedPerRepository, Unresolved, Rows
<1>8. FateAgreesWithGit'
  BY ZenonT(30), <1>1, <1>2, <1>3 DEF IInv, TypeOK, FateAgreesWithGit, Rows
<1>9. EffectsExactlyOnce'
  BY <1>0, <1>1, <1>2, NoneAssumption DEF IInv, TypeOK, EffectsExactlyOnce
<1> QED
  BY ZenonT(30), <1>4, <1>5, <1>6, <1>7, <1>8, <1>9 DEF IInv

\* The journal's own invariants depend on the journal's variables only.
JournalInv ==
  /\ KeyNamesOneOperation
  /\ OneUnresolvedPerRepository
  /\ EffectsExactlyOnce

\* A step outside the journal keeps what is known of it.
LEMMA JournalKept ==
  ASSUME IInv, UNCHANGED <<intent, opState, effects, outbox>>
  PROVE  JournalInv' /\ Rows' = Rows
<1>1. Rows' = Rows
  BY DEF Rows
<1> QED
  BY ZenonT(30), <1>1 DEF IInv, JournalInv, KeyNamesOneOperation, OneUnresolvedPerRepository,
       EffectsExactlyOnce

\* The acknowledgement of an effect preserves the invariant.
LEMMA AcknowledgeInv ==
  ASSUME IInv, NEW o \in Ops, NEW receipt \in Receipts, NEW barrier,
         Acknowledge(o, receipt, barrier)
  PROVE  IInv'
<1>1. TypeOK'
  BY ZenonT(30) DEF IInv, TypeOK, Acknowledge, gitVars
<1>2. Rows' = Rows
  BY DEF Acknowledge, Rows
<1>3. /\ BrokerInv' /\ KeyNamesOneOperation' /\ OneUnresolvedPerRepository'
      /\ FateAgreesWithGit'
  BY ZenonT(30), <1>2 DEF Acknowledge, gitVars, IInv, BrokerInv, Trustworthy, KeyNamesOneOperation,
       OneUnresolvedPerRepository, FateAgreesWithGit
<1>4. EffectsExactlyOnce'
  BY ZenonT(30), NoneAssumption DEF Acknowledge, IInv, TypeOK, EffectsExactlyOnce
<1> QED
  BY <1>1, <1>3, <1>4 DEF IInv

\* The broker takes a fresh look: what it sees is what Git has now.
LEMMA ObserveInv ==
  ASSUME IInv, NEW o \in Ops, Observe(o)
  PROVE  IInv'
<1> DEFINE Found(m) == [kind |-> "Observed", refs |-> Current(intent[o]),
                        marker |-> m, evidence |-> o \in flight]
<1>1. PICK obs \in {Found(m) : m \in MarkerSeen(o)} \cup {[kind |-> "Unavailable"]} :
        seen' = [seen EXCEPT ![o] = obs]
  BY ZenonT(30) DEF Observe
<1>2. /\ o \in Rows /\ UNCHANGED <<intent, opState, outcome, outbox, effects, refs, marked, flight>>
      /\ intent[o] \in Intents /\ intent[o] # None
  BY ZenonT(30), NoneAssumption DEF Observe, journalVars, gitVars, IInv, TypeOK, Rows
<1>3. obs \in Observation(intent[o])
  <2>1. PICK rs \in SUBSET Refs :
          intent[o].changes \in [rs -> [expected : Values, result : Values]]
    BY ZenonT(30), <1>2, IntentsAssumption
  <2>2. intent[o].repo \in Written
    BY ZenonT(30), <1>2 DEF Written
  <2>3. Current(intent[o]) \in [DOMAIN intent[o].changes -> Values]
    BY <2>1, <2>2 DEF Current, IInv, TypeOK
  <2> DEFINE f == o \in flight
  <2>4. f \in BOOLEAN /\ MarkerSeen(o) \subseteq Markers
    BY DEF MarkerSeen, Markers
  <2>5. obs = [kind |-> "Unavailable"] \/ \E m \in MarkerSeen(o) :
          obs = [kind |-> "Observed", refs |-> Current(intent[o]), marker |-> m, evidence |-> f]
    BY <1>1
  <2> HIDE DEF f
  <2> QED
    BY <2>3, <2>4, <2>5 DEF Observation
<1>4. obs \in Observations
  BY ZenonT(30), <1>2, <1>3 DEF Observations
<1>5. TypeOK'
  BY ZenonT(30), <1>1, <1>2, <1>3, <1>4 DEF IInv, TypeOK
<1>6. JournalInv' /\ Rows' = Rows
  BY ZenonT(30), <1>2, JournalKept
<1>7. obs.kind = "Observed" =>
        /\ obs.marker = "bound" => o \in marked
        /\ obs.marker = "absent" => o \notin marked
        /\ obs.evidence = (o \in flight)
  BY <1>1 DEF MarkerSeen
<1>8. BrokerInv'
  <2> SUFFICES ASSUME NEW p \in Rows PROVE Trustworthy(p)'
    BY ZenonT(30), <1>2, <1>6 DEF IInv, BrokerInv
  <2>1. CASE p = o
    <3>1. seen'[p] = obs
      BY ZenonT(30), <1>1, <2>1 DEF IInv, TypeOK
    <3> QED
      BY ZenonT(30), <1>2, <1>7, <2>1, <3>1 DEF Trustworthy
  <2>2. CASE p # o
    <3>1. seen'[p] = seen[p]
      BY <1>1, <2>2 DEF IInv, TypeOK
    <3> QED
      BY ZenonT(30), <1>2, <3>1 DEF IInv, BrokerInv, Trustworthy
  <2> QED
    BY <2>1, <2>2
<1>9. FateAgreesWithGit'
  BY ZenonT(30), <1>2, <1>6 DEF IInv, FateAgreesWithGit
<1> QED
  BY ZenonT(30), <1>5, <1>6, <1>8, <1>9 DEF IInv, JournalInv

\* Git transactions start, land or die.
LEMMA GitInv ==
  ASSUME IInv, NEW o \in Ops, Dispatch(o) \/ Land(o) \/ Die(o)
  PROVE  IInv'
<1>1. UNCHANGED <<intent, opState, outcome, outbox, effects>>
  BY ZenonT(30) DEF Dispatch, Land, Die, journalVars
<1>2. JournalInv' /\ Rows' = Rows
  BY <1>1, JournalKept
<1>3. CASE Dispatch(o)
  <2>1. o \in Rows
    BY <1>3 DEF Dispatch, Rows
  <2> QED
    BY ZenonT(30), <1>1, <1>2, <1>3, <2>1 DEF Dispatch, IInv, JournalInv, TypeOK, BrokerInv, Trustworthy,
         FateAgreesWithGit
<1>4. CASE Land(o)
  <2>1. o \in Rows /\ intent[o] \in Intents
    BY ZenonT(30), <1>4 DEF Land, IInv, BrokerInv, TypeOK, Rows
  <2>2. PICK rs \in SUBSET Refs :
          intent[o].changes \in [rs -> [expected : Values, result : Values]]
    BY ZenonT(30), <2>1, IntentsAssumption
  <2>3. intent[o].repo \in Written
    BY <2>1 DEF Written
  <2> DEFINE i == intent[o]
             new == [r \in Refs |-> IF r \in DOMAIN i.changes
                                    THEN i.changes[r].result ELSE refs[i.repo][r]]
  <2>a. new \in [Refs -> Values]
    BY <2>2, <2>3 DEF IInv, TypeOK
  <2>b. refs' = refs \/ refs' = [refs EXCEPT ![i.repo] = new]
    BY ZenonT(30), <1>4 DEF Land
  <2>4. refs' \in [Written -> [Refs -> Values]]
    BY ZenonT(30), <2>a, <2>b, <2>3 DEF IInv, TypeOK
  <2> HIDE DEF i, new
  <2>5. /\ seen' = seen /\ flight' \subseteq flight /\ marked \subseteq marked'
        /\ marked' \subseteq marked \cup {o} /\ o \in flight
    BY ZenonT(30), <1>4 DEF Land
  <2>6. TypeOK'
    BY ZenonT(30), <1>1, <2>4, <2>5 DEF IInv, TypeOK
  <2>7. BrokerInv'
    BY ZenonT(30), <1>1, <1>2, <2>5 DEF IInv, BrokerInv, Trustworthy
  <2>8. FateAgreesWithGit'
    BY ZenonT(30), <1>1, <1>2, <2>5 DEF IInv, FateAgreesWithGit
  <2> QED
    BY ZenonT(30), <1>2, <2>6, <2>7, <2>8 DEF IInv, JournalInv
<1>5. CASE Die(o)
  BY ZenonT(30), <1>1, <1>2, <1>5 DEF Die, IInv, JournalInv, TypeOK, BrokerInv, Trustworthy,
       FateAgreesWithGit
<1> QED
  BY <1>3, <1>4, <1>5

\* Foreign writers push, processes restart.
LEMMA EnvironmentInv ==
  ASSUME IInv,
         Crash \/ \E r \in Written, ref \in Refs, v \in Values : ForeignWrite(r, ref, v)
  PROVE  IInv'
<1>1. UNCHANGED <<intent, opState, outcome, outbox, effects, marked, flight>>
  BY DEF Crash, ForeignWrite, journalVars, gitVars
<1>2. JournalInv' /\ Rows' = Rows
  BY <1>1, JournalKept
<1>3. FateAgreesWithGit'
  BY <1>1, <1>2 DEF IInv, FateAgreesWithGit
<1>4. CASE Crash
  <2>1. refs' = refs /\ seen' = [o \in Ops |-> None]
    BY <1>4 DEF Crash, gitVars
  <2>2. TypeOK'
    BY ZenonT(30), <1>1, <2>1 DEF IInv, TypeOK
  <2>3. BrokerInv'
    BY ZenonT(30), <1>1, <1>2, <2>1 DEF IInv, BrokerInv, Trustworthy, Rows
  <2> QED
    BY <1>2, <1>3, <2>2, <2>3 DEF IInv, JournalInv
<1>5. CASE \E r \in Written, ref \in Refs, v \in Values : ForeignWrite(r, ref, v)
  <2>1. refs' \in [Written -> [Refs -> Values]] /\ seen' = seen
    BY <1>5 DEF ForeignWrite, IInv, TypeOK
  <2>2. TypeOK'
    BY ZenonT(30), <1>1, <2>1 DEF IInv, TypeOK
  <2>3. BrokerInv'
    BY ZenonT(30), <1>1, <1>2, <2>1 DEF IInv, BrokerInv, Trustworthy
  <2> QED
    BY <1>2, <1>3, <2>2, <2>3 DEF IInv, JournalInv
<1> QED
  BY <1>4, <1>5

\* Every step of the journal, of Git and of a crash preserves the inductive
\* invariant.
LEMMA NextInv == IInv /\ [Next]_vars => IInv'
<1> SUFFICES ASSUME IInv, [Next]_vars PROVE IInv'
  OBVIOUS
<1>1. CASE \E o \in Ops, barrier \in BOOLEAN, i \in Intents,
              admission \in Admissions, expired \in BOOLEAN :
             Prepare(o, i, admission, barrier, expired)
  BY <1>1, PrepareInv
<1>2. CASE \E o \in Ops, barrier \in BOOLEAN : Reconcile(o, barrier)
  BY <1>2, ReconcileInv
<1>3. CASE \E o \in Ops, barrier \in BOOLEAN, receipt \in Receipts :
             Acknowledge(o, receipt, barrier)
  BY <1>3, AcknowledgeInv
<1>4. CASE \E o \in Ops : Dispatch(o) \/ Land(o) \/ Die(o)
  BY <1>4, GitInv
<1>5. CASE \E o \in Ops : Observe(o)
  BY <1>5, ObserveInv
<1>6. CASE Crash \/ \E r \in Written, ref \in Refs, v \in Values : ForeignWrite(r, ref, v)
  BY <1>6, EnvironmentInv
<1>7. CASE UNCHANGED vars
  <2>1. JournalInv' /\ Rows' = Rows
    BY <1>7, JournalKept DEF vars, journalVars
  <2>2. TypeOK' /\ BrokerInv' /\ FateAgreesWithGit'
    BY ZenonT(30), <1>7, <2>1 DEF vars, journalVars, gitVars, IInv, TypeOK, BrokerInv, Trustworthy,
         FateAgreesWithGit
  <2> QED
    BY <2>1, <2>2 DEF IInv, JournalInv
<1> QED
  BY ZenonT(30), <1>1, <1>2, <1>3, <1>4, <1>5, <1>6, <1>7 DEF Next

\* The strengthened invariant holds in every reachable state.
THEOREM Invariance == Spec => []IInv
<1> QED
  BY InitInv, NextInv, PTL DEF Spec

\* Rows are well formed: state, outcome and observation agree.
THEOREM TypeCorrect == Spec => []TypeOK
<1>1. IInv => TypeOK
  BY DEF IInv
<1> QED
  BY <1>1, Invariance, PTL

\* One row per idempotency key, one unresolved operation per repository.
THEOREM OneOperationAtATime == Spec => [](KeyNamesOneOperation /\ OneUnresolvedPerRepository)
<1>1. IInv => KeyNamesOneOperation /\ OneUnresolvedPerRepository
  BY DEF IInv
<1> QED
  BY <1>1, Invariance, PTL

\* The recorded fate of an operation is what Git did.
THEOREM FateIsTrue == Spec => []FateAgreesWithGit
<1>1. IInv => FateAgreesWithGit
  BY DEF IInv
<1> QED
  BY <1>1, Invariance, PTL

\* Catalog change and event exactly once for a committed operation.
THEOREM ExactlyOnce == Spec => []EffectsExactlyOnce
<1>1. IInv => EffectsExactlyOnce
  BY DEF IInv
<1> QED
  BY <1>1, Invariance, PTL

-----------------------------------------------------------------------------
(* The refinement. *)

\* The repository the refinement mapping gives to an operation.
RepoOf == [o \in Ops |-> IF intent[o] = None THEN CHOOSE r \in Repos : TRUE ELSE intent[o].repo]

PhaseOf == [o \in Ops |-> Phase(opState[o])]

Announced == {o \in Ops : outbox[o] # None}

\* The refinement mapping tells apart the states that the contract does.
LEMMA PhaseCases ==
  ASSUME NEW s \in OpStates
  PROVE  /\ (Phase(s) = "none") = (s = "none")
         /\ (Phase(s) = "open") = (s = "prepared")
         /\ (Phase(s) = "quarantined") = (s = "reconciliation_required")
         /\ (Phase(s) \in Contract!Unresolved) = (s \in Unresolved)
  BY DEF Phase, OpStates, Unresolved, Contract!Unresolved

\* The first state maps to the contract's first state.
LEMMA ContractInit == Init => Contract!Init
<1> SUFFICES ASSUME Init PROVE Contract!Init
  OBVIOUS
<1>1. PhaseOf = [o \in Ops |-> "none"]
  BY DEF Init, Phase, PhaseOf
<1>2. RepoOf \in [Ops -> Repos]
  BY ReposAssumption DEF Init, RepoOf
<1>3. Announced = {}
  BY DEF Init, Announced
<1> QED
  BY ZenonT(30), <1>1, <1>2, <1>3 DEF Init, Contract!Init, PhaseOf, RepoOf, Announced

\* A preparation is the contract's opening.
LEMMA PrepareOpens ==
  ASSUME IInv, NEW o \in Ops, NEW i \in Intents, NEW admission, NEW barrier, NEW expired,
         Prepare(o, i, admission, barrier, expired)
  PROVE  Contract!Open(o, i.repo)
<1> USE DEF IInv
<1>0. i.repo \in Repos /\ i # None /\ opState[o] = "none"
  BY ZenonT(30), IntentsAssumption, NoneAssumption DEF Prepare
<1>1. PhaseOf[o] = "none"
  BY <1>0 DEF PhaseOf, Phase
<1>2. \A p \in Ops : RepoOf[p] = i.repo => PhaseOf[p] \notin Contract!Unresolved
  <2> SUFFICES ASSUME NEW p \in Ops, RepoOf[p] = i.repo
               PROVE  opState[p] \notin Unresolved
    BY ZenonT(30), PhaseCases DEF PhaseOf, TypeOK
  <2>1. CASE intent[p] = None
    BY ZenonT(30), <2>1 DEF TypeOK, Unresolved
  <2>2. CASE intent[p] # None
    BY ZenonT(30), <2>2 DEF RepoOf, TypeOK, Prepare, UnresolvedIn, Rows
  <2> QED
    BY <2>1, <2>2
<1>3. PhaseOf' = [PhaseOf EXCEPT ![o] = "open"]
  <2>1. opState' = [opState EXCEPT ![o] = "prepared"]
    BY DEF Prepare
  <2>2. PhaseOf' = [p \in Ops |-> Phase(opState'[p])]
    BY DEF PhaseOf, Phase
  <2>3. Phase("prepared") = "open"
    BY DEF Phase
  <2> QED
    BY ZenonT(30), <2>1, <2>2, <2>3 DEF PhaseOf, TypeOK
<1>4. RepoOf' = [RepoOf EXCEPT ![o] = i.repo]
  BY <1>0 DEF Prepare, RepoOf, TypeOK
<1>5. UNCHANGED <<marked, effects, Announced>>
  BY DEF Prepare, gitVars, Announced
<1> QED
  BY ZenonT(30), <1>1, <1>2, <1>3, <1>4, <1>5 DEF Contract!Open, PhaseOf, RepoOf, Announced

\* A reconciliation is one of the contract's three decisions.
LEMMA ReconcileDecides ==
  ASSUME IInv, NEW o \in Ops, NEW barrier, Reconcile(o, barrier)
  PROVE  Contract!Commit(o) \/ Contract!Abort(o) \/ Contract!Quarantine(o)
<1> USE DEF IInv
<1> DEFINE s == Classify(intent[o], seen[o])
<1>0. /\ opState[o] = "prepared" /\ intent[o] \in Intents
      /\ seen[o] \in Observation(intent[o]) /\ seen[o] # None /\ o \in Rows
  BY ZenonT(30), NoneAssumption DEF TypeOK, Reconcile, RecordOutcome, Rows
<1>1. \/ s = "committed" /\ o \in marked
      \/ s = "aborted_not_applied" /\ o \notin marked
      \/ s = "reconciliation_required"
  BY ZenonT(30), <1>0, ClassifyCases DEF BrokerInv, Trustworthy
<1>2. /\ opState' = [opState EXCEPT ![o] = s]
      /\ effects' = [effects EXCEPT ![o] = IF s = "committed" THEN @ + 1 ELSE @]
      /\ outbox' = [outbox EXCEPT ![o] = IF s = "committed" THEN "pending" ELSE @]
      /\ UNCHANGED <<intent, marked>>
  BY ZenonT(30) DEF Reconcile, RecordOutcome, gitVars
<1> HIDE DEF s
<1>3. PhaseOf[o] = "open"
  BY <1>0 DEF PhaseOf, Phase
<1>4. PhaseOf' = [PhaseOf EXCEPT ![o] = Phase(s)]
  <2>1. PhaseOf' = [p \in Ops |-> Phase(opState'[p])]
    BY DEF PhaseOf, Phase
  <2> QED
    BY ZenonT(30), <1>2, <2>1 DEF PhaseOf, TypeOK
<1>5. RepoOf' = RepoOf
  BY <1>2 DEF RepoOf
<1>6. CASE s = "committed" /\ o \in marked
  <2>1. Announced' = Announced \cup {o}
    BY ZenonT(30), <1>2, <1>6, NoneAssumption DEF Announced, TypeOK
  <2>2. Phase(s) = "committed"
    BY <1>6 DEF Phase
  <2>3. effects' = [effects EXCEPT ![o] = @ + 1]
    BY ZenonT(30), <1>2, <1>6 DEF TypeOK
  <2> QED
    BY ZenonT(30), <1>2, <1>3, <1>4, <1>5, <1>6, <2>1, <2>2, <2>3
       DEF Contract!Commit, PhaseOf, RepoOf, Announced
<1>7. CASE s = "aborted_not_applied" /\ o \notin marked
  <2>1. Announced' = Announced /\ effects' = effects /\ Phase(s) = "aborted"
    BY ZenonT(30), <1>2, <1>7 DEF Announced, TypeOK, Phase
  <2> QED
    BY ZenonT(30), <1>2, <1>3, <1>4, <1>5, <1>7, <2>1
       DEF Contract!Abort, PhaseOf, RepoOf, Announced
<1>8. CASE s = "reconciliation_required"
  <2>1. Announced' = Announced /\ effects' = effects /\ Phase(s) = "quarantined"
    BY ZenonT(30), <1>2, <1>8 DEF Announced, TypeOK, Phase
  <2> QED
    BY ZenonT(30), <1>2, <1>3, <1>4, <1>5, <2>1
       DEF Contract!Quarantine, PhaseOf, RepoOf, Announced
<1> QED
  BY ZenonT(30), <1>1, <1>6, <1>7, <1>8

\* The landing of an operation in Git is its effect in the contract.
LEMMA LandPerforms ==
  ASSUME IInv, NEW o \in Ops, Land(o), marked' # marked
  PROVE  Contract!Perform(o)
<1> USE DEF IInv
<1>1. o \in flight /\ o \notin marked /\ marked' = marked \cup {o}
  BY ZenonT(30) DEF Land
<1>2. opState[o] \in Unresolved
  BY ZenonT(30), <1>1 DEF BrokerInv, FateAgreesWithGit, TypeOK, OpStates, Unresolved, Rows
<1>3. PhaseOf[o] \in Contract!Unresolved
  BY ZenonT(30), <1>2, PhaseCases DEF PhaseOf, TypeOK
<1>4. UNCHANGED <<PhaseOf, RepoOf, effects, Announced>>
  BY DEF Land, journalVars, PhaseOf, Phase, RepoOf, Announced
<1> QED
  BY ZenonT(30), <1>1, <1>3, <1>4 DEF Contract!Perform, PhaseOf, RepoOf, Announced

\* Everything else leaves the contract's view of the system alone.
LEMMA OthersStutter ==
  ASSUME IInv,
         UNCHANGED <<intent, opState, effects, marked>>,
         \A o \in Ops : (outbox[o] = None) = (outbox'[o] = None)
  PROVE  UNCHANGED Contract!vars
<1>1. UNCHANGED <<PhaseOf, RepoOf, Announced>>
  BY DEF PhaseOf, Phase, RepoOf, Announced
<1> QED
  BY <1>1 DEF Contract!vars, PhaseOf, RepoOf, Announced

\* Every step maps to a step of the contract or to none.
LEMMA ContractStep == IInv /\ [Next]_vars => [Contract!Next]_(Contract!vars)
<1> SUFFICES ASSUME IInv, [Next]_vars PROVE [Contract!Next]_(Contract!vars)
  OBVIOUS
<1>1. CASE \E o \in Ops, barrier \in BOOLEAN, i \in Intents,
              admission \in Admissions, expired \in BOOLEAN :
             Prepare(o, i, admission, barrier, expired)
  <2>1. \A i \in Intents : i.repo \in Repos
    BY IntentsAssumption
  <2> QED
    BY ZenonT(30), <1>1, <2>1, PrepareOpens DEF Contract!Next
<1>2. CASE \E o \in Ops, barrier \in BOOLEAN : Reconcile(o, barrier)
  BY <1>2, ReconcileDecides DEF Contract!Next
<1>3. CASE \E o \in Ops, barrier \in BOOLEAN, receipt \in Receipts :
             Acknowledge(o, receipt, barrier)
  <2>1. UNCHANGED <<intent, opState, effects, marked>>
    BY <1>3 DEF Acknowledge, gitVars
  <2>2. \A o \in Ops : (outbox[o] = None) = (outbox'[o] = None)
    BY <1>3, NoneAssumption DEF Acknowledge, IInv, TypeOK
  <2> QED
    BY ZenonT(30), <2>1, <2>2, OthersStutter
<1>4. CASE \E o \in Ops : Land(o)
  <2>1. CASE marked' = marked
    BY ZenonT(30), <1>4, <2>1, OthersStutter DEF Land, journalVars
  <2>2. CASE marked' # marked
    BY <1>4, <2>2, LandPerforms DEF Contract!Next
  <2> QED
    BY <2>1, <2>2
<1>5. CASE \E o \in Ops : Dispatch(o) \/ Die(o) \/ Observe(o)
  BY ZenonT(30), <1>5, OthersStutter DEF Dispatch, Die, Observe, journalVars, gitVars
<1>6. CASE Crash \/ \E r \in Written, ref \in Refs, v \in Values : ForeignWrite(r, ref, v)
  BY ZenonT(30), <1>6, OthersStutter DEF Crash, ForeignWrite, journalVars, gitVars
<1>7. CASE UNCHANGED vars
  BY ZenonT(30), <1>7, OthersStutter DEF vars, journalVars, gitVars
<1> QED
  BY ZenonT(30), <1>1, <1>2, <1>3, <1>4, <1>5, <1>6, <1>7 DEF Next

\* The journal implements its contract: a ref change, its catalog change and its
\* event happen together or not at all, one operation of a repository at a time.
THEOREM Refinement == Spec => ImplementsContract
<1> QED
  BY ContractInit, ContractStep, Invariance, PTL DEF Spec, ImplementsContract, Contract!Spec

\* Recorded outcomes and delivery receipts are never revised.
THEOREM RecordsNeverRevised == Spec => RecordsAreImmutable
<1> DEFINE P == \A o \in Ops :
                  /\ outcome[o] # None => outcome'[o] = outcome[o] /\ opState'[o] = opState[o]
                  /\ outbox[o] \in Receipts => outbox'[o] = outbox[o]
<1>1. ASSUME IInv, Next PROVE P
  <2>1. CASE \E o \in Ops, barrier \in BOOLEAN, i \in Intents,
                admission \in Admissions, expired \in BOOLEAN :
               Prepare(o, i, admission, barrier, expired)
    BY ZenonT(30), <1>1, <2>1 DEF Prepare, IInv, TypeOK
  <2>2. CASE \E o \in Ops, barrier \in BOOLEAN : Reconcile(o, barrier)
    <3>1. PICK o \in Ops, barrier \in BOOLEAN : Reconcile(o, barrier)
      BY <2>2
    <3>2. opState[o] = "prepared" /\ outcome[o] = None /\ outbox[o] \notin Receipts
      BY ZenonT(30), <1>1, <3>1, NoneAssumption DEF Reconcile, RecordOutcome, IInv, TypeOK, EffectsExactlyOnce
    <3>3. \A p \in Ops : p # o =>
            opState'[p] = opState[p] /\ outcome'[p] = outcome[p] /\ outbox'[p] = outbox[p]
      BY ZenonT(30), <1>1, <3>1 DEF Reconcile, RecordOutcome, IInv, TypeOK
    <3> QED
      BY <3>2, <3>3
  <2>3. CASE \E o \in Ops, barrier \in BOOLEAN, receipt \in Receipts :
               Acknowledge(o, receipt, barrier)
    <3>1. PICK o \in Ops, barrier \in BOOLEAN, receipt \in Receipts :
            Acknowledge(o, receipt, barrier)
      BY <2>3
    <3>2. CASE "pending" \notin Receipts
      BY ZenonT(30), <1>1, <3>1, <3>2 DEF Acknowledge, IInv, TypeOK
    <3> QED
      BY <3>2, ReceiptsAssumption
  <2>4. CASE UNCHANGED <<outcome, opState, outbox>>
    BY <2>4
  <2> QED
    BY ZenonT(30), <1>1, <2>1, <2>2, <2>3, <2>4 DEF Next, Dispatch, Land, Die, Observe, Crash, ForeignWrite,
         journalVars, gitVars
<1>2. ASSUME IInv, [Next]_vars PROVE [P]_vars
  BY <1>1, <1>2
<1> QED
  BY <1>2, Invariance, PTL DEF Spec, RecordsAreImmutable

-----------------------------------------------------------------------------
(***************************************************************************)
(* Proofs about RequiredAttempts for every set of publishers, actors,      *)
(* commits, contexts and keys, and every clock bound.                      *)
(*                                                                         *)
(* The two properties need that the newest key of a target names a stored  *)
(* attempt of that target, and that no attempt names a revision its        *)
(* publisher has not reached: a rotation then leaves every attempt behind. *)
(***************************************************************************)

Linked ==
    /\ \A t \in Targets : history[t] # <<>> =>
           /\ Last(history[t]) \in DOMAIN attempts
           /\ attempts[Last(history[t])].target = t
    /\ \A k \in DOMAIN attempts :
           attempts[k].revision <= Len(enrolled[attempts[k].publisher])

AttemptsInv == AttemptsTypeOK /\ Linked /\ RecordsStayReadable

-----------------------------------------------------------------------------
(* Sequences *)

\* The last element of a sequence after an Append, and its length.
LEMMA LastOfAppend ==
    ASSUME NEW S, NEW s \in Seq(S), NEW e \in S
    PROVE  /\ Append(s, e) \in Seq(S)
           /\ Append(s, e) # <<>>
           /\ Len(Append(s, e)) = Len(s) + 1
           /\ Last(Append(s, e)) = e
           /\ \A i \in 1..Len(s) : Append(s, e)[i] = s[i]
    BY DEF Last

\* The last element of a sequence that is not empty is one of its elements.
LEMMA LastIsElement ==
    ASSUME NEW S, NEW s \in Seq(S), s # <<>>
    PROVE  Len(s) \in 1..Len(s) /\ Last(s) \in S
    BY DEF Last

\* Replacing one element of a sequence leaves the others.
LEMMA Replaced ==
    ASSUME NEW S, NEW s \in Seq(S), NEW i \in 1..Len(s), NEW e \in S
    PROVE  /\ [s EXCEPT ![i] = e] \in Seq(S)
           /\ Len([s EXCEPT ![i] = e]) = Len(s)
           /\ \A j \in 1..Len(s) : [s EXCEPT ![i] = e][j] = IF j = i THEN e ELSE s[j]
    OBVIOUS

-----------------------------------------------------------------------------
(* Each action keeps the invariant *)

\* with_required_publisher_authority starts from empty tables.
LEMMA AttemptsInitInv == AttemptsInit => AttemptsInv
    BY ConstantsAssumption DEF AttemptsInit, AttemptsInv, AttemptsTypeOK, Linked, RecordsStayReadable, Instants

\* install_required_publisher appends a revision and leaves the attempts alone.
LEMMA InstallInv ==
    ASSUME AttemptsInv, NEW p \in Publishers, NEW known \in 0..MaxEnrollments, NEW a \in Actors,
           NEW scopes \in ScopeSets, NEW w \in Windows,
           Install(p, known, a, scopes, w[1], w[2])
    PROVE  AttemptsInv'
<1> DEFINE e == [actor |-> a, scopes |-> scopes, issued |-> w[1], expires |-> w[2],
                 installed |-> now, revoked |-> {}]
<1>1. w[1] \in Instants /\ w[2] \in Instants
  BY ConstantsAssumption
<1>2. e \in Enrollment /\ DatesInOrder(e)
  BY ZenonT(30), <1>1 DEF Install, Enrollment, AttemptsInv, AttemptsTypeOK, DatesInOrder
<1>3. /\ enrolled[p] \in Seq(Enrollment)
      /\ enrolled' = [enrolled EXCEPT ![p] = Append(enrolled[p], e)]
      /\ UNCHANGED <<now, tip, trusted, required, attempts, history>>
  BY ZenonT(30) DEF Install, AttemptsInv, AttemptsTypeOK
<1> HIDE DEF e
<1>4. /\ enrolled'[p] = Append(enrolled[p], e)
      /\ enrolled'[p] \in Seq(Enrollment)
      /\ Len(enrolled'[p]) = Len(enrolled[p]) + 1
      /\ enrolled'[p][Len(enrolled[p]) + 1] = e
      /\ \A i \in 1..Len(enrolled[p]) : enrolled'[p][i] = enrolled[p][i]
      /\ \A q \in Publishers \ {p} : enrolled'[q] = enrolled[q]
  BY <1>2, <1>3, LastOfAppend DEF AttemptsInv, AttemptsTypeOK, Last
<1>5. AttemptsTypeOK'
  BY ZenonT(30), <1>3, <1>4 DEF AttemptsInv, AttemptsTypeOK
<1>6. Linked'
  <2>1. \A q \in Publishers : Len(enrolled[q]) \in Nat /\ Len(enrolled[q]) <= Len(enrolled'[q])
    BY <1>3, <1>4 DEF AttemptsInv, AttemptsTypeOK
  <2>2. \A k \in DOMAIN attempts : attempts[k].publisher \in Publishers /\ attempts[k].revision \in Nat
    BY DEF AttemptsInv, AttemptsTypeOK, Attempt
  <2>3. \A k \in DOMAIN attempts : Len(enrolled'[attempts[k].publisher]) \in Nat
    BY <2>2, <1>5 DEF AttemptsTypeOK
  <2> QED
    BY <2>1, <2>2, <2>3, <1>3 DEF AttemptsInv, Linked, Last
<1>7. RecordsStayReadable'
  BY <1>2, <1>3, <1>4 DEF AttemptsInv, AttemptsTypeOK, RecordsStayReadable
<1> QED
  BY ZenonT(30), <1>5, <1>6, <1>7 DEF AttemptsInv

\* revoke_required_publisher changes the mark of the latest revision only.
LEMMA RevokeInv ==
    ASSUME AttemptsInv, NEW p \in Publishers, NEW known \in 0..MaxEnrollments, NEW at \in Instants,
           Revoke(p, known, at)
    PROVE  AttemptsInv'
<1>1. /\ enrolled[p] \in Seq(Enrollment)
      /\ known \in 1..Len(enrolled[p])
      /\ enrolled[p][known] \in Enrollment
      /\ DatesInOrder(enrolled[p][known])
  BY LastIsElement DEF Revoke, AttemptsInv, AttemptsTypeOK, RecordsStayReadable
<1> DEFINE e == [enrolled[p][known] EXCEPT !.revoked = {at}]
           s == [enrolled[p] EXCEPT ![known] = e]
<1>2. e \in Enrollment /\ DatesInOrder(e)
  <2>1. /\ e \in Enrollment
        /\ e.issued = enrolled[p][known].issued
        /\ e.installed = enrolled[p][known].installed
        /\ e.expires = enrolled[p][known].expires
        /\ e.revoked = {at}
    BY ZenonT(30), <1>1 DEF Enrollment
  <2>2. enrolled[p][known].installed <= at
    BY ZenonT(30) DEF Revoke, Latest, Last
  <2> HIDE DEF e
  <2> QED
    BY ZenonT(30), <1>1, <2>1, <2>2 DEF DatesInOrder
<1> HIDE DEF e
<1>3. /\ s \in Seq(Enrollment)
      /\ Len(s) = Len(enrolled[p])
      /\ \A i \in 1..Len(s) : s[i] = IF i = known THEN e ELSE enrolled[p][i]
  BY <1>1, <1>2, Replaced
<1>4. /\ enrolled' = [enrolled EXCEPT ![p] = s]
      /\ UNCHANGED <<now, tip, trusted, required, attempts, history>>
  BY ZenonT(30), <1>1 DEF Revoke, AttemptsInv, AttemptsTypeOK, e
<1> HIDE DEF s
<1>5. /\ enrolled'[p] = s
      /\ \A q \in Publishers \ {p} : enrolled'[q] = enrolled[q]
      /\ enrolled' \in [Publishers -> Seq(Enrollment)]
  BY ZenonT(30), <1>3, <1>4 DEF AttemptsInv, AttemptsTypeOK
<1>6. \A q \in Publishers : Len(enrolled'[q]) = Len(enrolled[q])
  BY <1>3, <1>5
<1>7. AttemptsTypeOK'
  BY ZenonT(30), <1>4, <1>5 DEF AttemptsInv, AttemptsTypeOK
<1>8. Linked'
  BY ZenonT(30), <1>4, <1>6 DEF AttemptsInv, Linked, AttemptsTypeOK, Attempt, Last
<1>9. RecordsStayReadable'
  BY <1>1, <1>2, <1>3, <1>4, <1>5, <1>6 DEF AttemptsInv, AttemptsTypeOK, RecordsStayReadable
<1> QED
  BY <1>7, <1>8, <1>9 DEF AttemptsInv

\* reserve_required_attempt stores a new attempt as the newest of its target.
LEMMA ReserveInv ==
    ASSUME AttemptsInv, NEW p \in Publishers, NEW k \in Keys, NEW t \in Targets,
           NEW expires \in Instants, NEW later \in Instants,
           Reserve(p, k, t, expires, later)
    PROVE  AttemptsInv'
<1> DEFINE a == [target |-> t, publisher |-> p, revision |-> Len(enrolled[p]),
                 expires |-> expires, reserved |-> later,
                 conclusion |-> "pending", completed |-> 0]
<1>1. enrolled[p] \in Seq(Enrollment) /\ Len(enrolled[p]) \in Nat \ {0}
  BY LastIsElement DEF Reserve, StoreReservation, AttemptsInv, AttemptsTypeOK
<1>2. /\ a \in Attempt
      /\ a.target = t /\ a.publisher = p /\ a.revision = Len(enrolled[p])
      /\ a.reserved < a.expires /\ a.conclusion = "pending"
  BY <1>1, ConstantsAssumption DEF Attempt, Reserve, StoreReservation, Instants
<1>3. /\ k \notin DOMAIN attempts
      /\ attempts' = [j \in DOMAIN attempts \cup {k} |-> IF j = k THEN a ELSE attempts[j]]
      /\ history' = [history EXCEPT ![t] = Append(history[t], k)]
      /\ now' = later
      /\ UNCHANGED <<tip, trusted, required, enrolled>>
  BY ZenonT(30) DEF Reserve, StoreReservation, AttemptsInv, AttemptsTypeOK
<1> HIDE DEF a
<1>4. /\ DOMAIN attempts' = DOMAIN attempts \cup {k}
      /\ attempts'[k] = a
      /\ \A j \in DOMAIN attempts : attempts'[j] = attempts[j]
  BY <1>3
<1>5. /\ history'[t] \in Seq(Keys) /\ Last(history'[t]) = k
      /\ \A u \in Targets \ {t} : history'[u] = history[u]
  BY <1>3, LastOfAppend DEF AttemptsInv, AttemptsTypeOK
<1>6. AttemptsTypeOK'
  <2>1. DOMAIN attempts' \subseteq Keys /\ attempts' \in [DOMAIN attempts' -> Attempt]
    BY ZenonT(30), <1>2, <1>3, <1>4 DEF AttemptsInv, AttemptsTypeOK
  <2>2. history' \in [Targets -> Seq(Keys)]
    BY ZenonT(30), <1>3, <1>5 DEF AttemptsInv, AttemptsTypeOK
  <2> QED
    BY ZenonT(30), <1>3, <2>1, <2>2 DEF AttemptsInv, AttemptsTypeOK
<1>7. Linked'
  <2>1. \A u \in Targets : history'[u] # <<>> =>
            Last(history'[u]) \in DOMAIN attempts' /\ attempts'[Last(history'[u])].target = u
    BY ZenonT(30), <1>2, <1>4, <1>5 DEF AttemptsInv, Linked
  <2>2. \A j \in DOMAIN attempts' :
            attempts'[j].revision <= Len(enrolled'[attempts'[j].publisher])
    BY <1>1, <1>2, <1>3, <1>4 DEF AttemptsInv, Linked
  <2> QED
    BY ZenonT(30), <2>1, <2>2 DEF Linked, Last
<1>8. RecordsStayReadable'
  BY ZenonT(30), <1>2, <1>3, <1>4 DEF AttemptsInv, RecordsStayReadable
<1> QED
  BY ZenonT(30), <1>6, <1>7, <1>8 DEF AttemptsInv

\* complete_required_attempt records a conclusion inside the attempt's window.
LEMMA CompleteInv ==
    ASSUME AttemptsInv, NEW k \in Keys, NEW conclusion \in Conclusions, NEW later \in Instants,
           Complete(k, conclusion, later)
    PROVE  AttemptsInv'
<1>1. /\ k \in DOMAIN attempts /\ attempts[k] \in Attempt
      /\ attempts[k].reserved <= later /\ later < attempts[k].expires
      /\ now' = later
      /\ UNCHANGED <<tip, trusted, required, enrolled, history>>
  BY ZenonT(30) DEF Complete, StoreCompletion, AttemptsInv, AttemptsTypeOK
<1> DEFINE a == [attempts[k] EXCEPT !.conclusion = conclusion, !.completed = later]
<1>2. /\ a \in Attempt
      /\ a.target = attempts[k].target /\ a.publisher = attempts[k].publisher
      /\ a.revision = attempts[k].revision /\ a.completed = later
      /\ a.reserved = attempts[k].reserved /\ a.expires = attempts[k].expires
  BY ZenonT(30), <1>1 DEF Attempt
<1>3. attempts' = [attempts EXCEPT ![k] = a]
  BY ZenonT(30), <1>1 DEF Complete, StoreCompletion, Attempt
<1> HIDE DEF a
<1>4. /\ DOMAIN attempts' = DOMAIN attempts
      /\ attempts'[k] = a
      /\ \A j \in DOMAIN attempts : j # k => attempts'[j] = attempts[j]
  BY <1>1, <1>3
<1>5. AttemptsTypeOK'
  BY ZenonT(30), <1>1, <1>2, <1>3, <1>4 DEF AttemptsInv, AttemptsTypeOK
<1>6. Linked'
  BY ZenonT(30), <1>1, <1>2, <1>4 DEF AttemptsInv, Linked, Last
<1>7. RecordsStayReadable'
  BY ZenonT(30), <1>1, <1>2, <1>4 DEF AttemptsInv, RecordsStayReadable
<1> QED
  BY <1>5, <1>6, <1>7 DEF AttemptsInv

\* The clock, the managed ref, an account and the policy leave the records alone.
LEMMA OutsideInv == AttemptsInv /\ (OutsideStep \/ UNCHANGED attemptVars) => AttemptsInv'
<1> SUFFICES ASSUME AttemptsInv, OutsideStep \/ UNCHANGED attemptVars PROVE AttemptsInv'
  OBVIOUS
<1>1. /\ UNCHANGED <<enrolled, attempts, history>>
      /\ now' \in Instants /\ tip' \in Commits
      /\ trusted' \subseteq Actors /\ required' \subseteq Contexts
  BY DEF OutsideStep, SetClock, MoveRef, Distrust, SetRequired, attemptVars, AttemptsInv, AttemptsTypeOK
<1> QED
  BY ZenonT(30), <1>1 DEF AttemptsInv, AttemptsTypeOK, Linked, RecordsStayReadable, Last

\* Every step preserves the inductive invariant of the attempts.
LEMMA AttemptsNextInv == AttemptsInv /\ [AttemptsNext]_attemptVars => AttemptsInv'
  BY ZenonT(30), InstallInv, RevokeInv, ReserveInv, CompleteInv, OutsideInv
     DEF AttemptsNext, PublisherStep, AttemptStep

\* Every record the code writes passes the checks of load_attempt and load.
THEOREM RecordsReadable == AttemptsSpec => []RecordsStayReadable
<1>1. AttemptsInv => RecordsStayReadable
  BY DEF AttemptsInv
<1> QED
  BY AttemptsInitInv, AttemptsNextInv, <1>1, PTL DEF AttemptsSpec

\* Every field of every table keeps its type.
THEOREM AttemptsTypeCorrect == AttemptsSpec => []AttemptsTypeOK
<1>1. AttemptsInv => AttemptsTypeOK
  BY DEF AttemptsInv
<1> QED
  BY AttemptsInitInv, AttemptsNextInv, <1>1, PTL DEF AttemptsSpec

-----------------------------------------------------------------------------
(* What makes a target satisfied, and what withdraws it *)

\* A step gives a target its satisfaction, or takes it, only with a cause.
Caused(t) ==
    /\ ~Satisfied(t) /\ Satisfied(t)' => EarnedNow(t) \/ RestoredNow(t)
    /\ Satisfied(t) /\ ~Satisfied(t)' => WithdrawnNow(t)

\* The newest attempt of a target, and what the invariant says of it.
LEMMA NewestAttempt ==
    ASSUME AttemptsInv, NEW t \in Targets, history[t] # <<>>
    PROVE  /\ Last(history[t]) \in DOMAIN attempts
           /\ attempts[Last(history[t])] \in Attempt
           /\ attempts[Last(history[t])].target = t
           /\ attempts[Last(history[t])].publisher \in Publishers
           /\ attempts[Last(history[t])].revision
                  <= Len(enrolled[attempts[Last(history[t])].publisher])
    BY ZenonT(30) DEF AttemptsInv, AttemptsTypeOK, Linked, Attempt

\* A step that touches neither the newest attempt of a target nor the enrollment
\* of its publisher changes the target only through the actor or the clock.
LEMMA OtherCaused ==
    ASSUME AttemptsInv, NEW t \in Targets, now' \in Instants, trusted' \subseteq trusted,
           history'[t] = history[t], history[t] # <<>>,
           attempts'[Last(history[t])] = attempts[Last(history[t])],
           enrolled'[attempts[Last(history[t])].publisher]
               = enrolled[attempts[Last(history[t])].publisher]
    PROVE  Caused(t)
<1> DEFINE n == attempts[Last(history[t])]
           e == Latest(n.publisher)
<1>1. /\ n \in Attempt /\ n.publisher \in Publishers
      /\ n.revision \in Nat \ {0} /\ n.revision <= Len(enrolled[n.publisher])
  BY ZenonT(30), NewestAttempt DEF Attempt
<1>2. enrolled[n.publisher] \in Seq(Enrollment) /\ enrolled[n.publisher] # <<>>
  BY <1>1 DEF AttemptsInv, AttemptsTypeOK
<1>3. e \in Enrollment /\ e.actor \in Actors
  <2>1. e \in Enrollment
    BY ZenonT(30), <1>2, LastIsElement DEF Latest
  <2> QED
    BY ZenonT(30), <2>1 DEF Enrollment
<1>4. TokenExpires[e.actor] \in Nat /\ now \in Nat /\ now' \in Nat
  BY <1>3, ConstantsAssumption DEF AttemptsInv, AttemptsTypeOK, Instants
<1>5. n = attempts'[Last(history'[t])] /\ e = Latest(n.publisher)'
  BY ZenonT(30) DEF Latest
<1>6. (StillEnrolled(n) <=> StillEnrolled(n)') /\ (FitsEnrollment(n) <=> FitsEnrollment(n)')
  BY ZenonT(30), <1>5 DEF StillEnrolled, FitsEnrollment
<1>7. /\ Satisfied(t) <=> /\ n.conclusion = "success"
                          /\ StillEnrolled(n) /\ FitsEnrollment(n) /\ Trusts(e.actor, now)
      /\ Satisfied(t)' <=> /\ n.conclusion = "success"
                           /\ StillEnrolled(n) /\ FitsEnrollment(n) /\ Trusts(e.actor, now)'
  BY ZenonT(30), <1>5, <1>6 DEF Satisfied
<1>8. ~Trusts(e.actor, now) /\ Trusts(e.actor, now)' => RestoredNow(t)
  <2>1. ASSUME ~Trusts(e.actor, now), Trusts(e.actor, now)'
        PROVE  now' < TokenExpires[e.actor] /\ TokenExpires[e.actor] <= now
    BY <1>4, <1>5, <2>1 DEF Trusts
  <2> QED
    BY ZenonT(30), <2>1 DEF RestoredNow
<1>9. ~Trusts(e.actor, now)' => WithdrawnNow(t)
  BY ZenonT(30), <1>5 DEF WithdrawnNow
<1> HIDE DEF n, e
<1> QED
  BY ZenonT(30), <1>7, <1>8, <1>9 DEF Caused

\* required_attempt_snapshot does not read the ref, and reads the clock only for
\* the publisher's token.
LEMMA OutsideCaused ==
    ASSUME AttemptsInv, OutsideStep \/ UNCHANGED attemptVars, NEW t \in Targets
    PROVE  Caused(t)
<1>1. /\ UNCHANGED <<enrolled, attempts, history>>
      /\ trusted' \subseteq trusted /\ now' \in Instants
  BY ZenonT(30) DEF OutsideStep, SetClock, MoveRef, Distrust, SetRequired, attemptVars, AttemptsInv, AttemptsTypeOK
<1>2. CASE history[t] = <<>>
  BY ZenonT(30), <1>1, <1>2 DEF Caused, Satisfied
<1>3. CASE history[t] # <<>>
  BY ZenonT(30), <1>1, <1>3, OtherCaused
<1> QED
  BY <1>2, <1>3

\* A new revision leaves every attempt of its publisher behind.
LEMMA InstallCaused ==
    ASSUME AttemptsInv, NEW p \in Publishers, NEW known \in 0..MaxEnrollments, NEW a \in Actors,
           NEW scopes \in ScopeSets, NEW w \in Windows,
           Install(p, known, a, scopes, w[1], w[2]), NEW t \in Targets
    PROVE  Caused(t)
<1> DEFINE e == [actor |-> a, scopes |-> scopes, issued |-> w[1], expires |-> w[2],
                 installed |-> now, revoked |-> {}]
<1>1. w[1] \in Instants /\ w[2] \in Instants
  BY ConstantsAssumption
<1>2. e \in Enrollment
  BY ZenonT(30), <1>1 DEF Enrollment, AttemptsInv, AttemptsTypeOK
<1>3. /\ enrolled[p] \in Seq(Enrollment)
      /\ enrolled' = [enrolled EXCEPT ![p] = Append(enrolled[p], e)]
      /\ UNCHANGED <<now, trusted, attempts, history>>
  BY ZenonT(30) DEF Install, AttemptsInv, AttemptsTypeOK
<1> HIDE DEF e
<1>4. /\ Len(enrolled[p]) \in Nat
      /\ Len(enrolled'[p]) = Len(enrolled[p]) + 1
      /\ \A q \in Publishers \ {p} : enrolled'[q] = enrolled[q]
  BY <1>2, <1>3, LastOfAppend DEF AttemptsInv, AttemptsTypeOK
<1>5. CASE history[t] = <<>>
  BY ZenonT(30), <1>3, <1>5 DEF Caused, Satisfied
<1>6. CASE history[t] # <<>>
  <2> DEFINE n == attempts[Last(history[t])]
  <2>1. /\ n.publisher \in Publishers /\ n.revision \in Nat
        /\ n.revision <= Len(enrolled[n.publisher])
        /\ n = attempts'[Last(history'[t])]
    BY ZenonT(30), <1>3, <1>6, NewestAttempt DEF Attempt
  <2>2. CASE n.publisher = p
    <3>1. ~Satisfied(t)'
      BY SMTT(20), <1>4, <2>1, <2>2 DEF Satisfied, StillEnrolled
    <3>2. WithdrawnNow(t)
      BY <1>4, <2>2 DEF WithdrawnNow
    <3> QED
      BY ZenonT(30), <3>1, <3>2 DEF Caused
  <2>3. CASE n.publisher # p
    BY ZenonT(30), <1>3, <1>4, <1>6, <2>1, <2>3, OtherCaused DEF AttemptsInv, AttemptsTypeOK
  <2> QED
    BY ZenonT(30), <2>2, <2>3
<1> QED
  BY ZenonT(30), <1>5, <1>6

\* A revoked enrollment satisfies nothing.
LEMMA RevokeCaused ==
    ASSUME AttemptsInv, NEW p \in Publishers, NEW known \in 0..MaxEnrollments, NEW at \in Instants,
           Revoke(p, known, at),
           NEW t \in Targets
    PROVE  Caused(t)
<1>1. /\ enrolled[p] \in Seq(Enrollment)
      /\ known = Len(enrolled[p]) /\ known \in 1..Len(enrolled[p])
      /\ enrolled[p][known] \in Enrollment
      /\ enrolled[p][known].revoked = {}
  BY ZenonT(30), LastIsElement DEF Revoke, AttemptsInv, AttemptsTypeOK, Latest, Last
<1> DEFINE e == [enrolled[p][known] EXCEPT !.revoked = {at}]
           s == [enrolled[p] EXCEPT ![known] = e]
<1>2. e \in Enrollment /\ e.revoked = {at}
  BY ZenonT(30), <1>1 DEF Enrollment
<1> HIDE DEF e
<1>3. Len(s) = Len(enrolled[p]) /\ s[known] = e
  BY <1>1, <1>2, Replaced
<1>4. /\ enrolled' = [enrolled EXCEPT ![p] = s]
      /\ UNCHANGED <<now, trusted, attempts, history>>
  BY ZenonT(30), <1>1 DEF Revoke, AttemptsInv, AttemptsTypeOK, e
<1> HIDE DEF s
<1>5. /\ Last(enrolled'[p]).revoked = {at}
      /\ enrolled'[p] # enrolled[p]
      /\ \A q \in Publishers \ {p} : enrolled'[q] = enrolled[q]
  BY ZenonT(30), <1>1, <1>2, <1>3, <1>4 DEF AttemptsInv, AttemptsTypeOK, Last
<1>6. CASE history[t] = <<>>
  BY ZenonT(30), <1>4, <1>6 DEF Caused, Satisfied
<1>7. CASE history[t] # <<>>
  <2> DEFINE n == attempts[Last(history[t])]
  <2>1. n.publisher \in Publishers /\ n = attempts'[Last(history'[t])]
    BY ZenonT(30), <1>4, <1>7, NewestAttempt
  <2>2. CASE n.publisher = p
    <3>1. ~Satisfied(t)'
      BY ZenonT(30), <1>5, <2>1, <2>2 DEF Satisfied, StillEnrolled, Latest
    <3>2. WithdrawnNow(t)
      BY ZenonT(30), <1>5, <2>2 DEF WithdrawnNow
    <3> QED
      BY <3>1, <3>2 DEF Caused
  <2>3. CASE n.publisher # p
    BY ZenonT(30), <1>4, <1>5, <1>7, <2>1, <2>3, OtherCaused DEF AttemptsInv, AttemptsTypeOK
  <2> QED
    BY ZenonT(30), <2>2, <2>3
<1> QED
  BY <1>6, <1>7

\* A new reservation is pending, and the newest of its own target only.
LEMMA ReserveCaused ==
    ASSUME AttemptsInv, NEW p \in Publishers, NEW k \in Keys, NEW u \in Targets,
           NEW expires \in Instants, NEW later \in Instants,
           Reserve(p, k, u, expires, later), NEW t \in Targets
    PROVE  Caused(t)
<1>1. /\ k \notin DOMAIN attempts
      /\ attempts'[k].conclusion = "pending"
      /\ \A j \in DOMAIN attempts : attempts'[j] = attempts[j]
      /\ history' = [history EXCEPT ![u] = Append(history[u], k)]
      /\ now' = later
      /\ UNCHANGED <<trusted, enrolled>>
  BY ZenonT(30) DEF Reserve, StoreReservation, AttemptsInv, AttemptsTypeOK
<1>2. CASE t = u
  <2>1. /\ Last(history'[t]) = k
        /\ Len(history'[t]) = Len(history[t]) + 1 /\ Len(history[t]) \in Nat
    BY <1>1, <1>2, LastOfAppend DEF AttemptsInv, AttemptsTypeOK
  <2>2. ~Satisfied(t)'
    BY ZenonT(30), <1>1, <2>1 DEF Satisfied
  <2>3. WithdrawnNow(t)
    BY <2>1 DEF WithdrawnNow
  <2> QED
    BY <2>2, <2>3 DEF Caused
<1>3. CASE t # u
  <2>1. history'[t] = history[t]
    BY ZenonT(30), <1>1, <1>3 DEF AttemptsInv, AttemptsTypeOK
  <2>2. history[t] # <<>> => attempts'[Last(history[t])] = attempts[Last(history[t])]
    BY ZenonT(30), <1>1, NewestAttempt
  <2>3. CASE history[t] = <<>>
    BY ZenonT(30), <2>1, <2>3 DEF Caused, Satisfied
  <2>4. CASE history[t] # <<>>
    BY ZenonT(30), <1>1, <2>1, <2>2, <2>4, OtherCaused
  <2> QED
    BY <2>3, <2>4
<1> QED
  BY <1>2, <1>3

\* Only the completion of the newest attempt counts, and it is on time.
LEMMA CompleteCaused ==
    ASSUME AttemptsInv, NEW k \in Keys, NEW conclusion \in Conclusions, NEW later \in Instants,
           Complete(k, conclusion, later), NEW t \in Targets
    PROVE  Caused(t)
<1>1. /\ k \in DOMAIN attempts /\ attempts[k] \in Attempt
      /\ attempts[k].conclusion = "pending"
      /\ tip = attempts[k].target[1]
      /\ attempts[k].expires <= Latest(attempts[k].publisher).expires
      /\ later < attempts[k].expires
      /\ now' = later
      /\ UNCHANGED <<trusted, enrolled, history>>
  BY ZenonT(30) DEF Complete, StoreCompletion, FitsEnrollment, AttemptsInv, AttemptsTypeOK
<1>2. /\ attempts'[k].conclusion = conclusion
      /\ attempts'[k].completed = later
      /\ \A j \in DOMAIN attempts : j # k => attempts'[j] = attempts[j]
  BY ZenonT(30), <1>1 DEF Complete, StoreCompletion, Attempt
<1>3. CASE history[t] = <<>>
  BY ZenonT(30), <1>1, <1>3 DEF Caused, Satisfied
<1>4. CASE history[t] # <<>> /\ Last(history[t]) = k
  <2>1. ~Satisfied(t)
    BY ZenonT(30), <1>1, <1>4 DEF Satisfied
  <2>2. Satisfied(t)' => EarnedNow(t)
    BY ZenonT(30), <1>1, <1>2, <1>4, NewestAttempt DEF Satisfied, EarnedNow
  <2> QED
    BY <2>1, <2>2 DEF Caused
<1>5. CASE history[t] # <<>> /\ Last(history[t]) # k
  <2>1. attempts'[Last(history[t])] = attempts[Last(history[t])]
    BY ZenonT(30), <1>2, <1>5, NewestAttempt
  <2> QED
    BY ZenonT(30), <1>1, <1>5, <2>1, OtherCaused
<1> QED
  BY ZenonT(30), <1>3, <1>4, <1>5

\* Every step that makes a target satisfied is one of the causes.
LEMMA NextCaused ==
    ASSUME AttemptsInv, [AttemptsNext]_attemptVars, NEW t \in Targets
    PROVE  Caused(t)
  BY ZenonT(30), InstallCaused, RevokeCaused, ReserveCaused, CompleteCaused, OutsideCaused
     DEF AttemptsNext, PublisherStep, AttemptStep

\* A snapshot changes its answer on a commit only by the policy, by the timely
\* success of a newest attempt or a clock set back, or by a newer attempt or the
\* end of an enrollment or of its actor.
THEOREM SatisfactionCaused == AttemptsSpec => SatisfactionHasCause
<1> DEFINE Step ==
       \A c \in Commits :
          /\ ~SnapshotSatisfied(c) /\ SnapshotSatisfied(c)' =>
                 \/ required' # required
                 \/ \E x \in required : EarnedNow(<<c, x>>) \/ RestoredNow(<<c, x>>)
          /\ SnapshotSatisfied(c) /\ ~SnapshotSatisfied(c)' =>
                 \/ required' # required
                 \/ \E x \in required : WithdrawnNow(<<c, x>>)
<1>1. AttemptsInv /\ [AttemptsNext]_attemptVars => Step
  <2> SUFFICES ASSUME AttemptsInv, [AttemptsNext]_attemptVars, NEW c \in Commits, required' = required
               PROVE  /\ ~SnapshotSatisfied(c) /\ SnapshotSatisfied(c)' =>
                             \E x \in required : EarnedNow(<<c, x>>) \/ RestoredNow(<<c, x>>)
                      /\ SnapshotSatisfied(c) /\ ~SnapshotSatisfied(c)' =>
                             \E x \in required : WithdrawnNow(<<c, x>>)
    OBVIOUS
  <2>1. \A x \in required : <<c, x>> \in Targets
    BY DEF AttemptsInv, AttemptsTypeOK, Targets
  <2>2. \A x \in required : Caused(<<c, x>>)
    BY <2>1, NextCaused
  <2>3. ASSUME ~SnapshotSatisfied(c), SnapshotSatisfied(c)'
        PROVE  \E x \in required : EarnedNow(<<c, x>>) \/ RestoredNow(<<c, x>>)
    <3>1. PICK x \in required : ~Satisfied(<<c, x>>) /\ Satisfied(<<c, x>>)'
      BY <2>3 DEF SnapshotSatisfied
    <3> QED
      BY ZenonT(30), <3>1, <2>2 DEF Caused
  <2>4. ASSUME SnapshotSatisfied(c), ~SnapshotSatisfied(c)'
        PROVE  \E x \in required : WithdrawnNow(<<c, x>>)
    <3>1. PICK x \in required : Satisfied(<<c, x>>) /\ ~Satisfied(<<c, x>>)'
      BY <2>4 DEF SnapshotSatisfied
    <3> QED
      BY ZenonT(30), <3>1, <2>2 DEF Caused
  <2> QED
    BY ZenonT(30), <2>3, <2>4
<1>2. AttemptsInv /\ [AttemptsNext]_attemptVars => [Step]_attemptVars
  BY <1>1
<1>3. AttemptsSpec => [][Step]_attemptVars
  BY AttemptsInitInv, AttemptsNextInv, <1>2, PTL DEF AttemptsSpec
<1> QED
  BY <1>3 DEF SatisfactionHasCause
=============================================================================
