-------------------- MODULE CommissioningAndLeaseProofs ---------------------
(***************************************************************************)
(* Proofs about the commissioning journal (Commissioning) and about the    *)
(* lease ledger of a pipeline run (LeaseBook).  The two                    *)
(* specifications share nothing, and each part below is about one of them. *)
(***************************************************************************)
EXTENDS Commissioning, LeaseBook, TLAPS

-----------------------------------------------------------------------------
(***************************************************************************)
(* Proofs about the commissioning journal, for all scopes, actors, clocks  *)
(* and numbers of targets.                                                 *)
(*                                                                         *)
(* The inductive invariant says of each operation how its records and the  *)
(* operation reduced from them correspond: how many records there are for  *)
(* the steps, the unresolved effect and the closure (Counted), which       *)
(* record stands where (Placed), and that all of them are clean as long as *)
(* no recovery is required (Clean); and that at most one operation is      *)
(* open.                                                                   *)
(***************************************************************************)

Fresh(o) ==
  /\ journal[o] = <<>>
  /\ steps[o] = 0
  /\ ~unresolved[o] /\ ~recovery[o] /\ ~closed[o]

Counted(o) ==
  /\ Len(journal[o]) = 2 * steps[o] + (IF closed[o] THEN 2
                                       ELSE IF unresolved[o] THEN 0 ELSE 1)
  /\ steps[o] <= Len(Sequence(scope[o]))
  /\ unresolved[o] => steps[o] >= 1 /\ ~recovery[o] /\ ~closed[o]
  /\ closed[o] => steps[o] = Len(Sequence(scope[o])) /\ ~recovery[o]

PlacedAt(o, i, r) ==
  /\ r.event = "reserved" <=> i = 1
  /\ r.event = "admitted" =>
       \E k \in 1..Len(Sequence(scope[o])) :
         i = 2 * k /\ r.step = Sequence(scope[o])[k]
  /\ r.event = "completed" =>
       \E k \in 1..Len(Sequence(scope[o])) : i = 2 * k + 1
  /\ r.event = "closed" => i = 2 * Len(Sequence(scope[o])) + 2

Placed(o) ==
  \A i \in 1..Len(journal[o]) :
    /\ PlacedAt(o, i, journal[o][i])
    /\ journal[o][i].event = "closed" <=> closed[o] /\ i = Len(journal[o])

CleanRecord(o, r) ==
  /\ r.event = "completed" => Verified(o, r)
  /\ r.actor = scope[o].operator
  /\ scope[o].notBefore <= r.at /\ r.at < scope[o].expires

Clean(o) ==
  ~recovery[o] => \A i \in 1..Len(journal[o]) : CleanRecord(o, journal[o][i])

OperationInv(o) ==
  /\ scope[o] = None => Fresh(o)
  /\ scope[o] # None => Counted(o) /\ Placed(o) /\ Clean(o)

OneOpen == \A o, p \in Operations : Open(o) /\ Open(p) => o = p

\* The inductive invariant.
JournalInv ==
  /\ JournalTypeOK
  /\ \A o \in Operations : OperationInv(o)
  /\ OneOpen

-----------------------------------------------------------------------------
\* What appending a record does to a sequence of records.
LEMMA Appended ==
  ASSUME NEW s \in Seq(Records), NEW r \in Records
  PROVE  /\ Append(s, r) \in Seq(Records)
         /\ Len(s) \in Nat
         /\ Len(Append(s, r)) = Len(s) + 1
         /\ \A i \in 1..Len(s) : Append(s, r)[i] = s[i]
         /\ Append(s, r)[Len(s) + 1] = r
OBVIOUS

\* The invariant of an operation is about this operation's variables only.
LEMMA Untouched ==
  ASSUME NEW o,
         scope'[o] = scope[o], journal'[o] = journal[o], steps'[o] = steps[o],
         unresolved'[o] = unresolved[o], recovery'[o] = recovery[o],
         closed'[o] = closed[o],
         OperationInv(o)
  PROVE  OperationInv(o)'
BY DEF OperationInv, Fresh, Counted, Placed, PlacedAt, Clean, CleanRecord,
       Verified

\* The initial state.
LEMMA JournalInitInv == JournalInit => JournalInv
<1> SUFFICES ASSUME JournalInit PROVE JournalInv
  OBVIOUS
<1>1. JournalTypeOK
  BY DEF JournalInit, JournalTypeOK
<1>2. \A o \in Operations : OperationInv(o)
  BY ZenonT(30), NoneAssumption DEF JournalInit, OperationInv, Fresh
<1>3. OneOpen
  BY DEF JournalInit, OneOpen, Open
<1> QED
  BY <1>1, <1>2, <1>3 DEF JournalInv

\* A reservation begins a journal.
LEMMA ReserveRestoreInv ==
  ASSUME JournalInv, NEW o \in Operations, NEW s \in Scopes, NEW now \in ClockTimes,
         ReserveRestore(o, s, now)
  PROVE  JournalInv'
<1> DEFINE r == [event |-> "reserved", actor |-> s.operator, at |-> now]
<1>1. /\ s.operator \in Actors /\ s # None
      /\ s.notBefore \in Int /\ s.expires \in Int /\ now \in Int
  BY ZenonT(30), ScopesAssumption, NoneAssumption, ClockAssumption DEF Scope
<1>2. r \in Records
  BY <1>1 DEF Records
<1>3. Fresh(o)
  BY DEF JournalInv, OperationInv, ReserveRestore
<1>4. /\ scope'[o] = s /\ journal'[o] = <<r>> /\ steps'[o] = 0
      /\ ~unresolved'[o] /\ ~recovery'[o] /\ ~closed'[o]
  BY ZenonT(30), <1>3 DEF ReserveRestore, JournalInv, JournalTypeOK, Fresh
<1>5. Len(Sequence(s)) \in Nat
  BY PlanAssumption
<1>6. JournalTypeOK'
  <2>1. journal' \in [Operations -> Seq(Records)]
    BY <1>2 DEF ReserveRestore, JournalInv, JournalTypeOK
  <2>2. scope' \in [Operations -> Scopes \cup {None}]
    BY ZenonT(30) DEF ReserveRestore, JournalInv, JournalTypeOK
  <2>3. \A p \in Operations :
          scope'[p] # None => steps'[p] <= Len(Sequence(scope'[p]))
    BY <1>4, <1>5 DEF ReserveRestore, JournalInv, JournalTypeOK
  <2> QED
    BY ZenonT(30), <2>1, <2>2, <2>3 DEF ReserveRestore, JournalInv, JournalTypeOK
<1>7. ASSUME NEW p \in Operations PROVE OperationInv(p)'
  <2>1. CASE p # o
    BY ZenonT(30), <2>1, Untouched DEF ReserveRestore, JournalInv, JournalTypeOK
  <2>2. CASE p = o
    <3>1. Counted(o)'
      BY <1>4, <1>5 DEF Counted
    <3>2. Placed(o)'
      BY <1>4, <1>5 DEF Placed, PlacedAt
    <3>3. Clean(o)'
      BY <1>4 DEF Clean, CleanRecord, ReserveRestore, InWindow
    <3> QED
      BY ZenonT(30), <2>2, <3>1, <3>2, <3>3, <1>4, <1>1 DEF OperationInv
  <2> QED
    BY <2>1, <2>2
<1>8. OneOpen'
  BY ZenonT(30) DEF ReserveRestore, OneOpen, Open, JournalInv, JournalTypeOK
<1> QED
  BY <1>6, <1>7, <1>8 DEF JournalInv

\* What a record of the chain does to the journal.
LEMMA Chained ==
  ASSUME JournalTypeOK, NEW o \in Operations, NEW r \in Records, Chain(o, r)
  PROVE  /\ journal' \in [Operations -> Seq(Records)]
         /\ Len(journal[o]) \in Nat
         /\ Len(journal'[o]) = Len(journal[o]) + 1
         /\ \A i \in 1..Len(journal[o]) : journal'[o][i] = journal[o][i]
         /\ journal'[o][Len(journal[o]) + 1] = r
         /\ \A p \in Operations : p # o => journal'[p] = journal[p]
<1>1. journal[o] \in Seq(Records)
  BY DEF JournalTypeOK
<1>2. journal'[o] = Append(journal[o], r)
  BY DEF Chain, JournalTypeOK
<1> QED
  BY ZenonT(30), <1>1, <1>2, Appended DEF Chain, JournalTypeOK

\* The scope of an open operation.
LEMMA OpenScope ==
  ASSUME JournalInv, NEW o \in Operations, Open(o)
  PROVE  /\ scope[o] \in Scopes /\ scope[o] # None
         /\ scope[o].operator \in Actors
         /\ scope[o].notBefore \in Int /\ scope[o].expires \in Int
         /\ Len(Sequence(scope[o])) \in Nat
         /\ Counted(o) /\ Placed(o) /\ Clean(o)
         /\ steps[o] \in Nat /\ ~closed[o]
<1>1. scope[o] \in Scopes /\ scope[o] # None
  BY DEF Open, JournalInv, JournalTypeOK
<1> QED
  BY ZenonT(30), <1>1, ScopesAssumption, ClockAssumption, PlanAssumption
  DEF Scope, Open, JournalInv, JournalTypeOK, OperationInv

\* The next step of the plan is admitted.
LEMMA AdmitStepInv ==
  ASSUME JournalInv, NEW o \in Operations, NEW actor \in Actors, NEW role \in Roles,
         NEW step \in Steps, NEW verified \in ClockTimes, NEW now \in ClockTimes,
         AdmitStep(o, actor, role, step, verified, now)
  PROVE  JournalInv'
<1> DEFINE r == [event |-> "admitted", actor |-> actor, at |-> now, step |-> step]
           len == Len(journal[o])
<1>1. r \in Records
  BY DEF Records
<1>2. JournalTypeOK /\ Open(o) /\ Chain(o, r) /\ now \in Int
  BY ZenonT(30), ClockAssumption DEF AdmitStep, JournalInv
<1> HIDE DEF r
<1>3. /\ journal' \in [Operations -> Seq(Records)]
      /\ len \in Nat
      /\ Len(journal'[o]) = len + 1
      /\ \A i \in 1..len : journal'[o][i] = journal[o][i]
      /\ journal'[o][len + 1] = r
      /\ \A p \in Operations : p # o => journal'[p] = journal[p]
  BY ZenonT(30), <1>1, <1>2, Chained
<1>4. /\ scope[o] \in Scopes /\ scope[o] # None
      /\ scope[o].notBefore \in Int /\ scope[o].expires \in Int
      /\ Len(Sequence(scope[o])) \in Nat
      /\ Counted(o) /\ Placed(o) /\ Clean(o)
      /\ steps[o] \in Nat /\ ~closed[o]
  BY ZenonT(30), <1>2, OpenScope
<1>5. /\ scope' = scope /\ closed' = closed /\ recovery' = recovery
      /\ ~recovery[o] /\ ~unresolved[o]
      /\ steps'[o] = steps[o] + 1 /\ unresolved'[o]
      /\ steps[o] < Len(Sequence(scope[o]))
  BY ZenonT(30) DEF AdmitStep, MayProceed, JournalInv, JournalTypeOK
<1>6. len = 2 * steps[o] + 1
  BY ZenonT(30), <1>4, <1>5 DEF Counted
<1>7. JournalTypeOK'
  <2>1. steps' \in [Operations -> Nat]
    BY DEF AdmitStep, JournalInv, JournalTypeOK
  <2>2. \A p \in Operations :
          scope'[p] # None => steps'[p] <= Len(Sequence(scope'[p]))
    BY <1>4, <1>5 DEF AdmitStep, JournalInv, JournalTypeOK
  <2>3. unresolved' \in [Operations -> BOOLEAN]
    BY ZenonT(30) DEF AdmitStep, JournalInv, JournalTypeOK
  <2> QED
    BY ZenonT(30), <1>3, <1>5, <2>1, <2>2, <2>3 DEF JournalInv, JournalTypeOK
<1>8. ASSUME NEW p \in Operations PROVE OperationInv(p)'
  <2>1. CASE p # o
    <3>1. steps'[p] = steps[p] /\ unresolved'[p] = unresolved[p]
      BY ZenonT(30), <2>1 DEF AdmitStep, JournalInv, JournalTypeOK
    <3> QED
      BY ZenonT(30), <2>1, <3>1, <1>3, <1>5, Untouched DEF JournalInv
  <2>2. CASE p = o
    <3>1. Counted(o)'
      <4>1. Len(journal'[o]) = 2 * steps'[o] /\ steps'[o] >= 1
        <5>1. steps[o] \in Nat /\ steps'[o] = steps[o] + 1
          BY ZenonT(30), <1>4, <1>5
        <5>2. Len(journal'[o]) = 2 * steps[o] + 1 + 1
          BY ZenonT(30), <1>3, <1>6
        <5> QED
          BY <5>1, <5>2
      <4>2. ~closed'[o] /\ ~recovery'[o] /\ unresolved'[o]
        BY ZenonT(30), <1>4, <1>5
      <4>3. steps'[o] <= Len(Sequence(scope'[o]))
        BY <1>4, <1>5
      <4>4. (IF closed'[o] THEN 2 ELSE IF unresolved'[o] THEN 0 ELSE 1) = 0
        BY <4>2
      <4>5. 2 * steps'[o] + 0 = 2 * steps'[o]
        BY <1>4, <1>5
      <4> QED
        BY ZenonT(30), <4>1, <4>2, <4>3, <4>4, <4>5 DEF Counted
    <3>2. PlacedAt(o, len + 1, r)
      <4>1. r.event = "admitted" /\ r.step = Sequence(scope[o])[steps[o] + 1]
        BY ZenonT(30) DEF r, AdmitStep
      <4>2. /\ len + 1 = 2 * (steps[o] + 1) /\ len + 1 # 1
            /\ steps[o] + 1 \in 1..Len(Sequence(scope[o]))
        <5>1. steps[o] \in Nat /\ Len(Sequence(scope[o])) \in Nat
          BY <1>4
        <5>2. steps[o] < Len(Sequence(scope[o]))
          BY <1>5
        <5>3. len + 1 = 2 * (steps[o] + 1) /\ len + 1 # 1
          BY <5>1, <1>6
        <5>4. steps[o] + 1 \in 1..Len(Sequence(scope[o]))
          BY <5>1, <5>2
        <5> QED
          BY <5>3, <5>4
      <4> QED
        BY ZenonT(30), <4>1, <4>2, <1>5 DEF PlacedAt
    <3>3. Placed(o)'
      <4> SUFFICES ASSUME NEW i \in 1..(len + 1)
                   PROVE  /\ PlacedAt(o, i, journal'[o][i])
                          /\ journal'[o][i].event # "closed"
        BY ZenonT(30), <1>3, <1>4, <1>5 DEF Placed, PlacedAt
      <4>1. CASE i = len + 1
        BY <4>1, <1>3, <3>2 DEF r
      <4>2. CASE i # len + 1
        <5>1. i \in 1..len /\ journal'[o][i] = journal[o][i]
          BY <4>2, <1>3
        <5>2. PlacedAt(o, i, journal[o][i]) /\ journal[o][i].event # "closed"
          BY ZenonT(30), <5>1, <1>4 DEF Placed
        <5> QED
          BY ZenonT(30), <5>1, <5>2
      <4> QED
        BY ZenonT(30), <4>1, <4>2
    <3>4. Clean(o)'
      <4>1. CleanRecord(o, r)
        BY ZenonT(30) DEF CleanRecord, r, AdmitStep, MayProceed, InWindow
      <4>2. \A i \in 1..len : CleanRecord(o, journal[o][i])
        BY ZenonT(30), <1>4, <1>5 DEF Clean
      <4>3. \A i \in 1..(len + 1) : CleanRecord(o, journal'[o][i])
        BY <4>1, <4>2, <1>3
      <4> QED
        BY ZenonT(30), <4>3, <1>3, <1>5 DEF Clean, CleanRecord, Verified
    <3> QED
      BY ZenonT(30), <2>2, <3>1, <3>3, <3>4, <1>4, <1>5 DEF OperationInv
  <2> QED
    BY <2>1, <2>2
<1>9. OneOpen'
  BY <1>5 DEF OneOpen, Open, JournalInv
<1> QED
  BY <1>7, <1>8, <1>9 DEF JournalInv

\* The outcome of the unresolved step is recorded.
LEMMA CompleteStepInv ==
  ASSUME JournalInv, NEW o \in Operations, NEW actor \in Actors, NEW role \in Roles,
         NEW outcome \in EffectOutcomes, NEW now \in ClockTimes,
         CompleteStep(o, actor, role, outcome, now)
  PROVE  JournalInv'
<1> DEFINE ok == AuthorizesProgress(o, actor, role, outcome, now)
           r == [event |-> "completed", actor |-> actor, at |-> now,
                 outcome |-> outcome, role |-> role, authorizes |-> ok]
           len == Len(journal[o])
<1>0. ok \in BOOLEAN
  BY DEF AuthorizesProgress
<1>1. JournalTypeOK /\ Open(o) /\ Chain(o, r) /\ now \in Int
  BY ZenonT(30), ClockAssumption DEF CompleteStep, JournalInv
<1>2. /\ scope' = scope /\ closed' = closed /\ steps' = steps
      /\ unresolved[o] /\ ~unresolved'[o]
      /\ recovery'[o] <=> (recovery[o] \/ ~ok)
      /\ recovery' \in [Operations -> BOOLEAN]
      /\ unresolved' \in [Operations -> BOOLEAN]
      /\ \A p \in Operations : p # o =>
           recovery'[p] = recovery[p] /\ unresolved'[p] = unresolved[p]
  BY ZenonT(30), <1>0 DEF CompleteStep, JournalInv, JournalTypeOK
<1>3. ok => /\ role = "CurrentOperator" /\ actor = scope[o].operator
            /\ outcome = "Verified"
            /\ scope[o].notBefore <= now /\ now < scope[o].expires
  BY DEF AuthorizesProgress, InWindow
<1> HIDE DEF ok
<1>4. r \in Records
  BY <1>0 DEF Records
<1>5. /\ r.event = "completed" /\ r.actor = actor /\ r.at = now
      /\ r.outcome = outcome /\ r.role = role
  OBVIOUS
<1> HIDE DEF r
<1>6. /\ journal' \in [Operations -> Seq(Records)]
      /\ len \in Nat
      /\ Len(journal'[o]) = len + 1
      /\ \A i \in 1..len : journal'[o][i] = journal[o][i]
      /\ journal'[o][len + 1] = r
      /\ \A p \in Operations : p # o => journal'[p] = journal[p]
  BY ZenonT(30), <1>1, <1>4, Chained
<1>7. /\ scope[o] \in Scopes /\ scope[o] # None
      /\ Len(Sequence(scope[o])) \in Nat
      /\ Counted(o) /\ Placed(o) /\ Clean(o)
      /\ steps[o] \in Nat /\ ~closed[o]
  BY ZenonT(30), <1>1, OpenScope
<1>8. /\ len = 2 * steps[o] /\ steps[o] >= 1 /\ ~recovery[o]
      /\ steps[o] <= Len(Sequence(scope[o]))
  BY <1>2, <1>7 DEF Counted
<1>9. JournalTypeOK'
  BY ZenonT(30), <1>2, <1>6 DEF JournalInv, JournalTypeOK
<1>10. ASSUME NEW p \in Operations PROVE OperationInv(p)'
  <2>1. CASE p # o
    BY ZenonT(30), <2>1, <1>2, <1>6, Untouched DEF JournalInv
  <2>2. CASE p = o
    <3>1. Counted(o)'
      <4>1. Len(journal'[o]) = 2 * steps[o] + 1
        BY ZenonT(30), <1>6, <1>8
      <4>2. (IF closed'[o] THEN 2 ELSE IF unresolved'[o] THEN 0 ELSE 1) = 1
        BY ZenonT(30), <1>2, <1>7
      <4> QED
        BY ZenonT(30), <4>1, <4>2, <1>2, <1>7, <1>8 DEF Counted
    <3>2. PlacedAt(o, len + 1, r)
      <4>1. steps[o] \in 1..Len(Sequence(scope[o])) /\ len + 1 # 1
        BY <1>7, <1>8
      <4> QED
        BY ZenonT(30), <4>1, <1>5, <1>8 DEF PlacedAt
    <3>3. Placed(o)'
      <4> SUFFICES ASSUME NEW i \in 1..(len + 1)
                   PROVE  /\ PlacedAt(o, i, journal'[o][i])
                          /\ journal'[o][i].event # "closed"
        BY ZenonT(30), <1>2, <1>6, <1>7 DEF Placed, PlacedAt
      <4>1. CASE i = len + 1
        BY ZenonT(30), <4>1, <1>5, <1>6, <3>2
      <4>2. CASE i # len + 1
        <5>1. i \in 1..len /\ journal'[o][i] = journal[o][i]
          BY <4>2, <1>6
        <5>2. PlacedAt(o, i, journal[o][i]) /\ journal[o][i].event # "closed"
          BY ZenonT(30), <5>1, <1>7 DEF Placed
        <5> QED
          BY ZenonT(30), <5>1, <5>2
      <4> QED
        BY ZenonT(30), <4>1, <4>2
    <3>4. Clean(o)'
      <4> SUFFICES ASSUME ok
                   PROVE  \A i \in 1..(len + 1) : CleanRecord(o, journal'[o][i])
        BY ZenonT(30), <1>2, <1>6, <1>8 DEF Clean, CleanRecord, Verified
      <4>1. CleanRecord(o, r)
        BY ZenonT(30), <1>3, <1>5 DEF CleanRecord, Verified
      <4>2. \A i \in 1..len : CleanRecord(o, journal[o][i])
        BY ZenonT(30), <1>7, <1>8 DEF Clean
      <4> QED
        BY <4>1, <4>2, <1>6
    <3> QED
      BY ZenonT(30), <2>2, <3>1, <3>3, <3>4, <1>2, <1>7 DEF OperationInv
  <2> QED
    BY <2>1, <2>2
<1>11. OneOpen'
  BY ZenonT(30), <1>2 DEF OneOpen, Open, JournalInv
<1> QED
  BY <1>9, <1>10, <1>11 DEF JournalInv

\* The operation is closed.
LEMMA CloseOperationInv ==
  ASSUME JournalInv, NEW o \in Operations, NEW actor \in Actors, NEW role \in Roles,
         NEW now \in ClockTimes, CloseOperation(o, actor, role, now)
  PROVE  JournalInv'
<1> DEFINE r == [event |-> "closed", actor |-> actor, at |-> now]
           len == Len(journal[o])
<1>1. r \in Records
  BY DEF Records
<1>2. JournalTypeOK /\ Open(o) /\ Chain(o, r)
  BY DEF CloseOperation, JournalInv
<1>3. /\ scope' = scope /\ steps' = steps /\ recovery' = recovery
      /\ unresolved' = unresolved /\ ~recovery[o] /\ ~unresolved[o]
      /\ closed'[o] /\ closed' \in [Operations -> BOOLEAN]
      /\ \A p \in Operations : p # o => closed'[p] = closed[p]
      /\ steps[o] = Len(Sequence(scope[o]))
  BY ZenonT(30) DEF CloseOperation, MayProceed, JournalInv, JournalTypeOK
<1>4. /\ r.event = "closed" /\ r.actor = scope[o].operator
      /\ scope[o].notBefore <= r.at /\ r.at < scope[o].expires
  BY ZenonT(30) DEF CloseOperation, MayProceed, InWindow
<1> HIDE DEF r
<1>5. /\ journal' \in [Operations -> Seq(Records)]
      /\ len \in Nat
      /\ Len(journal'[o]) = len + 1
      /\ \A i \in 1..len : journal'[o][i] = journal[o][i]
      /\ journal'[o][len + 1] = r
      /\ \A p \in Operations : p # o => journal'[p] = journal[p]
  BY ZenonT(30), <1>1, <1>2, Chained
<1>6. /\ scope[o] \in Scopes /\ scope[o] # None
      /\ Len(Sequence(scope[o])) \in Nat
      /\ Counted(o) /\ Placed(o) /\ Clean(o)
      /\ steps[o] \in Nat /\ ~closed[o]
  BY ZenonT(30), <1>2, OpenScope
<1>7. len = 2 * steps[o] + 1
  BY ZenonT(30), <1>3, <1>6 DEF Counted
<1>8. JournalTypeOK'
  BY ZenonT(30), <1>3, <1>5 DEF JournalInv, JournalTypeOK
<1>9. ASSUME NEW p \in Operations PROVE OperationInv(p)'
  <2>1. CASE p # o
    BY ZenonT(30), <2>1, <1>3, <1>5, Untouched DEF JournalInv
  <2>2. CASE p = o
    <3>1. Counted(o)'
      <4>1. Len(journal'[o]) = 2 * steps[o] + 2
        BY <1>5, <1>6, <1>7
      <4>2. (IF closed'[o] THEN 2 ELSE IF unresolved'[o] THEN 0 ELSE 1) = 2
        BY <1>3
      <4> QED
        BY ZenonT(30), <4>1, <4>2, <1>3, <1>6 DEF Counted
    <3>2. PlacedAt(o, len + 1, r)
      <4>1. len + 1 = 2 * Len(Sequence(scope[o])) + 2 /\ len + 1 # 1
        BY <1>3, <1>6, <1>7
      <4> QED
        BY <4>1, <1>4 DEF PlacedAt
    <3>3. Placed(o)'
      <4>0. scope'[o] = scope[o] /\ closed'[o] /\ Len(journal'[o]) = len + 1
        BY <1>3, <1>5
      <4> SUFFICES ASSUME NEW i \in 1..(len + 1)
                   PROVE  /\ PlacedAt(o, i, journal'[o][i])
                          /\ journal'[o][i].event = "closed" <=> i = len + 1
        BY <4>0 DEF Placed, PlacedAt
      <4>1. CASE i = len + 1
        BY ZenonT(30), <4>1, <1>4, <1>5, <3>2
      <4>2. CASE i # len + 1
        <5>1. i \in 1..len /\ journal'[o][i] = journal[o][i]
          BY <4>2, <1>5
        <5>2. PlacedAt(o, i, journal[o][i]) /\ journal[o][i].event # "closed"
          BY ZenonT(30), <5>1, <1>6 DEF Placed
        <5> QED
          BY ZenonT(30), <5>1, <5>2, <4>2
      <4> QED
        BY ZenonT(30), <4>1, <4>2
    <3>4. Clean(o)'
      <4>1. CleanRecord(o, r)
        BY <1>4 DEF CleanRecord
      <4>2. \A i \in 1..len : CleanRecord(o, journal[o][i])
        BY ZenonT(30), <1>3, <1>6 DEF Clean
      <4>3. \A i \in 1..(len + 1) : CleanRecord(o, journal'[o][i])
        BY <4>1, <4>2, <1>5
      <4> QED
        BY ZenonT(30), <4>3, <1>3, <1>5 DEF Clean, CleanRecord, Verified
    <3> QED
      BY ZenonT(30), <2>2, <3>1, <3>3, <3>4, <1>3, <1>6 DEF OperationInv
  <2> QED
    BY <2>1, <2>2
<1>10. OneOpen'
  <2> SUFFICES ASSUME NEW p \in Operations, NEW q \in Operations,
                      Open(p)', Open(q)'
               PROVE  p = q
    BY DEF OneOpen
  <2>1. p # o /\ q # o
    BY <1>3 DEF Open
  <2> QED
    BY ZenonT(30), <2>1, <1>3 DEF OneOpen, Open, JournalInv
<1> QED
  BY <1>8, <1>9, <1>10 DEF JournalInv

-----------------------------------------------------------------------------
\* Every step keeps the invariant.
LEMMA JournalNextInv == JournalInv /\ [JournalNext]_journalVars => JournalInv'
<1> SUFFICES ASSUME JournalInv, [JournalNext]_journalVars PROVE JournalInv'
  OBVIOUS
<1>1. CASE UNCHANGED journalVars
  BY <1>1 DEF journalVars, JournalInv, JournalTypeOK, OperationInv, Fresh, Counted, Placed,
              PlacedAt, Clean, CleanRecord, Verified, OneOpen, Open
<1>2. CASE JournalNext
  <2> PICK o \in Operations, actor \in Actors, role \in Roles, now \in ClockTimes :
        \/ \E s \in Scopes : s.operator = actor /\ ReserveRestore(o, s, now)
        \/ \E step \in Steps, verified \in ClockTimes :
             AdmitStep(o, actor, role, step, verified, now)
        \/ \E outcome \in EffectOutcomes : CompleteStep(o, actor, role, outcome, now)
        \/ CloseOperation(o, actor, role, now)
    BY ZenonT(30), <1>2 DEF JournalNext
  <2> QED
    BY ZenonT(30), ReserveRestoreInv, AdmitStepInv, CompleteStepInv, CloseOperationInv
<1> QED
  BY <1>1, <1>2

\* The journal and the operation reduced from it correspond in every state.
THEOREM JournalInvariance == JournalSpec => []JournalInv
BY JournalInitInv, JournalNextInv, PTL DEF JournalSpec

\* Types: the reduced operation never has more steps than the plan.
THEOREM JournalTypeCorrect == JournalSpec => []JournalTypeOK
<1>1. JournalInv => JournalTypeOK
  BY DEF JournalInv
<1> QED
  BY <1>1, JournalInvariance, PTL

\* An operation holds the barrier exactly as long as it is open.
LEMMA BarrierIsOpen ==
  ASSUME JournalInv, NEW o \in Operations
  PROVE  /\ journal[o] # <<>> => scope[o] # None
         /\ HoldsBarrier(o) => Open(o)
         /\ journal[o] # <<>> /\ ~HoldsBarrier(o) => closed[o]
<1>1. scope[o] = None => journal[o] = <<>>
  BY DEF JournalInv, OperationInv, Fresh
<1>2. ASSUME scope[o] # None, closed[o]
      PROVE  /\ Len(journal[o]) \in 1..Len(journal[o])
             /\ journal[o][Len(journal[o])].event = "closed"
  <2>1. Counted(o) /\ Placed(o) /\ steps[o] \in Nat
    BY <1>2 DEF JournalInv, OperationInv, JournalTypeOK
  <2>2. Len(journal[o]) = 2 * steps[o] + 2
    BY <1>2, <2>1 DEF Counted
  <2>3. Len(journal[o]) \in 1..Len(journal[o])
    BY <2>1, <2>2
  <2> QED
    BY ZenonT(30), <2>1, <2>3, <1>2 DEF Placed
<1>3. HoldsBarrier(o) => Open(o)
  BY <1>1, <1>2 DEF HoldsBarrier, Open
<1>4. ASSUME journal[o] # <<>>, ~HoldsBarrier(o) PROVE closed[o]
  <2>1. PICK i \in 1..Len(journal[o]) : journal[o][i].event = "closed"
    BY <1>4 DEF HoldsBarrier
  <2>2. Placed(o)
    BY <1>1, <1>4 DEF JournalInv, OperationInv
  <2> QED
    BY <2>1, <2>2 DEF Placed
<1> QED
  BY <1>1, <1>3, <1>4

\* At most one restore holds the barrier, for any number of operations.
THEOREM OneOwner == JournalSpec => []OneOpenRestore
<1>1. JournalInv => OneOpenRestore
  BY BarrierIsOpen DEF OneOpenRestore, OneOpen, JournalInv
<1> QED
  BY <1>1, JournalInvariance, PTL

\* The records follow the plan, whatever its length.
THEOREM PlanFollowed == JournalSpec => []JournalFollowsPlan
<1>1. JournalInv => JournalFollowsPlan
  <2> SUFFICES ASSUME JournalInv, NEW o \in Operations, scope[o] # None
               PROVE  \A i \in 1..Len(journal[o]) : PlacedAt(o, i, journal[o][i])
    BY ZenonT(30) DEF JournalFollowsPlan, PlacedAt
  <2> QED
    BY DEF JournalInv, OperationInv, Placed
<1> QED
  BY <1>1, JournalInvariance, PTL

\* The barrier is released only after a plan verified to the last step.
THEOREM VerifiedClosure == JournalSpec => []ClosedIsVerified
<1>1. JournalInv => ClosedIsVerified
  <2> SUFFICES ASSUME JournalInv, NEW o \in Operations,
                      journal[o] # <<>>, ~HoldsBarrier(o)
               PROVE  /\ Len(journal[o]) = 2 * Len(Sequence(scope[o])) + 2
                      /\ \A i \in 1..Len(journal[o]) : CleanRecord(o, journal[o][i])
    BY ZenonT(30) DEF ClosedIsVerified, CleanRecord
  <2>1. closed[o] /\ Counted(o) /\ Clean(o)
    BY BarrierIsOpen DEF JournalInv, OperationInv
  <2> QED
    BY ZenonT(30), <2>1 DEF Counted, Clean
<1> QED
  BY <1>1, JournalInvariance, PTL

\* After an outcome that was not verified nothing more is recorded.
THEOREM RecoveryFinal == JournalSpec => RecoveryIsFinal
<1> DEFINE Spoilt(o) ==
      \E i \in 1..Len(journal[o]) :
        journal[o][i].event = "completed" /\ ~Verified(o, journal[o][i])
<1>1. ASSUME JournalInv, [JournalNext]_journalVars, NEW o \in Operations, Spoilt(o)
      PROVE  journal'[o] = journal[o]
  <2>1. scope[o] # None /\ recovery[o] /\ ~unresolved[o]
    <3>1. journal[o] # <<>>
      BY <1>1
    <3>2. scope[o] # None
      BY <1>1, <3>1, BarrierIsOpen
    <3>3. Counted(o) /\ Clean(o)
      BY <1>1, <3>2 DEF JournalInv, OperationInv
    <3>4. recovery[o]
      BY ZenonT(30), <1>1, <3>3 DEF Clean, CleanRecord
    <3> QED
      BY <3>2, <3>3, <3>4 DEF Counted
  <2>2. CASE UNCHANGED journalVars
    BY <2>2 DEF journalVars
  <2>3. CASE JournalNext
    <3> PICK p \in Operations, actor \in Actors, role \in Roles, now \in ClockTimes :
          \/ \E s \in Scopes : s.operator = actor /\ ReserveRestore(p, s, now)
          \/ \E step \in Steps, verified \in ClockTimes :
               AdmitStep(p, actor, role, step, verified, now)
          \/ \E outcome \in EffectOutcomes : CompleteStep(p, actor, role, outcome, now)
          \/ CloseOperation(p, actor, role, now)
      BY <2>3 DEF JournalNext
    <3>1. p # o
      BY ZenonT(30), <2>1 DEF ReserveRestore, AdmitStep, CompleteStep, CloseOperation, MayProceed
    <3> QED
      BY ZenonT(30), <3>1, <1>1 DEF ReserveRestore, AdmitStep, CompleteStep, CloseOperation, Chain, JournalInv, JournalTypeOK
  <2> QED
    BY <1>1, <2>2, <2>3
<1>2. JournalInv /\ [JournalNext]_journalVars =>
        [\A o \in Operations : Spoilt(o) => journal'[o] = journal[o]]_journalVars
  BY <1>1
<1> QED
  BY <1>2, JournalInvariance, PTL DEF JournalSpec, RecoveryIsFinal

-----------------------------------------------------------------------------
(***************************************************************************)
(* The lease book, for any number of jobs, workers, epochs, times and any  *)
(* retry budget.                                                           *)
(***************************************************************************)


\* A record that holds a lease holds an issued one, for its own job and its
\* current attempt; attempts stay within the budget.
RecordsInv ==
  \A j \in Jobs :
    /\ attempt[j] <= MaxAttempts(j)
    /\ state[j] = "Leased" =>
         /\ lease[j] \in issued
         /\ lease[j].job = j
         /\ lease[j].attempt = attempt[j]

\* Leases were issued for attempts begun so far; a pending job's attempt is still
\* to be leased, and a leased job's attempt has the one lease it holds.
IssuedInv ==
  \A l \in issued :
    /\ 1 <= l.attempt
    /\ l.attempt <= attempt[l.job]
    /\ state[l.job] = "Pending" => l.attempt < attempt[l.job]
    /\ state[l.job] = "Leased" /\ l.attempt = attempt[l.job] => l = lease[l.job]

\* Receipts are about issued leases, none about a lease that is still held.
ReceiptsInv ==
  \A r \in receipts :
    /\ r.lease \in issued
    /\ state[r.lease.job] = "Leased" => r.lease.attempt < attempt[r.lease.job]

IInv ==
  /\ TypeOK
  /\ RecordsInv
  /\ IssuedInv
  /\ ReceiptsInv
  /\ OneLeasePerAttempt
  /\ OneOutcomePerAttempt
  /\ ReceiptsStand

-----------------------------------------------------------------------------

\* A job has at least one attempt.
LEMMA MaxAttemptsType ==
  ASSUME NEW j \in Jobs
  PROVE  MaxAttempts(j) \in Nat /\ MaxAttempts(j) >= 1
  BY RetryAssumption DEF MaxAttempts

\* How a record may leave the leased state.
Left(j, n, r) ==
  /\ r.attempt \in Nat
  /\ r.attempt <= MaxAttempts(j)
  /\ r.state \in States
  /\ r.kind \in EventKinds
  /\ \/ r.state = "Pending" /\ r.kind = "Requeued" /\ r.attempt = n + 1
     \/ r.state = "Succeeded" /\ r.kind = "Completed" /\ r.attempt = n
     \/ r.state = "Cancelled" /\ r.kind = "Cancelled" /\ r.attempt = n
     \/ r.state = "Failed" /\ r.kind = "Failed" /\ r.attempt = n

\* Where an attempt is lost, the job goes back to the queue only if an
\* attempt is left.
LEMMA RetryOrFailLeft ==
  ASSUME NEW j \in Jobs, NEW n \in Nat, n <= MaxAttempts(j)
  PROVE  Left(j, n, RetryOrFail(j, n))
  BY MaxAttemptsType DEF Left, RetryOrFail, States, EventKinds

\* The same for the outcome a worker reports.
LEMMA AfterOutcomeLeft ==
  ASSUME NEW j \in Jobs, NEW n \in Nat, n <= MaxAttempts(j),
         NEW outcome \in Outcomes
  PROVE  Left(j, n, AfterOutcome(j, n, outcome))
<1>1. CASE outcome = "Success"
  BY <1>1 DEF Left, AfterOutcome, States, EventKinds
<1>2. CASE outcome = "Cancelled"
  BY <1>2 DEF Left, AfterOutcome, States, EventKinds
<1>3. CASE outcome = "Failed"
  <2>1. AfterOutcome(j, n, outcome) = RetryOrFail(j, n)
    BY <1>3 DEF AfterOutcome
  <2> QED
    BY <2>1, RetryOrFailLeft
<1> QED
  BY <1>1, <1>2, <1>3 DEF Outcomes

\* build_lease makes a lease of the book: the lifetime was checked, so its
\* end is still a time.
LEMMA BuildLeaseType ==
  ASSUME NEW j \in Jobs, NEW w \in Workers, NEW e \in NodeEpochs,
         NEW n \in Nat, NEW at \in Times, NEW ttl \in Times,
         ValidLifetime(at, ttl)
  PROVE  BuildLease(j, w, e, n, at, ttl) \in Leases
<1>1. at + ttl \in Times
  BY MaxEpochAssumption DEF Times, ValidLifetime
<1> QED
  BY ZenonT(30), <1>1 DEF BuildLease, Leases, LeaseIds

-----------------------------------------------------------------------------

\* The empty lease book satisfies the inductive invariant.
LEMMA InitInv == Init => IInv
<1> SUFFICES ASSUME Init PROVE IInv
  OBVIOUS
<1>1. TypeOK
  BY MaxEpochAssumption DEF Init, TypeOK, Times, States
<1>2. RecordsInv
  BY MaxAttemptsType DEF Init, RecordsInv
<1> QED
  BY <1>1, <1>2 DEF Init, IInv, IssuedInv, ReceiptsInv, OneLeasePerAttempt,
       OneOutcomePerAttempt, ReceiptsStand

\* Handing out a lease for an attempt n that nobody was lent before.
LEMMA LendInv ==
  ASSUME IInv, NEW j \in Jobs, NEW w \in Workers, NEW e \in NodeEpochs,
         NEW n \in Nat, NEW at \in Times, NEW ttl \in Times,
         ValidLifetime(at, ttl), Lend(j, w, e, n, at, ttl), clock' = clock,
         1 <= n, attempt[j] <= n, n <= MaxAttempts(j),
         state[j] \in {"Pending", "Leased"},
         \A l \in issued : l.job = j => l.attempt < n
  PROVE  IInv'
<1> DEFINE new == BuildLease(j, w, e, n, at, ttl)
<1>1. new \in Leases /\ new.job = j /\ new.attempt = n
  BY ZenonT(30), BuildLeaseType DEF BuildLease
<1> HIDE DEF new
<1>2. /\ attempt' = [attempt EXCEPT ![j] = n]
      /\ state' = [state EXCEPT ![j] = "Leased"]
      /\ lease' = [lease EXCEPT ![j] = new]
      /\ issued' = issued \cup {new}
      /\ receipts' = receipts
  BY DEF Lend, new
<1>3. TypeOK'
  BY ZenonT(30), <1>1, <1>2 DEF IInv, TypeOK, States
<1>4. RecordsInv'
  BY ZenonT(30), <1>1, <1>2 DEF IInv, TypeOK, RecordsInv, MaxAttempts
<1>5. IssuedInv'
  <2> SUFFICES ASSUME NEW l \in issued'
               PROVE  /\ 1 <= l.attempt
                      /\ l.attempt <= attempt'[l.job]
                      /\ state'[l.job] = "Pending" => l.attempt < attempt'[l.job]
                      /\ state'[l.job] = "Leased" /\ l.attempt = attempt'[l.job]
                           => l = lease'[l.job]
    BY DEF IssuedInv
  <2>1. CASE l = new
    BY <1>1, <1>2, <2>1 DEF IInv, TypeOK
  <2>2. CASE l \in issued /\ l.job = j
    BY <1>1, <1>2, <2>2 DEF IInv, TypeOK, IssuedInv, Leases
  <2>3. CASE l \in issued /\ l.job # j
    BY ZenonT(30), <1>1, <1>2, <2>3 DEF IInv, TypeOK, IssuedInv, Leases
  <2> QED
    BY ZenonT(30), <1>2, <2>1, <2>2, <2>3
<1>6. ReceiptsInv'
  BY ZenonT(30), <1>1, <1>2 DEF IInv, TypeOK, ReceiptsInv, Receipts, Leases
<1>7. OneLeasePerAttempt'
  <2>1. \A l \in issued : l.job = j => l.attempt # n
    BY DEF IInv, TypeOK, Leases
  <2> QED
    BY <1>1, <1>2, <2>1 DEF IInv, OneLeasePerAttempt, MaxAttempts
<1>8. OneOutcomePerAttempt'
  BY ZenonT(30), <1>2 DEF IInv, OneOutcomePerAttempt
<1>9. ReceiptsStand'
  <2> SUFFICES ASSUME NEW r \in receipts
               PROVE  Stands(r)'
    BY <1>2 DEF ReceiptsStand
  <2>1. Stands(r) /\ r \in Receipts /\ r.lease.job \in Jobs /\ r.lease.attempt \in Nat
    BY ZenonT(30) DEF IInv, ReceiptsStand, TypeOK, Receipts, Leases
  <2>2. CASE r.lease.job = j
    BY <1>2, <2>1, <2>2 DEF IInv, TypeOK, Stands, Receipts, EventKinds
  <2>3. CASE r.lease.job # j
    BY ZenonT(30), <1>2, <2>1, <2>3 DEF IInv, TypeOK, Stands
  <2> QED
    BY <2>2, <2>3
<1> QED
  BY ZenonT(30), <1>3, <1>4, <1>5, <1>6, <1>7, <1>8, <1>9 DEF IInv

\* Jobs in gone give up their leases as after says; each may yield a receipt.
GivenUp(gone, after, at) ==
  /\ \A j \in gone : state[j] = "Leased" /\ Left(j, attempt[j], after[j])
  /\ attempt' = [j \in Jobs |-> IF j \in gone THEN after[j].attempt ELSE attempt[j]]
  /\ state' = [j \in Jobs |-> IF j \in gone THEN after[j].state ELSE state[j]]
  /\ lease' = [j \in Jobs |-> IF j \in gone THEN NoLease ELSE lease[j]]
  /\ \A r \in receipts' :
       \/ r \in receipts
       \/ \E j \in gone : r = [kind |-> after[j].kind, lease |-> lease[j], at |-> at]
  /\ clock' = clock
  /\ issued' = issued

\* Giving up leases keeps the invariant.
LEMMA CloseInv ==
  ASSUME IInv, NEW gone \in SUBSET Jobs, NEW after, NEW at \in Times,
         GivenUp(gone, after, at)
  PROVE  IInv'
<1> DEFINE New(j) == [kind |-> after[j].kind, lease |-> lease[j], at |-> at]
<1>a. /\ issued' = issued
      /\ \A j \in gone : /\ state[j] = "Leased"
                         /\ Left(j, attempt[j], after[j])
                         /\ attempt'[j] = after[j].attempt
                         /\ state'[j] = after[j].state
                         /\ lease'[j] = NoLease
      /\ \A j \in Jobs \ gone : /\ attempt'[j] = attempt[j]
                                /\ state'[j] = state[j]
                                /\ lease'[j] = lease[j]
      /\ \A r \in receipts' : r \in receipts \/ \E j \in gone : r = New(j)
  BY ZenonT(30) DEF GivenUp
<1>0. \A j \in gone :
        /\ lease[j] \in issued
        /\ lease[j] \in Leases
        /\ lease[j].job = j
        /\ lease[j].attempt = attempt[j]
        /\ attempt[j] \in Nat
  BY ZenonT(30), <1>a DEF IInv, RecordsInv, TypeOK
<1>b. \A j \in gone : /\ New(j).lease = lease[j]
                      /\ New(j).kind = after[j].kind
  OBVIOUS
<1>1. \A j \in gone : New(j) \in Receipts
  BY ZenonT(30), <1>0, <1>a DEF Left, Receipts
<1>c. \A j \in gone : /\ attempt'[j] \in Nat
                      /\ attempt'[j] <= MaxAttempts(j)
                      /\ attempt[j] <= attempt'[j]
                      /\ state'[j] # "Leased"
                      /\ state'[j] = "Pending" => attempt[j] < attempt'[j]
  BY <1>0, <1>a DEF Left
<1> HIDE DEF New
<1>2. TypeOK'
  BY ZenonT(30), <1>1 DEF IInv, TypeOK, Left, GivenUp, New
<1>3. RecordsInv'
  <2> SUFFICES ASSUME NEW j \in Jobs
               PROVE  /\ attempt'[j] <= MaxAttempts(j)
                      /\ state'[j] = "Leased" =>
                           /\ lease'[j] \in issued'
                           /\ lease'[j].job = j
                           /\ lease'[j].attempt = attempt'[j]
    BY DEF RecordsInv, MaxAttempts
  <2>1. CASE j \in gone
    BY ZenonT(30), <1>c, <2>1
  <2>2. CASE j \notin gone
    BY ZenonT(30), <1>a, <2>2 DEF IInv, RecordsInv
  <2> QED
    BY ZenonT(30), <2>1, <2>2
<1>4. IssuedInv'
  <2> SUFFICES ASSUME NEW l \in issued
               PROVE  /\ 1 <= l.attempt
                      /\ l.attempt <= attempt'[l.job]
                      /\ state'[l.job] = "Pending" => l.attempt < attempt'[l.job]
                      /\ state'[l.job] = "Leased" /\ l.attempt = attempt'[l.job]
                           => l = lease'[l.job]
    BY ZenonT(30), <1>a DEF IssuedInv
  <2>0. l.job \in Jobs /\ l.attempt \in Nat /\ attempt[l.job] \in Nat
    BY DEF IInv, TypeOK, Leases
  <2>1. /\ 1 <= l.attempt
        /\ l.attempt <= attempt[l.job]
        /\ state[l.job] = "Pending" => l.attempt < attempt[l.job]
        /\ state[l.job] = "Leased" /\ l.attempt = attempt[l.job] => l = lease[l.job]
    BY DEF IInv, IssuedInv
  <2>2. CASE l.job \in gone
    BY <1>0, <1>c, <2>0, <2>1, <2>2
  <2>3. CASE l.job \notin gone
    BY ZenonT(30), <1>a, <2>0, <2>1, <2>3
  <2> QED
    BY ZenonT(30), <2>2, <2>3
<1>5. ReceiptsInv'
  <2> SUFFICES ASSUME NEW r \in receipts'
               PROVE  /\ r.lease \in issued
                      /\ state'[r.lease.job] = "Leased"
                           => r.lease.attempt < attempt'[r.lease.job]
    BY ZenonT(30), <1>a DEF ReceiptsInv
  <2>1. CASE r \in receipts
    <3>1. /\ r.lease \in issued /\ r.lease.job \in Jobs
          /\ state[r.lease.job] = "Leased" => r.lease.attempt < attempt[r.lease.job]
      BY ZenonT(30), <2>1 DEF IInv, ReceiptsInv, TypeOK, Leases
    <3> QED
      BY ZenonT(30), <1>a, <1>c, <3>1
  <2>2. CASE \E j \in gone : r = New(j)
    BY <1>b, <1>c, <1>0, <2>2
  <2> QED
    BY ZenonT(30), <1>a, <2>1, <2>2
<1>6. OneLeasePerAttempt'
  BY ZenonT(30), <1>a DEF IInv, OneLeasePerAttempt, MaxAttempts
<1>7. OneOutcomePerAttempt'
  <2>1. ASSUME NEW q \in receipts, NEW j \in gone
        PROVE  ~(q.lease.job = j /\ q.lease.attempt = attempt[j])
    <3>1. /\ state[q.lease.job] = "Leased" => q.lease.attempt < attempt[q.lease.job]
          /\ q.lease.attempt \in Nat
      BY ZenonT(30) DEF IInv, ReceiptsInv, TypeOK, Receipts, Leases
    <3> QED
      BY <1>a, <1>0, <3>1
  <2> SUFFICES ASSUME NEW q \in receipts', NEW r \in receipts',
                      q.lease.job = r.lease.job, q.lease.attempt = r.lease.attempt
               PROVE  q = r
    BY DEF OneOutcomePerAttempt
  <2>2. CASE q \in receipts /\ r \in receipts
    BY <2>2 DEF IInv, OneOutcomePerAttempt
  <2>3. CASE q \in receipts /\ \E j \in gone : r = New(j)
    BY <1>0, <1>b, <2>1, <2>3
  <2>4. CASE r \in receipts /\ \E j \in gone : q = New(j)
    BY <1>0, <1>b, <2>1, <2>4
  <2>5. CASE (\E j \in gone : q = New(j)) /\ (\E j \in gone : r = New(j))
    BY ZenonT(30), <1>0, <1>b, <2>5
  <2> QED
    BY ZenonT(30), <1>a, <2>2, <2>3, <2>4, <2>5
<1>8. ReceiptsStand'
  <2> SUFFICES ASSUME NEW r \in receipts'
               PROVE  Stands(r)'
    BY DEF ReceiptsStand
  <2>1. CASE r \in receipts
    <3>1. /\ Stands(r)
          /\ r.kind \in EventKinds
          /\ r.lease.job \in Jobs
          /\ r.lease.attempt \in Nat
          /\ attempt[r.lease.job] \in Nat
      BY ZenonT(30), <2>1 DEF IInv, ReceiptsStand, TypeOK, Receipts, Leases
    <3>2. CASE r.lease.job \in gone
      BY <1>a, <1>c, <3>1, <3>2 DEF Stands, EventKinds
    <3>3. CASE r.lease.job \notin gone
      BY ZenonT(30), <1>a, <3>1, <3>3 DEF Stands
    <3> QED
      BY <3>2, <3>3
  <2>2. CASE \E j \in gone : r = New(j)
    BY <1>a, <1>b, <1>0, <2>2 DEF Stands, Left
  <2> QED
    BY ZenonT(30), <1>a, <2>1, <2>2
<1> QED
  BY ZenonT(30), <1>2, <1>3, <1>4, <1>5, <1>6, <1>7, <1>8 DEF IInv

-----------------------------------------------------------------------------
(* Each action keeps the invariant *)

\* One job gives up its lease.
LEMMA ClosesOne ==
  ASSUME IInv, NEW j \in Jobs, NEW r, NEW at \in Times,
         state[j] = "Leased", Left(j, attempt[j], r), Close(j, r),
         \/ receipts' = receipts
         \/ receipts' = receipts \cup {[kind |-> r.kind, lease |-> lease[j], at |-> at]},
         clock' = clock, issued' = issued
  PROVE  IInv'
<1> DEFINE after == [k \in {j} |-> r]
<1>1. after[j] = r
  OBVIOUS
<1> HIDE DEF after
<1>2. attempt \in [Jobs -> Nat] /\ state \in [Jobs -> States]
      /\ lease \in [Jobs -> Leases \cup {NoLease}]
  BY DEF IInv, TypeOK
<1>3. GivenUp({j}, after, at)
  BY ZenonT(30), <1>1, <1>2 DEF GivenUp, Close
<1> QED
  BY ZenonT(30), <1>3, CloseInv

\* acquire preserves the invariant, whether the job is pending, its lease
\* lapsed, or the same worker asks again.
LEMMA AcquireInv ==
  ASSUME IInv, NEW j \in Jobs, NEW w \in Workers, NEW e \in NodeEpochs,
         NEW at \in Times, NEW ttl \in Times, Acquire(j, w, e, at, ttl)
  PROVE  IInv'
<1>0. /\ attempt[j] \in Nat
      /\ attempt[j] <= MaxAttempts(j)
      /\ MaxAttempts(j) \in Nat /\ MaxAttempts(j) >= 1
      /\ \A l \in issued : l.attempt \in Nat
  BY ZenonT(30), MaxAttemptsType DEF IInv, TypeOK, RecordsInv, Leases
<1>1. CASE AcquirePending(j, w, e, at, ttl)
  <2> DEFINE n == IF attempt[j] = 0 THEN 1 ELSE attempt[j]
  <2>1. n \in Nat /\ 1 <= n /\ attempt[j] <= n /\ n <= MaxAttempts(j)
    BY <1>0
  <2>2. \A l \in issued : l.job = j => l.attempt < n
    BY <1>0, <1>1 DEF AcquirePending, IInv, IssuedInv
  <2>3. /\ ValidLifetime(at, ttl) /\ Lend(j, w, e, n, at, ttl)
        /\ clock' = clock /\ state[j] \in {"Pending", "Leased"}
    BY <1>1 DEF AcquirePending
  <2> HIDE DEF n
  <2> QED
    BY ZenonT(30), <2>1, <2>2, <2>3, LendInv
<1>2. CASE AcquireAgain(j, w, e, at, ttl)
  <2>1. issued' = issued
    BY ZenonT(30), <1>2 DEF AcquireAgain, IInv, RecordsInv
  <2> QED
    BY ZenonT(30), <1>2, <2>1 DEF AcquireAgain, IInv, TypeOK, RecordsInv, IssuedInv, ReceiptsInv,
         OneLeasePerAttempt, OneOutcomePerAttempt, ReceiptsStand, Stands, MaxAttempts
<1>3. CASE AcquireExpired(j, w, e, at, ttl)
  <2> DEFINE rest == RetryOrFail(j, attempt[j])
  <2>0. Left(j, attempt[j], rest)
    BY <1>0, RetryOrFailLeft
  <2>1. state[j] = "Leased" /\ clock' = clock /\ ValidLifetime(at, ttl)
    BY ZenonT(30), <1>3 DEF AcquireExpired
  <2>2. CASE rest.state = "Pending" /\ Lend(j, w, e, rest.attempt, at, ttl)
    <3>1. rest.attempt = attempt[j] + 1 /\ rest.attempt <= MaxAttempts(j)
      BY ZenonT(30), <2>0, <2>2 DEF Left
    <3>2. \A l \in issued : l.job = j => l.attempt < rest.attempt
      BY <1>0, <3>1 DEF IInv, IssuedInv
    <3> HIDE DEF rest
    <3>3. rest.attempt \in Nat /\ 1 <= rest.attempt /\ attempt[j] <= rest.attempt
      BY <1>0, <3>1
    <3> QED
      BY ZenonT(30), <2>1, <2>2, <3>1, <3>2, <3>3, LendInv
  <2>3. CASE /\ Close(j, rest)
             /\ UNCHANGED <<issued, receipts>>
    <3> HIDE DEF rest
    <3> QED
      BY ZenonT(30), <2>0, <2>1, <2>3, ClosesOne
  <2> QED
    BY ZenonT(30), <1>3, <2>2, <2>3 DEF AcquireExpired, Close
<1> QED
  BY ZenonT(30), <1>1, <1>2, <1>3 DEF Acquire

\* expire preserves the invariant: each lease it closes ends its attempt.
LEMMA ExpireInv ==
  ASSUME IInv, NEW at \in Times, Expire(at)
  PROVE  IInv'
<1> DEFINE gone == ExpiredAt(at)
           after == [j \in Jobs |-> RetryOrFail(j, attempt[j])]
<1>1. gone \in SUBSET Jobs
  BY DEF ExpiredAt
<1>2. \A j \in gone : state[j] = "Leased" /\ Left(j, attempt[j], after[j])
  <2> SUFFICES ASSUME NEW j \in gone
               PROVE  state[j] = "Leased" /\ Left(j, attempt[j], after[j])
    OBVIOUS
  <2>1. j \in Jobs /\ state[j] = "Leased"
    BY DEF ExpiredAt
  <2>2. attempt[j] \in Nat /\ attempt[j] <= MaxAttempts(j)
    BY <2>1 DEF IInv, TypeOK, RecordsInv
  <2>3. after[j] = RetryOrFail(j, attempt[j])
    BY <2>1
  <2> QED
    BY ZenonT(30), <2>1, <2>2, <2>3, RetryOrFailLeft
<1>3. /\ attempt' = [j \in Jobs |-> IF j \in gone THEN after[j].attempt ELSE attempt[j]]
      /\ state' = [j \in Jobs |-> IF j \in gone THEN after[j].state ELSE state[j]]
      /\ lease' = [j \in Jobs |-> IF j \in gone THEN NoLease ELSE lease[j]]
      /\ receipts' = receipts \cup
           {[kind |-> after[j].kind, lease |-> lease[j], at |-> at] : j \in gone}
      /\ clock' = clock /\ issued' = issued
  BY ZenonT(30) DEF Expire
<1> HIDE DEF gone, after
<1>4. GivenUp(gone, after, at)
  BY ZenonT(30), <1>2, <1>3 DEF GivenUp
<1> QED
  BY <1>1, <1>4, CloseInv

\* A reported outcome that is accepted preserves the invariant.
LEMMA SettleInv ==
  ASSUME IInv, NEW l \in issued, NEW outcome \in Outcomes, NEW at \in Times,
         Settle(l, outcome, at)
  PROVE  IInv'
<1>1. l.job \in Jobs /\ attempt[l.job] \in Nat /\ attempt[l.job] <= MaxAttempts(l.job)
  BY DEF IInv, TypeOK, Leases, RecordsInv
<1>2. Left(l.job, attempt[l.job], AfterOutcome(l.job, attempt[l.job], outcome))
  BY <1>1, AfterOutcomeLeft
<1> QED
  BY ZenonT(30), <1>1, <1>2, ClosesOne DEF Settle, ActiveRecord

\* apply_result preserves the invariant also where it refuses or answers a
\* repetition from the receipt.
LEMMA ApplyResultInv ==
  ASSUME IInv, NEW l \in issued, NEW w \in Workers, NEW e \in NodeEpochs,
         NEW outcome \in Outcomes, NEW at \in Times,
         ApplyResult(l, w, e, outcome, at)
  PROVE  IInv'
<1> DEFINE r == AfterOutcome(l.job, attempt[l.job], outcome)
<1>1. l.job \in Jobs /\ attempt[l.job] \in Nat /\ attempt[l.job] <= MaxAttempts(l.job)
  BY DEF IInv, TypeOK, Leases, RecordsInv
<1>2. Left(l.job, attempt[l.job], r)
  BY ZenonT(30), <1>1, AfterOutcomeLeft
<1>3. /\ state[l.job] = "Leased"
      /\ Close(l.job, r)
      /\ receipts' = receipts \cup {[kind |-> r.kind, lease |-> lease[l.job], at |-> at]}
      /\ clock' = clock
      /\ issued' = issued
  BY ZenonT(30) DEF ApplyResult
<1> HIDE DEF r
<1> QED
  BY ZenonT(30), <1>1, <1>2, <1>3, ClosesOne

\* Every step of the lease book preserves the inductive invariant.
LEMMA NextInv == IInv /\ [Next]_vars => IInv'
<1> SUFFICES ASSUME IInv, [Next]_vars PROVE IInv'
  OBVIOUS
<1> USE DEF IInv
<1>1. CASE Tick
  BY <1>1, MaxEpochAssumption DEF Tick, TypeOK, Times, RecordsInv, IssuedInv, ReceiptsInv,
       OneLeasePerAttempt, OneOutcomePerAttempt, ReceiptsStand, Stands, MaxAttempts
<1> HIDE DEF IInv
<1>2. \A at \in 0 .. clock : at \in Times
  BY MaxEpochAssumption DEF IInv, TypeOK, Times
<1>3. CASE \E at \in 0 .. clock : Expire(at)
  BY <1>2, <1>3, ExpireInv
<1>4. CASE \E at \in 0 .. clock, j \in Jobs, w \in Workers, e \in NodeEpochs, ttl \in Times :
             Acquire(j, w, e, at, ttl)
  BY ZenonT(30), <1>2, <1>4, AcquireInv
<1>5. CASE \E at \in 0 .. clock, l \in issued, outcome \in Outcomes : Settle(l, outcome, at)
  BY <1>2, <1>5, SettleInv
<1>6. CASE \E at \in 0 .. clock, l \in issued, outcome \in Outcomes,
              w \in Workers, e \in NodeEpochs : ApplyResult(l, w, e, outcome, at)
  BY ZenonT(30), <1>2, <1>6, ApplyResultInv
<1>7. CASE UNCHANGED vars
  BY ZenonT(30), <1>7 DEF vars, IInv, TypeOK, RecordsInv, IssuedInv, ReceiptsInv, OneLeasePerAttempt,
       OneOutcomePerAttempt, ReceiptsStand, Stands, MaxAttempts
<1> QED
  BY ZenonT(30), <1>1, <1>3, <1>4, <1>5, <1>6, <1>7 DEF Next

\* The strengthened invariant holds in every reachable state of the book.
THEOREM Invariance == Spec => []IInv
<1> QED
  BY InitInv, NextInv, PTL DEF Spec

\* Every record, lease and receipt keeps its type, and no expiry overflows.
THEOREM TypeCorrect == Spec => []TypeOK
<1>1. IInv => TypeOK
  BY DEF IInv
<1> QED
  BY <1>1, Invariance, PTL

\* A job is lent at most once for each attempt of its retry budget.
THEOREM LentOncePerAttempt == Spec => []OneLeasePerAttempt
<1>1. IInv => OneLeasePerAttempt
  BY DEF IInv
<1> QED
  BY <1>1, Invariance, PTL

\* An attempt ends at most once, however often reports and sweeps are repeated.
THEOREM EndedOncePerAttempt == Spec => []OneOutcomePerAttempt
<1>1. IInv => OneOutcomePerAttempt
  BY DEF IInv
<1> QED
  BY <1>1, Invariance, PTL

\* No later transition of the book contradicts a receipt it has returned.
THEOREM ReceiptsAreFinal == Spec => []ReceiptsStand
<1>1. IInv => ReceiptsStand
  BY DEF IInv
<1> QED
  BY <1>1, Invariance, PTL

\* A job that succeeded, failed or was cancelled stays that way.
THEOREM TerminalIsForever == Spec => TerminalForever
<1> DEFINE P == \A j \in Jobs : state[j] \in Terminal => state'[j] = state[j]
<1>1. ASSUME IInv, Next PROVE P
  <2> SUFFICES ASSUME NEW k \in Jobs, state[k] \in Terminal PROVE state'[k] = state[k]
    OBVIOUS
  <2> USE DEF Terminal
  <2>0. state \in [Jobs -> States] /\ \A l \in issued : l.job \in Jobs
    BY <1>1 DEF IInv, TypeOK, Leases
  <2>1. CASE Tick
    BY <2>1 DEF Tick
  <2>2. CASE \E at \in 0 .. clock : Expire(at)
    BY ZenonT(30), <2>0, <2>2 DEF Expire, ExpiredAt
  <2>3. CASE \E at \in 0 .. clock, j \in Jobs, w \in Workers, e \in NodeEpochs, ttl \in Times :
               Acquire(j, w, e, at, ttl)
    BY <2>0, <2>3 DEF Acquire, AcquirePending, AcquireAgain, AcquireExpired, Lend
  <2>4. CASE \E at \in 0 .. clock, l \in issued, outcome \in Outcomes : Settle(l, outcome, at)
    BY ZenonT(30), <2>0, <2>4 DEF Settle, ActiveRecord, Close
  <2>5. CASE \E at \in 0 .. clock, l \in issued, outcome \in Outcomes,
                w \in Workers, e \in NodeEpochs : ApplyResult(l, w, e, outcome, at)
    BY ZenonT(30), <2>0, <2>5 DEF ApplyResult, Close
  <2> QED
    BY ZenonT(30), <1>1, <2>1, <2>2, <2>3, <2>4, <2>5 DEF Next
<1>2. ASSUME IInv, [Next]_vars PROVE [P]_vars
  BY <1>1, <1>2
<1> QED
  BY <1>2, Invariance, PTL DEF Spec, TerminalForever

\* No worker takes over a lease whose expiry the clock has not reached.
THEOREM LiveLeaseIsNotTakenOver == Spec => NoTakeoverOfLiveLease
<1> DEFINE P == \A j \in Jobs :
                  /\ state[j] = "Leased"
                  /\ state'[j] = "Leased"
                  /\ lease'[j] # lease[j]
                  => lease[j].expires <= clock
<1>1. ASSUME IInv, Next PROVE P
  <2> SUFFICES ASSUME NEW k \in Jobs, state[k] = "Leased", state'[k] = "Leased",
                      lease'[k] # lease[k]
               PROVE  lease[k].expires <= clock
    BY ZenonT(30)
  <2>0. /\ state \in [Jobs -> States] /\ lease \in [Jobs -> Leases \cup {NoLease}]
        /\ clock \in Nat
        /\ \A j \in Jobs : attempt[j] \in Nat /\ attempt[j] <= MaxAttempts(j)
        /\ \A l \in issued : l.job \in Jobs
        /\ lease[k].expires \in Nat
    BY <1>1, MaxEpochAssumption DEF IInv, TypeOK, Leases, Times, RecordsInv
  <2>1. CASE Tick
    BY <2>1 DEF Tick
  <2>2. CASE \E at \in 0 .. clock : Expire(at)
    <3>1. PICK at \in 0 .. clock : Expire(at)
      BY ZenonT(30), <2>2
    <3>2. CASE k \in ExpiredAt(at)
      BY <2>0, <3>2 DEF ExpiredAt
    <3>3. CASE k \notin ExpiredAt(at)
      BY ZenonT(30), <3>1, <3>3 DEF Expire
    <3> QED
      BY <3>2, <3>3
  <2>3. CASE \E at \in 0 .. clock, j \in Jobs, w \in Workers, e \in NodeEpochs, ttl \in Times :
               Acquire(j, w, e, at, ttl)
    BY <2>0, <2>3 DEF Acquire, AcquirePending, AcquireAgain, AcquireExpired, Lend, Lapsed
  <2>4. CASE \E at \in 0 .. clock, l \in issued, outcome \in Outcomes : Settle(l, outcome, at)
    <3>1. PICK at \in 0 .. clock, l \in issued, outcome \in Outcomes : Settle(l, outcome, at)
      BY <2>4
    <3>2. Left(l.job, attempt[l.job], AfterOutcome(l.job, attempt[l.job], outcome))
      BY ZenonT(30), <2>0, AfterOutcomeLeft
    <3> QED
      BY ZenonT(30), <2>0, <3>1, <3>2 DEF Settle, Close, Left
  <2>5. CASE \E at \in 0 .. clock, l \in issued, outcome \in Outcomes,
                w \in Workers, e \in NodeEpochs : ApplyResult(l, w, e, outcome, at)
    <3>1. PICK at \in 0 .. clock, l \in issued, outcome \in Outcomes,
                w \in Workers, e \in NodeEpochs : ApplyResult(l, w, e, outcome, at)
      BY <2>5
    <3>2. Left(l.job, attempt[l.job], AfterOutcome(l.job, attempt[l.job], outcome))
      BY ZenonT(30), <2>0, AfterOutcomeLeft
    <3> QED
      BY ZenonT(30), <2>0, <3>1, <3>2 DEF ApplyResult, Close, Left
  <2> QED
    BY ZenonT(30), <1>1, <2>1, <2>2, <2>3, <2>4, <2>5 DEF Next
<1>2. ASSUME IInv, [Next]_vars PROVE [P]_vars
  BY ZenonT(30), <1>1, <1>2
<1> QED
  BY <1>2, Invariance, PTL DEF Spec, NoTakeoverOfLiveLease
=============================================================================
