---------------------- MODULE RepositoryLifecycleProofs ----------------------
(***************************************************************************)
(* Proofs about the lifecycle of repositories, for any slugs, UUIDs, keys  *)
(* and handlers.                                                           *)
(*                                                                         *)
(* The inductive invariant says which receipt, row, journal entry and      *)
(* directory belong together between any two steps of the handlers: a      *)
(* handler that runs has a receipt of its own UUID, the authority lock     *)
(* covers a creation from its row to its completion (GuardedCreation), a   *)
(* UUID stands under one slug at most, and the directory of a repository   *)
(* follows it through creation and transfer (StorageFollows).              *)
(***************************************************************************)
EXTENDS RepositoryLifecycle, TLAPS

\* A handler that has begun has its receipt; receipts do not share a UUID.
ReceiptsNameCreations ==
  /\ \A k \in Keys : creator[k] # "idle" => receipt[k] # None
  /\ \A j, k \in Keys :
       receipt[j] # None /\ receipt[k] # None /\ Id(j) = Id(k) => j = k

\* The authority lock is held from the registration to the completion, and
\* meanwhile the repository stays where the request registered it.
GuardedCreation ==
  \A k \in Keys :
    creator[k] \in {"materialize", "complete"} => guard = k /\ repos[Wanted[k]] = Id(k)

CompletedFirst ==
  \A k \in Keys :
    \/ creator[k] \in {"resume", "finish"}
    \/ receipt[k] # None /\ receipt[k].done
    => creation[Id(k)] = "done"

CatalogIsInjective ==
  /\ \A n \in Names : repos[n] # None => creation[repos[n]] # "none"
  /\ \A n, m \in Names : repos[n] # None /\ repos[n] = repos[m] => n = m

\* The repository has its directory at its slug, unless a deletion took it.
At(i, n) == dir[n] = i \/ n \in cleared

Moved(i) == transfer[i].status = "prepared" /\ transfer[i].moved

StorageFollows ==
  /\ \A i \in Ids :
       transfer[i].status = "prepared" => repos[transfer[i].source] = i
  /\ \A i \in Ids : Moved(i) => At(i, transfer[i].destination)
  /\ \A n \in Names :
       repos[n] # None /\ creation[repos[n]] = "done" /\ ~Moved(repos[n]) => At(repos[n], n)
  /\ \A k \in Keys :
       creator[k] = "complete" /\ ~Moved(Id(k)) => At(Id(k), Wanted[k])

IInv ==
  /\ TypeOK
  /\ ReceiptsNameCreations
  /\ GuardedCreation
  /\ CompletedFirst
  /\ CatalogIsInjective
  /\ StorageFollows

\* The empty instance satisfies the inductive invariant.
LEMMA InitInv == Init => IInv
<1> SUFFICES ASSUME Init PROVE IInv
  OBVIOUS
<1>1. TypeOK
  BY ZenonT(30) DEF Init, TypeOK, Receipts, Places, Transfers, Deletions
<1>2. ReceiptsNameCreations /\ GuardedCreation /\ CompletedFirst /\ CatalogIsInjective
  BY DEF Init, ReceiptsNameCreations, GuardedCreation, CompletedFirst,
         CatalogIsInjective
<1>3. StorageFollows
  BY DEF Init, StorageFollows, Moved, NoTransfer
<1> QED
  BY <1>1, <1>2, <1>3 DEF IInv

\* The start or the retry of a request preserves the invariant: a new receipt
\* has a UUID of its own.
LEMMA BeginInv ==
  ASSUME IInv, NEW k \in Keys, Begin(k)
  PROVE  IInv'
<1> USE DEF IInv, state
<1>0. PICK r \in Receipts :
        /\ receipt' = [receipt EXCEPT ![k] = r]
        /\ receipt[k] = None => ~r.done /\ \A j \in Keys : receipt[j] # None => receipt[j].id # r.id
        /\ receipt[k] # None => r = receipt[k]
        /\ ~r.done /\ r.id \in Ids /\ r # None
        /\ creator[k] = "idle" /\ creator' = [creator EXCEPT ![k] = "receipt"]
  <2> USE NoneAssumption DEF Begin, Go
  <2>1. CASE receipt[k] = None
    <3>1. PICK i \in Ids : /\ \A j \in Keys : receipt[j] # None => receipt[j].id # i
                           /\ receipt' = [receipt EXCEPT ![k] = [id |-> i, done |-> FALSE]]
      BY <2>1
    <3> DEFINE r == [id |-> i, done |-> FALSE]
    <3>2. r \in Receipts /\ r.id = i /\ ~r.done
      BY DEF Receipts
    <3> QED
      BY ZenonT(30), <2>1, <3>1, <3>2 DEF Receipts
  <2>2. CASE receipt[k] # None
    <3>1. receipt[k] \in Receipts /\ receipt' = [receipt EXCEPT ![k] = receipt[k]] /\ ~receipt[k].done
      BY ZenonT(30), <2>2 DEF TypeOK
    <3> QED
      BY ZenonT(30), <2>2, <3>1 DEF Receipts
  <2> QED
    BY ZenonT(30), <2>1, <2>2
<1>1. TypeOK'
  BY ZenonT(30), <1>0 DEF Begin, TypeOK, Places
<1>2. ReceiptsNameCreations'
  BY <1>0 DEF TypeOK, ReceiptsNameCreations, Id
<1>3. CompletedFirst' /\ GuardedCreation'
  BY ZenonT(30), <1>0 DEF Begin, TypeOK, GuardedCreation, CompletedFirst, Id
<1>4. CatalogIsInjective'
  BY ZenonT(30) DEF Begin, CatalogIsInjective
<1>5. StorageFollows'
  BY ZenonT(30), <1>0 DEF Begin, TypeOK, StorageFollows, Moved, At, Id
<1> QED
  BY <1>1, <1>2, <1>3, <1>4, <1>5

\* The handler's look at the catalog and the directory changes nothing else.
LEMMA CheckInv ==
  ASSUME IInv, NEW k \in Keys, Check(k)
  PROVE  IInv'
<1> USE DEF IInv, Check, Go, durable, Id
<1>1. TypeOK'
  BY ZenonT(30) DEF TypeOK, Places
<1>2. ReceiptsNameCreations' /\ CompletedFirst' /\ GuardedCreation'
  BY ZenonT(30) DEF TypeOK, ReceiptsNameCreations, GuardedCreation, CompletedFirst
<1>3. CatalogIsInjective'
  BY DEF CatalogIsInjective
<1>4. StorageFollows'
  BY ZenonT(30) DEF TypeOK, StorageFollows, Moved, At
<1> QED
  BY <1>1, <1>2, <1>3, <1>4

\* The row and the journal entry, committed together under the lock, preserve
\* the invariant.
LEMMA CoreRegisterInv ==
  ASSUME IInv, NEW k \in Keys, CoreRegister(k)
  PROVE  IInv'
<1> DEFINE n == Wanted[k]
<1> USE NoneAssumption, WantedAssumption DEF IInv, CoreRegister, Id
<1>0. /\ n \in Names /\ receipt[k] \in Receipts /\ receipt[k].id \in Ids
      /\ guard = None /\ k # None
      /\ \A j \in Keys : creator[j] \notin {"materialize", "complete"}
  BY DEF TypeOK, Receipts, ReceiptsNameCreations, GuardedCreation
<1>1. CASE creation[Id(k)] # "none" /\ repos[n] = Id(k)
  <2>1. /\ Go(k, IF creation[Id(k)] = "done" THEN "resume" ELSE "materialize")
        /\ guard' = IF creation[Id(k)] = "done" THEN None ELSE k
        /\ UNCHANGED <<repos, creation>>
    BY ZenonT(30), <1>0, <1>1 DEF Register
  <2>2. TypeOK'
    BY ZenonT(30), <1>0, <2>1 DEF TypeOK, Places, Go
  <2>3. ReceiptsNameCreations' /\ CompletedFirst' /\ GuardedCreation'
    BY ZenonT(30), <1>0, <1>1, <2>1 DEF TypeOK, ReceiptsNameCreations, GuardedCreation,
                            CompletedFirst, Go
  <2>4. CatalogIsInjective'
    BY ZenonT(30), <2>1 DEF CatalogIsInjective
  <2>5. StorageFollows'
    BY ZenonT(30), <1>0, <2>1 DEF TypeOK, StorageFollows, Moved, At, Go
  <2> QED
    BY <2>2, <2>3, <2>4, <2>5
<1>2. CASE creation[Id(k)] = "none" /\ repos[n] = None /\ ~barrier
  <2>1. /\ repos' = [repos EXCEPT ![n] = Id(k)]
        /\ creation' = [creation EXCEPT ![Id(k)] = "pending"]
        /\ Go(k, "materialize")
        /\ guard' = k
    BY ZenonT(30), <1>0, <1>2 DEF Register
  <2>2. TypeOK'
    BY ZenonT(30), <1>0, <2>1 DEF TypeOK, Places, Go
  <2>3. ReceiptsNameCreations' /\ CompletedFirst' /\ GuardedCreation'
    BY <1>0, <1>2, <2>1 DEF TypeOK, Receipts, ReceiptsNameCreations,
                            GuardedCreation, CompletedFirst, Go
  <2>4. CatalogIsInjective'
    BY ZenonT(30), <1>0, <1>2, <2>1 DEF TypeOK, CatalogIsInjective
  <2>5. StorageFollows'
    BY <1>0, <1>2, <2>1 DEF TypeOK, StorageFollows, Moved, At, Go, Transfers, NoTransfer
  <2> QED
    BY <2>2, <2>3, <2>4, <2>5
<1>3. CASE Go(k, "idle") /\ UNCHANGED <<repos, creation, guard>>
  <2>2. TypeOK'
    BY ZenonT(30), <1>3 DEF TypeOK, Places, Go
  <2>3. ReceiptsNameCreations' /\ CompletedFirst' /\ GuardedCreation'
    BY ZenonT(30), <1>3, <1>0 DEF TypeOK, ReceiptsNameCreations, GuardedCreation,
                      CompletedFirst, Go
  <2>4. CatalogIsInjective'
    BY <1>3 DEF CatalogIsInjective
  <2>5. StorageFollows'
    BY ZenonT(30), <1>0, <1>3 DEF TypeOK, StorageFollows, Moved, At, Go
  <2> QED
    BY <2>2, <2>3, <2>4, <2>5
<1> QED
  BY ZenonT(30), <1>1, <1>2, <1>3 DEF Register

\* A directory that is published takes no other repository's place.
LEMMA PublishKeepsStorage ==
  ASSUME TypeOK, NEW n \in Names, NEW j \in Ids, Publish(n, j),
         NEW m \in Names, NEW i \in Ids, At(i, m), UNCHANGED cleared
  PROVE  At(i, m)'
BY NoneAssumption DEF TypeOK, Publish, At

\* What a step of the creation handler that publishes the directory keeps.
LEMMA PublishInv ==
  ASSUME IInv, NEW k \in Keys, creator[k] # "idle",
         Publish(Wanted[k], Id(k)),
         NEW place \in {"complete", "finish"}, Go(k, place),
         place = "complete" => creator[k] = "materialize",
         place = "finish" => creator[k] = "resume",
         UNCHANGED <<receipt, state, barrier, deleter, guard, cleared>>
  PROVE  IInv'
<1> USE WantedAssumption DEF IInv, state
<1>0. receipt[k] \in Receipts /\ receipt[k].id \in Ids /\ Id(k) \in Ids /\ Wanted[k] \in Names
  BY ZenonT(30) DEF TypeOK, Receipts, ReceiptsNameCreations, Id
<1>1. TypeOK'
  BY ZenonT(30), <1>0 DEF TypeOK, Places, Go, Publish
<1>2. ReceiptsNameCreations' /\ CompletedFirst' /\ GuardedCreation'
  BY ZenonT(30), <1>0 DEF TypeOK, ReceiptsNameCreations, GuardedCreation, CompletedFirst, Go, Id
<1>3. CatalogIsInjective'
  BY DEF CatalogIsInjective
<1>4. \A m \in Names, i \in Ids : At(i, m) => At(i, m)'
  BY <1>0, PublishKeepsStorage
<1>5. \A i \in Ids : Moved(i)' = Moved(i) /\ (Moved(i) => transfer[i].destination \in Names)
  BY DEF Moved, TypeOK, Transfers, NoTransfer
<1>6. At(Id(k), Wanted[k])'
  BY ZenonT(30), <1>0 DEF TypeOK, Publish, At, Id
<1>7. ASSUME NEW j \in Keys, creator'[j] = "complete", ~Moved(Id(j))'
      PROVE  At(Id(j), Wanted[j])'
  <2>1. CASE j = k
    BY <2>1, <1>6
  <2>2. CASE j # k
    <3>1. creator[j] = "complete" /\ Id(j) \in Ids /\ Id(j)' = Id(j) /\ ~Moved(Id(j))
      BY ZenonT(30), <2>2, <1>7, <1>5 DEF Go, TypeOK, ReceiptsNameCreations, Receipts, Id, Moved
    <3>2. At(Id(j), Wanted[j])
      BY ZenonT(30), <3>1 DEF StorageFollows
    <3> QED
      BY <3>1, <3>2, <1>4
  <2> QED
    BY <2>1, <2>2
<1>8. \A n \in Names : repos[n] # None => repos[n] \in Ids
  BY DEF TypeOK
<1>9. StorageFollows'
  BY ZenonT(30), <1>4, <1>5, <1>7, <1>8 DEF StorageFollows
<1> QED
  BY <1>1, <1>2, <1>3, <1>9

\* The publication under the lock preserves the invariant: it replaces no
\* directory.
LEMMA MaterializeInv ==
  ASSUME IInv, NEW k \in Keys, Materialize(k) \/ Resume(k)
  PROVE  IInv'
BY PublishInv DEF Materialize, Resume

\* The completion preserves the invariant: the lock was held since the row
\* was written, so the directory is still the one just published or a
\* deletion has taken it.
LEMMA CoreCompleteInv ==
  ASSUME IInv, NEW k \in Keys, CoreComplete(k)
  PROVE  IInv'
<1> USE NoneAssumption, WantedAssumption DEF IInv, CoreComplete, Complete
<1>0. /\ receipt[k] \in Receipts /\ Id(k) \in Ids /\ Wanted[k] \in Names
      /\ guard = k /\ repos[Wanted[k]] = Id(k)
      /\ \A j \in Keys : creator[j] = "complete" => j = k
  BY DEF TypeOK, Receipts, ReceiptsNameCreations, GuardedCreation, Id
<1>1. TypeOK'
  BY ZenonT(30), <1>0 DEF TypeOK, Places, Go
<1>2. ReceiptsNameCreations' /\ GuardedCreation'
  BY ZenonT(30), <1>0 DEF TypeOK, ReceiptsNameCreations, GuardedCreation, Go, Id
<1>3. CompletedFirst'
  BY <1>0 DEF TypeOK, CompletedFirst, Go, Id
<1>4. CatalogIsInjective'
  BY ZenonT(30), <1>0 DEF TypeOK, CatalogIsInjective
<1>5. StorageFollows'
  <2>1. \A n \in Names : repos[n] # None /\ repos[n] # Id(k) => creation'[repos[n]] = creation[repos[n]]
    BY ZenonT(30), <1>0 DEF TypeOK
  <2>2. \A n \in Names : repos[n] = Id(k) => n = Wanted[k]
    BY <1>0 DEF CatalogIsInjective
  <2>3. \A j \in Keys : creator'[j] # "complete"
    BY ZenonT(30), <1>0 DEF TypeOK, Go
  <2>4. ~Moved(Id(k)) => At(Id(k), Wanted[k])
    BY DEF StorageFollows
  <2> QED
    BY ZenonT(30), <2>1, <2>2, <2>3, <2>4 DEF StorageFollows, Moved, At
<1> QED
  BY <1>1, <1>2, <1>3, <1>4, <1>5

\* The completed receipt preserves the invariant.
LEMMA FinishInv ==
  ASSUME IInv, NEW k \in Keys, Finish(k)
  PROVE  IInv'
<1> USE NoneAssumption DEF IInv
<1> DEFINE r == [receipt[k] EXCEPT !.done = TRUE]
<1>0. /\ receipt' = [receipt EXCEPT ![k] = r] /\ creator' = [creator EXCEPT ![k] = "idle"]
      /\ UNCHANGED <<repos, creation, transfer, aliases, dir, barrier, deleter, guard, cleared>>
  BY DEF Finish, Go, state, TypeOK
<1>1. receipt[k] \in Receipts /\ receipt[k] # None /\ creation[Id(k)] = "done"
  BY DEF Finish, TypeOK, ReceiptsNameCreations, CompletedFirst
<1>2. r \in Receipts /\ r.id = receipt[k].id
  BY ZenonT(30), <1>1 DEF Receipts
<1>3. r # None
  BY ZenonT(30), <1>2 DEF Receipts
<1> HIDE DEF r
<1>4. receipt' \in [Keys -> Receipts \cup {None}] /\ creator' \in [Keys -> Places]
  BY ZenonT(30), <1>0, <1>2 DEF TypeOK, Places
<1>5. TypeOK'
  BY ZenonT(30), <1>0, <1>4 DEF TypeOK
<1>6. \A j \in Keys : /\ Id(j)' = Id(j) /\ (receipt'[j] # None <=> receipt[j] # None)
                      /\ j # k => receipt'[j] = receipt[j] /\ creator'[j] = creator[j]
                      /\ creator'[k] = "idle"
  BY ZenonT(30), <1>0, <1>1, <1>2, <1>3 DEF TypeOK, Id
<1>7. ReceiptsNameCreations' /\ GuardedCreation'
  BY <1>0, <1>6 DEF ReceiptsNameCreations, GuardedCreation
<1>8. CompletedFirst'
  BY <1>0, <1>1, <1>6 DEF CompletedFirst
<1>9. CatalogIsInjective'
  BY <1>0 DEF CatalogIsInjective
<1>10. StorageFollows'
  BY ZenonT(30), <1>0, <1>6 DEF StorageFollows, Moved, At
<1> QED
  BY <1>5, <1>7, <1>8, <1>9, <1>10

\* An error at any step preserves the invariant.
LEMMA FailInv ==
  ASSUME IInv, NEW k \in Keys, Fail(k)
  PROVE  IInv'
<1> USE DEF IInv, Fail, Go, durable, Id
<1>1. TypeOK'
  BY DEF TypeOK, Places
<1>2. ReceiptsNameCreations' /\ CompletedFirst' /\ GuardedCreation'
  BY ZenonT(30) DEF TypeOK, ReceiptsNameCreations, GuardedCreation, CompletedFirst
<1>3. CatalogIsInjective'
  BY DEF CatalogIsInjective
<1>4. StorageFollows'
  BY ZenonT(30) DEF TypeOK, StorageFollows, Moved, At
<1> QED
  BY <1>1, <1>2, <1>3, <1>4

\* A deletion's lookup and audit entry preserve the invariant.
LEMMA RequestInv ==
  ASSUME IInv, NEW d \in Deleters, NEW n \in Names, NEW storage \in DeleteStorage,
         Request(d, n, storage)
  PROVE  IInv'
<1> USE DEF IInv, Request, durable, Id
<1>1. TypeOK'
  BY ZenonT(30), DeleteStorageAssumption DEF TypeOK, Deletions
<1>2. ReceiptsNameCreations' /\ CompletedFirst' /\ GuardedCreation' /\ CatalogIsInjective'
  BY ZenonT(30) DEF ReceiptsNameCreations, GuardedCreation, CompletedFirst, CatalogIsInjective
<1>3. StorageFollows'
  BY ZenonT(30) DEF StorageFollows, Moved, At
<1> QED
  BY <1>1, <1>2, <1>3

\* The deletion of the row preserves the invariant.
LEMMA CoreDeleteInv ==
  ASSUME IInv, NEW d \in Deleters, CoreDelete(d)
  PROVE  IInv'
<1> DEFINE n == deleter[d].name
<1> USE NoneAssumption DEF IInv, CoreDelete
<1>0. /\ n \in Names /\ guard = None
      /\ \A j \in Keys : creator[j] \notin {"materialize", "complete"}
  BY DEF TypeOK, Deletions, Idle, GuardedCreation
<1>1. CASE Deletable(n) /\ repos' = [repos EXCEPT ![n] = None]
  <2>1. TypeOK'
    BY <1>0, <1>1 DEF TypeOK, Deletions
  <2>2. ReceiptsNameCreations' /\ CompletedFirst' /\ GuardedCreation'
    BY ZenonT(30), <1>0 DEF ReceiptsNameCreations, GuardedCreation, CompletedFirst, Id
  <2>3. CatalogIsInjective'
    BY ZenonT(30), <1>0, <1>1 DEF TypeOK, CatalogIsInjective
  <2>4. StorageFollows'
    <3>1. ASSUME NEW i \in Ids, transfer[i].status = "prepared"
          PROVE  repos'[transfer[i].source] = i
      BY ZenonT(30), <1>0, <1>1, <3>1 DEF TypeOK, StorageFollows, Deletable, Transfers, NoTransfer
    <3>2. \A m \in Names : repos'[m] # None => repos'[m] = repos[m]
      BY ZenonT(30), <1>0, <1>1 DEF TypeOK
    <3> QED
      BY ZenonT(30), <1>0, <3>1, <3>2 DEF StorageFollows, Moved, At
  <2> QED
    BY ZenonT(30), <2>1, <2>2, <2>3, <2>4
<1>2. CASE deleter' = [deleter EXCEPT ![d] = Idle] /\ UNCHANGED repos
  <2>1. TypeOK'
    BY ZenonT(30), <1>2 DEF TypeOK, Deletions
  <2>2. ReceiptsNameCreations' /\ CompletedFirst' /\ GuardedCreation' /\ CatalogIsInjective'
    BY ZenonT(30), <1>2 DEF ReceiptsNameCreations, GuardedCreation, CompletedFirst, CatalogIsInjective, Id
  <2>3. StorageFollows'
    BY ZenonT(30), <1>2 DEF StorageFollows, Moved, At, Id
  <2> QED
    BY ZenonT(30), <2>1, <2>2, <2>3
<1> QED
  BY ZenonT(30), <1>1, <1>2

\* The removal of the directory preserves the invariant: a directory of a
\* listed repository is recorded in cleared, any other is nobody's.
LEMMA RemoveStorageInv ==
  ASSUME IInv, NEW d \in Deleters, RemoveStorage(d)
  PROVE  IInv'
<1> DEFINE n == deleter[d].name
<1> USE NoneAssumption, WantedAssumption DEF IInv, RemoveStorage, state
<1>0. n \in Names
  BY DEF TypeOK, Deletions, Idle
<1>1. TypeOK'
  BY ZenonT(30), <1>0 DEF TypeOK, Deletions
<1>2. ReceiptsNameCreations' /\ CompletedFirst' /\ GuardedCreation' /\ CatalogIsInjective'
  BY ZenonT(30) DEF ReceiptsNameCreations, GuardedCreation, CompletedFirst, CatalogIsInjective, Id
<1>3. ASSUME NEW i \in Ids, NEW s \in Names, repos[s] = i, NEW m \in Names, At(i, m)
      PROVE  At(i, m)'
  BY ZenonT(30), <1>0, <1>3 DEF TypeOK, Registered, At
<1>4. ASSUME NEW i \in Ids, Moved(i)
      PROVE  At(i, transfer[i].destination)'
  <2>1. repos[transfer[i].source] = i /\ transfer[i].source \in Names
        /\ transfer[i].destination \in Names /\ At(i, transfer[i].destination)
    BY <1>4 DEF TypeOK, Moved, StorageFollows, Transfers, NoTransfer
  <2> QED
    BY ZenonT(30), <2>1, <1>3
<1>5. ASSUME NEW k \in Keys, creator[k] = "complete", ~Moved(Id(k))
      PROVE  At(Id(k), Wanted[k])'
  <2>1. Id(k) \in Ids /\ repos[Wanted[k]] = Id(k) /\ At(Id(k), Wanted[k]) /\ UNCHANGED Id(k)
    BY ZenonT(30), <1>5 DEF TypeOK, Receipts, ReceiptsNameCreations, GuardedCreation,
                StorageFollows, Id
  <2> QED
    BY ZenonT(30), <2>1, <1>3
<1>6. ASSUME NEW m \in Names, repos[m] # None, creation[repos[m]] = "done", ~Moved(repos[m])
      PROVE  At(repos[m], m)'
  <2>1. repos[m] \in Ids /\ At(repos[m], m) /\ UNCHANGED repos[m]
    BY ZenonT(30), <1>6 DEF TypeOK, StorageFollows
  <2> QED
    BY ZenonT(30), <2>1, <1>3
<1>7. StorageFollows'
  BY ZenonT(30), <1>4, <1>5, <1>6 DEF StorageFollows, Moved, Id
<1> QED
  BY ZenonT(30), <1>1, <1>2, <1>7

\* The ends of a transfer that is under way, and what Core knows of it.
LEMMA PreparedTransfer ==
  ASSUME IInv, NEW i \in Ids, transfer[i].status = "prepared"
  PROVE  /\ transfer[i] \in [status : {"prepared", "committed", "failed"},
                             source : Names, destination : Names, moved : BOOLEAN]
         /\ transfer[i].source \in Names /\ transfer[i].destination \in Names
         /\ transfer[i].moved \in BOOLEAN
         /\ repos[transfer[i].source] = i
BY DEF IInv, TypeOK, StorageFollows, Transfers, NoTransfer

\* The journal of a transfer preserves the invariant.
LEMMA PrepareInv ==
  ASSUME IInv, NEW i \in Ids, NEW n \in Names, NEW m \in Names, Prepare(i, n, m)
  PROVE  IInv'
<1> USE DEF IInv, Prepare, Id
<1>1. TypeOK'
  BY ZenonT(30) DEF TypeOK, Transfers
<1>2. ReceiptsNameCreations' /\ CompletedFirst' /\ GuardedCreation' /\ CatalogIsInjective'
  BY ZenonT(30) DEF ReceiptsNameCreations, GuardedCreation, CompletedFirst, CatalogIsInjective
<1>3. \A j \in Ids : j # i => transfer'[j] = transfer[j]
  BY ZenonT(30) DEF TypeOK
<1>4. /\ transfer'[i] = [status |-> "prepared", source |-> n, destination |-> m, moved |-> FALSE]
      /\ ~Moved(i) /\ ~Moved(i)'
  BY ZenonT(30) DEF TypeOK, Moved
<1>5. \A j \in Ids : Moved(j)' <=> Moved(j)
  BY ZenonT(30), <1>3, <1>4 DEF Moved
<1>6. \A k \in Keys : creator[k] # "idle" => receipt[k].id \in Ids
  BY ZenonT(30) DEF TypeOK, ReceiptsNameCreations, Receipts
<1>7. \A s \in Names : repos[s] # None => repos[s] \in Ids
  BY ZenonT(30) DEF TypeOK
<1>8. StorageFollows'
  BY <1>3, <1>4, <1>5, <1>6, <1>7 DEF StorageFollows, At
<1> QED
  BY ZenonT(30), <1>1, <1>2, <1>8

\* The rename of the directory, and its rollback, preserve the invariant.
LEMMA MoveStorageInv ==
  ASSUME IInv, NEW i \in Ids, MoveStorage(i)
  PROVE  IInv'
<1> DEFINE t == transfer[i]
           from == IF t.moved THEN t.destination ELSE t.source
           to == IF t.moved THEN t.source ELSE t.destination
<1> USE NoneAssumption, WantedAssumption DEF IInv
<1>0. /\ t \in [status : {"prepared", "committed", "failed"},
                source : Names, destination : Names, moved : BOOLEAN]
      /\ t.status = "prepared" /\ t.source \in Names /\ t.destination \in Names
      /\ t.moved \in BOOLEAN /\ repos[t.source] = i
  BY ZenonT(30), PreparedTransfer DEF MoveStorage
<1>1. /\ from \in Names /\ to \in Names /\ from # to
      /\ dir[from] = i /\ dir[to] = None
      /\ dir' = [dir EXCEPT ![from] = None, ![to] = i]
      /\ dir'[to] = i /\ UNCHANGED cleared
      /\ \A n \in Names : n \notin {from, to} => dir'[n] = dir[n]
  BY ZenonT(30), <1>0 DEF MoveStorage, TypeOK
<1>2. /\ transfer'[i] = [t EXCEPT !.moved = ~@]
      /\ transfer'[i].status = "prepared" /\ transfer'[i].moved = ~t.moved
      /\ transfer'[i].source = t.source /\ transfer'[i].destination = t.destination
      /\ \A j \in Ids : j # i => transfer'[j] = transfer[j]
  BY ZenonT(30), <1>0 DEF MoveStorage, TypeOK
<1>3. TypeOK'
  <2>1. dir' \in [Names -> Ids \cup {None}]
    BY ZenonT(30), <1>1 DEF TypeOK
  <2>2. transfer' \in [Ids -> Transfers]
    <3>1. [t EXCEPT !.moved = ~@] \in Transfers
      BY ZenonT(30), <1>0 DEF Transfers
    <3> QED
      BY ZenonT(30), <3>1, <1>2 DEF TypeOK, MoveStorage
  <2> QED
    BY ZenonT(30), <2>1, <2>2 DEF TypeOK, MoveStorage
<1>4. ReceiptsNameCreations' /\ CompletedFirst' /\ GuardedCreation' /\ CatalogIsInjective'
  BY ZenonT(30) DEF ReceiptsNameCreations, GuardedCreation, CompletedFirst, CatalogIsInjective,
         MoveStorage, Id
<1>5. \A j \in Ids, n \in Names : j # i /\ At(j, n) => At(j, n)'
  BY ZenonT(30), <1>1 DEF At
<1>6. ~t.moved => Moved(i)' /\ dir'[t.destination] = i
  BY ZenonT(30), <1>0, <1>1, <1>2 DEF Moved
<1>7. t.moved => ~Moved(i)' /\ dir'[t.source] = i
  BY ZenonT(30), <1>0, <1>1, <1>2 DEF Moved
<1>8. \A j \in Ids : j # i => (Moved(j)' <=> Moved(j))
  BY <1>2 DEF Moved
<1>9. \A n \in Names : repos[n] # None => repos[n] \in Ids /\ (repos[n] = i => n = t.source)
  BY ZenonT(30), <1>0 DEF TypeOK, CatalogIsInjective
<1>10. \A k \in Keys : creator[k] = "complete" => Id(k) \in Ids /\ repos[Wanted[k]] = Id(k)
  BY DEF TypeOK, ReceiptsNameCreations, GuardedCreation, Receipts, Id
<1>11. \A j \in Ids : transfer'[j].status = "prepared" => repos'[transfer'[j].source] = j
  BY <1>0, <1>2 DEF StorageFollows, MoveStorage
<1>12. ASSUME NEW j \in Ids, Moved(j)'
       PROVE  At(j, transfer[j].destination)' /\ transfer'[j].destination = transfer[j].destination
  <2>1. CASE j = i
    BY ZenonT(30), <2>1, <1>0, <1>2, <1>6, <1>7, <1>12 DEF Moved, At
  <2>2. CASE j # i
    <3>1. Moved(j) /\ transfer[j].status = "prepared"
      BY <2>2, <1>8, <1>12 DEF Moved
    <3>2. At(j, transfer[j].destination) /\ transfer[j].destination \in Names
      BY ZenonT(30), <3>1, PreparedTransfer DEF StorageFollows
    <3>3. At(j, transfer[j].destination)'
      BY ZenonT(30), <2>2, <3>2, <1>2, <1>5 DEF At
    <3> QED
      BY <2>2, <3>3, <1>2
  <2> QED
    BY <2>1, <2>2
<1>13. ASSUME NEW n \in Names, repos[n] # None, creation[repos[n]] = "done", ~Moved(repos[n])'
       PROVE  At(repos[n], n)'
  <2>1. UNCHANGED repos[n] /\ repos[n] \in Ids
    BY ZenonT(30), <1>9, <1>13 DEF MoveStorage
  <2>2. CASE repos[n] = i
    <3>1. n = t.source /\ ~Moved(i)'
      BY <2>1, <2>2, <1>9, <1>13
    <3> QED
      BY ZenonT(30), <2>1, <2>2, <3>1, <1>0, <1>6, <1>7 DEF At
  <2>3. CASE repos[n] # i
    <3>1. ~Moved(repos[n])
      BY <2>1, <2>3, <1>8, <1>13
    <3>2. At(repos[n], n)
      BY ZenonT(30), <3>1, <1>13 DEF StorageFollows
    <3> QED
      BY <2>1, <2>3, <3>2, <1>5
  <2> QED
    BY <2>2, <2>3
<1>14. ASSUME NEW k \in Keys, creator[k] = "complete", ~Moved(Id(k))'
       PROVE  At(Id(k), Wanted[k])'
  <2>1. Id(k)' = Id(k) /\ Id(k) \in Ids /\ repos[Wanted[k]] = Id(k) /\ Wanted[k] \in Names
    BY ZenonT(30), <1>10, <1>14 DEF MoveStorage, Id
  <2>2. CASE Id(k) = i
    <3>1. Wanted[k] = t.source /\ ~Moved(i)'
      BY ZenonT(30), <2>1, <2>2, <1>9, <1>14
    <3> QED
      BY ZenonT(30), <2>1, <2>2, <3>1, <1>0, <1>6, <1>7 DEF At
  <2>3. CASE Id(k) # i
    <3>1. ~Moved(Id(k))
      BY <2>1, <2>3, <1>8, <1>14
    <3>2. At(Id(k), Wanted[k])
      BY ZenonT(30), <3>1, <1>14 DEF StorageFollows
    <3> QED
      BY <2>1, <2>3, <3>2, <1>5
  <2> QED
    BY <2>2, <2>3
<1>15. StorageFollows'
  BY ZenonT(30), <1>11, <1>12, <1>13, <1>14 DEF StorageFollows, MoveStorage, At, Moved
<1> QED
  BY <1>3, <1>4, <1>15

\* The commit of a transfer preserves the invariant: the repository's new
\* slug is where its directory was moved.
LEMMA CommitTransferInv ==
  ASSUME IInv, NEW i \in Ids, CommitTransfer(i)
  PROVE  IInv'
<1> DEFINE from == transfer[i].source
           to == transfer[i].destination
<1> USE NoneAssumption DEF IInv
<1>0. /\ transfer[i] \in [status : {"prepared", "committed", "failed"},
                          source : Names, destination : Names, moved : BOOLEAN]
      /\ from \in Names /\ to \in Names /\ from # to
      /\ repos[from] = i /\ repos[to] = None /\ Moved(i)
  BY PreparedTransfer DEF CommitTransfer, FreeSlug, Moved
<1>1. /\ repos' = [repos EXCEPT ![from] = None, ![to] = i]
      /\ repos'[from] = None /\ repos'[to] = i
      /\ \A n \in Names : n \notin {from, to} => repos'[n] = repos[n]
  BY ZenonT(30), <1>0 DEF CommitTransfer, TypeOK
<1>2. /\ transfer'[i] = [transfer[i] EXCEPT !.status = "committed"]
      /\ transfer'[i].status = "committed"
      /\ \A j \in Ids : j # i => transfer'[j] = transfer[j]
  BY ZenonT(30), <1>0 DEF CommitTransfer, TypeOK
<1>3. TypeOK'
  <2>1. repos' \in [Names -> Ids \cup {None}] /\ aliases' \in [Names -> Ids \cup {None}]
    BY <1>0, <1>1 DEF TypeOK, CommitTransfer
  <2>2. transfer' \in [Ids -> Transfers]
    <3>1. [transfer[i] EXCEPT !.status = "committed"] \in Transfers
      BY <1>0 DEF Transfers
    <3> QED
      BY ZenonT(30), <3>1, <1>2 DEF TypeOK, CommitTransfer
  <2> QED
    BY ZenonT(30), <2>1, <2>2 DEF TypeOK, CommitTransfer
<1>4. \A k \in Keys : creator[k] \notin {"materialize", "complete"}
  BY ZenonT(30) DEF CommitTransfer, GuardedCreation
<1>5. ReceiptsNameCreations' /\ CompletedFirst' /\ GuardedCreation'
  BY ZenonT(30), <1>4 DEF ReceiptsNameCreations, GuardedCreation, CompletedFirst, CommitTransfer, Id
<1>6. CatalogIsInjective'
  <2>1. ASSUME NEW n \in Names, repos'[n] # None, n # to
        PROVE  n # from /\ repos'[n] = repos[n] /\ repos[n] # i
    <3>1. n # from /\ repos'[n] = repos[n]
      BY ZenonT(30), <2>1, <1>1
    <3> QED
      BY ZenonT(30), <3>1, <1>0 DEF CatalogIsInjective
  <2>2. UNCHANGED creation /\ creation[i] # "none"
    BY ZenonT(30), <1>0 DEF CatalogIsInjective, CommitTransfer
  <2>3. \A n \in Names : repos'[n] # None => creation'[repos'[n]] # "none"
    BY ZenonT(30), <1>1, <2>1, <2>2 DEF CatalogIsInjective
  <2>4. ASSUME NEW n \in Names, NEW m \in Names, repos'[n] # None, repos'[n] = repos'[m]
        PROVE  n = m
    <3>1. CASE n # to /\ m # to
      BY ZenonT(30), <2>1, <2>4, <3>1 DEF CatalogIsInjective
    <3>2. CASE n = to \/ m = to
      BY ZenonT(30), <1>1, <2>1, <2>4, <3>2
    <3> QED
      BY <3>1, <3>2
  <2> QED
    BY <2>3, <2>4 DEF CatalogIsInjective
<1>7. ~Moved(i)' /\ \A j \in Ids : j # i => (Moved(j)' <=> Moved(j))
  BY <1>2 DEF Moved
<1>8. ASSUME NEW j \in Ids, transfer'[j].status = "prepared"
      PROVE  repos'[transfer'[j].source] = j
  <2>1. j # i /\ transfer'[j] = transfer[j] /\ transfer[j].source \in Names
        /\ repos[transfer[j].source] = j
    BY ZenonT(30), <1>2, <1>8, PreparedTransfer
  <2> QED
    BY ZenonT(30), <2>1, <1>0, <1>1
<1>9. ASSUME NEW n \in Names, repos'[n] # None, creation[repos'[n]] = "done", ~Moved(repos[n])'
      PROVE  At(repos[n], n)'
  <2>1. CASE n = to
    BY ZenonT(30), <2>1, <1>0, <1>1 DEF StorageFollows, At, CommitTransfer
  <2>2. CASE n # to
    <3>1. n # from /\ repos'[n] = repos[n] /\ repos[n] # i /\ repos[n] \in Ids
      BY <2>2, <1>0, <1>1, <1>9 DEF CatalogIsInjective, TypeOK
    <3>2. ~Moved(repos[n])
      BY <3>1, <1>7, <1>9
    <3> QED
      BY ZenonT(30), <3>1, <3>2, <1>9 DEF StorageFollows, At, CommitTransfer
  <2> QED
    BY <2>1, <2>2
<1>10. \A j \in Ids : Moved(j)' => At(j, transfer[j].destination)'
  BY <1>2, <1>7 DEF StorageFollows, At, CommitTransfer
<1>11. UNCHANGED <<creation, creator>>
  BY ZenonT(30) DEF CommitTransfer
<1>12. StorageFollows'
  BY ZenonT(30), <1>4, <1>8, <1>9, <1>10, <1>11 DEF StorageFollows
<1> QED
  BY <1>3, <1>5, <1>6, <1>12

\* The recorded failure of a transfer preserves the invariant: the directory
\* is back.
LEMMA FailTransferInv ==
  ASSUME IInv, NEW i \in Ids, FailTransfer(i)
  PROVE  IInv'
<1> USE DEF IInv
<1>0. transfer[i] \in [status : {"prepared", "committed", "failed"},
                       source : Names, destination : Names, moved : BOOLEAN]
  BY PreparedTransfer DEF FailTransfer
<1>1. /\ transfer'[i] = [transfer[i] EXCEPT !.status = "failed"]
      /\ transfer'[i].status = "failed"
      /\ \A j \in Ids : j # i => transfer'[j] = transfer[j]
  BY <1>0 DEF FailTransfer, TypeOK
<1>2. TypeOK'
  <2>1. [transfer[i] EXCEPT !.status = "failed"] \in Transfers
    BY <1>0 DEF Transfers
  <2> QED
    BY ZenonT(30), <2>1, <1>1 DEF TypeOK, FailTransfer
<1>3. ReceiptsNameCreations' /\ CompletedFirst' /\ GuardedCreation' /\ CatalogIsInjective'
  BY ZenonT(30) DEF ReceiptsNameCreations, GuardedCreation, CompletedFirst, CatalogIsInjective,
         FailTransfer, Id
<1>4. ~Moved(i) /\ ~Moved(i)' /\ \A j \in Ids : Moved(j)' <=> Moved(j)
  BY <1>1 DEF Moved, FailTransfer
<1>5. \A k \in Keys : creator[k] = "complete" => receipt[k].id \in Ids
  BY DEF TypeOK, ReceiptsNameCreations, Receipts
<1>6. \A n \in Names : repos[n] # None => repos[n] \in Ids
  BY DEF TypeOK
<1>7. StorageFollows'
  BY <1>1, <1>4, <1>5, <1>6 DEF StorageFollows, At, FailTransfer, Id
<1> QED
  BY <1>2, <1>3, <1>7

\* The opening and the closing of a restore preserve the invariant.
LEMMA CommissionInv ==
  ASSUME IInv, Commission
  PROVE  IInv'
<1> USE DEF IInv, Commission, state, Id
<1>1. TypeOK'
  BY DEF TypeOK
<1>2. ReceiptsNameCreations' /\ CompletedFirst' /\ GuardedCreation' /\ CatalogIsInjective'
  BY ZenonT(30) DEF ReceiptsNameCreations, GuardedCreation, CompletedFirst, CatalogIsInjective
<1>3. StorageFollows'
  BY ZenonT(30) DEF StorageFollows, Moved, At
<1> QED
  BY <1>1, <1>2, <1>3

\* A crash preserves the invariant: it releases the lock of a creation that
\* has no handler any more.
LEMMA CrashInv ==
  ASSUME IInv, Crash
  PROVE  IInv'
<1> USE DEF IInv, Crash, durable, Id
<1>1. TypeOK'
  BY ZenonT(30) DEF TypeOK, Places, Deletions
<1>2. ReceiptsNameCreations' /\ CompletedFirst' /\ GuardedCreation' /\ CatalogIsInjective'
  BY ZenonT(30) DEF ReceiptsNameCreations, GuardedCreation, CompletedFirst, CatalogIsInjective
<1>3. StorageFollows'
  BY ZenonT(30) DEF StorageFollows, Moved, At
<1> QED
  BY <1>1, <1>2, <1>3

\* Every step preserves the inductive invariant.
LEMMA NextInv == IInv /\ [Next]_vars => IInv'
<1> SUFFICES ASSUME IInv, [Next]_vars PROVE IInv'
  OBVIOUS
<1>1. ASSUME NEW k \in Keys,
             \/ Begin(k) \/ Check(k) \/ CoreRegister(k) \/ Materialize(k)
             \/ CoreComplete(k) \/ Resume(k) \/ Finish(k) \/ Fail(k)
      PROVE  IInv'
  BY <1>1, BeginInv, CheckInv, CoreRegisterInv, MaterializeInv, CoreCompleteInv, FinishInv,
     FailInv
<1>2. ASSUME NEW d \in Deleters,
             \/ \E n \in Names, storage \in DeleteStorage : Request(d, n, storage)
             \/ CoreDelete(d) \/ RemoveStorage(d)
      PROVE  IInv'
  BY <1>2, RequestInv, CoreDeleteInv, RemoveStorageInv
<1>3. ASSUME NEW i \in Ids,
             \/ \E n, m \in Names : Prepare(i, n, m)
             \/ MoveStorage(i) \/ CommitTransfer(i) \/ FailTransfer(i)
      PROVE  IInv'
  BY <1>3, PrepareInv, MoveStorageInv, CommitTransferInv, FailTransferInv
<1>4. CASE UNCHANGED vars
  <2> USE <1>4 DEF IInv, vars, durable, Id
  <2>1. TypeOK'
    BY ZenonT(30) DEF TypeOK
  <2>2. ReceiptsNameCreations' /\ CompletedFirst' /\ GuardedCreation' /\ CatalogIsInjective'
    BY ZenonT(30) DEF ReceiptsNameCreations, GuardedCreation, CompletedFirst, CatalogIsInjective
  <2>3. StorageFollows'
    BY ZenonT(30) DEF StorageFollows, Moved, At
  <2> QED
    BY <2>1, <2>2, <2>3
<1> QED
  BY ZenonT(30), <1>1, <1>2, <1>3, <1>4, CommissionInv, CrashInv DEF Next

\* The receipts, rows, journal entries and directories belong together as
\* IInv says, in every state.
THEOREM Invariance == Spec => []IInv
BY InitInv, NextInv, PTL DEF Spec

\* A receipt that create_repository's handler reads back as completed is
\* backed by a completed journal entry of Core, whatever crashed, failed or
\* was deleted in between.
THEOREM ReceiptsTrue == Spec => []ReceiptsAreTrue
<1>1. IInv => ReceiptsAreTrue
  BY DEF IInv, CompletedFirst, ReceiptsAreTrue
<1> QED
  BY <1>1, Invariance, PTL

\* A published repository that no transfer is moving has its own directory at
\* its own path, unless a deletion's delete_repo_storage cleared that very
\* path while the directory there belonged to a listed repository: creations,
\* retries, transfers and crashes never cost a repository its directory.
THEOREM StorageTakenByLateDeletionsOnly == Spec => []OnlyLateDeletionsTakeStorage
<1>1. IInv => OnlyLateDeletionsTakeStorage
  BY ZenonT(30) DEF IInv, StorageFollows, OnlyLateDeletionsTakeStorage, HasOwnStorage, Moved, At
<1> QED
  BY <1>1, Invariance, PTL

\* Once the repository of a UUID is gone from the catalog, no retry of its
\* creation request, no transfer and no crash brings it back.
THEOREM CreationsHappenOnce == Spec => NoResurrection
<1> DEFINE Gone(i) == creation[i] # "none" /\ \A n \in Names : repos[n] # i
           Step == \A i \in Ids : Gone(i) => \A n \in Names : repos'[n] # i
<1>1. ASSUME IInv, Next PROVE Step
  <2> SUFFICES ASSUME NEW i \in Ids, Gone(i), NEW m \in Names PROVE repos'[m] # i
    OBVIOUS
  <2>1. CASE \E k \in Keys : CoreRegister(k)
    <3>1. PICK k \in Keys : CoreRegister(k)
      BY <2>1
    <3>2. UNCHANGED repos \/ (creation[Id(k)] = "none" /\ repos' = [repos EXCEPT ![Wanted[k]] = Id(k)])
      BY ZenonT(30), <3>1 DEF CoreRegister, Register
    <3> QED
      BY ZenonT(30), <1>1, <3>2 DEF IInv, TypeOK
  <2>2. CASE \E d \in Deleters : CoreDelete(d)
    BY ZenonT(30), <1>1, <2>2, NoneAssumption DEF CoreDelete, IInv, TypeOK
  <2>3. CASE \E j \in Ids : CommitTransfer(j)
    <3>1. PICK j \in Ids : CommitTransfer(j)
      BY <2>3
    <3>2. j # i
      BY <1>1, <3>1, PreparedTransfer DEF CommitTransfer
    <3> QED
      BY <1>1, <3>1, <3>2, PreparedTransfer, NoneAssumption DEF CommitTransfer, IInv, TypeOK
  <2>4. CASE UNCHANGED repos
    BY <2>4
  <2> QED
    BY ZenonT(30), <1>1, <2>1, <2>2, <2>3, <2>4
    DEF Next, Begin, Check, Materialize, CoreComplete, Resume, Finish, Fail,
        Request, RemoveStorage, Prepare, MoveStorage, FailTransfer, Commission, Crash,
        durable, state
<1>2. IInv /\ [Next]_vars => [Step]_vars
  BY <1>1
<1> QED
  BY <1>2, Invariance, PTL DEF Spec, NoResurrection

\* While a restore is open no step changes the catalog, the creation journal
\* or the aliases, also not the completion of a creation that began before.
THEOREM BarrierHoldsState == Spec => StateRestsUnderBarrier
<1> DEFINE Step == barrier /\ barrier' => UNCHANGED <<repos, creation, aliases>>
<1>1. ASSUME Next, barrier, barrier' PROVE UNCHANGED <<repos, creation, aliases>>
  BY ZenonT(30), <1>1 DEF Next, Begin, Check, CoreRegister, Register, Materialize, CoreComplete,
     Complete, Resume, Finish, Fail, Request, CoreDelete, Deletable, RemoveStorage, Prepare,
     MoveStorage, CommitTransfer, FailTransfer, Commission, Crash, durable, state
<1>2. [Next]_vars => [Step]_vars
  BY <1>1
<1> QED
  BY <1>2, PTL DEF Spec, StateRestsUnderBarrier

\* Where no deletion asks for the directory, there is no exception.
THEOREM StorageIsOwnWithoutRemoval ==
  ASSUME TRUE \notin DeleteStorage
  PROVE  Spec => []PublishedStorageIsOwn
<1> DEFINE NeverCleared ==
      /\ cleared = {}
      /\ \A d \in Deleters : /\ deleter[d].at # "deleted"
                             /\ deleter[d].at = "requested" => ~deleter[d].storage
<1>1. Init => NeverCleared
  BY DEF Init, Idle
<1>2. IInv /\ NeverCleared /\ [Next]_vars => NeverCleared'
  <2> SUFFICES ASSUME IInv, NeverCleared, [Next]_vars
               PROVE  NeverCleared'
    OBVIOUS
  <2>1. ASSUME NEW d \in Deleters, NEW n \in Names, NEW storage \in DeleteStorage,
               Request(d, n, storage)
        PROVE  NeverCleared'
    BY ZenonT(30), <2>1, DeleteStorageAssumption DEF Request, IInv, TypeOK
  <2>2. ASSUME NEW d \in Deleters, CoreDelete(d)
        PROVE  NeverCleared'
    <3>1. deleter' = [deleter EXCEPT ![d] = Idle] /\ UNCHANGED cleared
      BY ZenonT(30), <2>2 DEF CoreDelete
    <3> QED
      BY ZenonT(30), <3>1 DEF IInv, TypeOK, Idle
  <2>3. ASSUME NEW d \in Deleters, RemoveStorage(d)
        PROVE  NeverCleared'
    BY ZenonT(30), <2>3 DEF RemoveStorage
  <2>4. CASE Crash
    BY <2>4 DEF Crash, Idle
  <2>5. CASE UNCHANGED <<deleter, cleared>>
    BY <2>5
  <2> QED
    BY ZenonT(30), <2>1, <2>2, <2>3, <2>4, <2>5
    DEF Next, Begin, Check, CoreRegister, Materialize, CoreComplete, Resume, Finish,
        Fail, Prepare, MoveStorage, CommitTransfer, FailTransfer, Commission, vars
<1>3. IInv /\ NeverCleared => PublishedStorageIsOwn
  BY ZenonT(30) DEF IInv, StorageFollows, PublishedStorageIsOwn, HasOwnStorage, Moved, At
<1> QED
  BY <1>1, <1>2, <1>3, Invariance, PTL DEF Spec

=============================================================================
