------------------------- MODULE RepositoryLifecycle -------------------------
(***************************************************************************)
(* Creation, deletion and transfer of repositories: the web handlers       *)
(* (jeryu-deploy, web/repository_create.rs, web/repo_admin.rs), Core       *)
(* (jeryu-core, engine/repository_creation.rs, repositories.rs,            *)
(* repository_transfer.rs) and the Git directories both work on            *)
(* (git_materializer.rs).                                                  *)
(*                                                                         *)
(* A creation is a receipt of the web handler, a row and a journal entry   *)
(* of Core, a directory, the completion of the journal entry and the       *)
(* completion of the receipt; a crash or an error may fall between any     *)
(* two, and the client then retries with the same key.  Core holds the     *)
(* authority lock from the row to the completion of the journal entry; the *)
(* web handlers' own work on directories is outside of it.                 *)
(***************************************************************************)
EXTENDS Naturals

CONSTANTS
  Names,        \* owner/name slugs, and so the paths owner/name.git
  Ids,          \* repository UUIDs
  Keys,         \* idempotency keys of creation requests
  Wanted,       \* the slug that the request with a key asks for
  Deleters,     \* deletion handlers
  DeleteStorage,\* the values of delete_storage in deletion requests
  None

ASSUME WantedAssumption == Wanted \in [Keys -> Names]
ASSUME DeleteStorageAssumption == DeleteStorage \subseteq BOOLEAN
ASSUME NoneAssumption == None \notin Ids \cup Keys \cup [id : Ids, done : BOOLEAN]

VARIABLES
  receipt,   \* the creation receipt file of each key: its UUID and completion
  repos,     \* State.repos: the UUID of each slug, or None
  creation,  \* State.repository_creations: each UUID's journal entry
  transfer,  \* State.repository_transfers: the transfer of each UUID, of which
             \* there is at most one (a bound of the model)
  aliases,   \* State.repository_aliases
  dir,       \* the UUID in jeryu-creation.json at each path, or None
  barrier,   \* a commissioning restore is open
  creator,   \* where the handler of each key's request is
  deleter,   \* what each deletion handler is doing
  guard,     \* the creation that holds the authority lock, or None
  cleared    \* history: paths from which a deletion removed the directory of a
             \* repository that the catalog still has

durable == <<receipt, repos, creation, transfer, aliases, dir, barrier>>
state == <<repos, creation, transfer, aliases>>
vars == <<durable, creator, deleter, guard, cleared>>

NoTransfer == [status |-> "none"]
Idle == [at |-> "idle"]

Init ==
  /\ receipt = [k \in Keys |-> None]
  /\ repos = [n \in Names |-> None]
  /\ creation = [i \in Ids |-> "none"]
  /\ transfer = [i \in Ids |-> NoTransfer]
  /\ aliases = [n \in Names |-> None]
  /\ dir = [n \in Names |-> None]
  /\ barrier = FALSE
  /\ creator = [k \in Keys |-> "idle"]
  /\ deleter = [d \in Deleters |-> Idle]
  /\ guard = None
  /\ cleared = {}

Id(k) == receipt[k].id

Go(k, place) == creator' = [creator EXCEPT ![k] = place]

-----------------------------------------------------------------------------
(***************************************************************************)
(* The creation handler, under the lock of the key's receipt.              *)
(***************************************************************************)
\* A new key gets a receipt with a new UUID; a known one goes on from its
\* receipt.  A completed receipt is only read back.
Begin(k) ==
  /\ creator[k] = "idle"
  /\ \/ /\ receipt[k] = None
        /\ \E i \in Ids :
             /\ \A j \in Keys : receipt[j] # None => receipt[j].id # i
             /\ receipt' = [receipt EXCEPT ![k] = [id |-> i, done |-> FALSE]]
     \/ /\ receipt[k] # None
        /\ ~receipt[k].done
        /\ UNCHANGED receipt
  /\ Go(k, "receipt")
  /\ UNCHANGED <<state, dir, barrier, deleter, guard, cleared>>

\* A creation that Core did not start does not take over a directory.
Check(k) ==
  /\ creator[k] = "receipt"
  /\ LET n == Wanted[k]
     IN  Go(k, IF repos[n] = Id(k) \/ (repos[n] = None /\ dir[n] = None)
               THEN "checked" ELSE "idle")
  /\ UNCHANGED <<durable, deleter, guard, cleared>>

\* Mutant: a UUID that was used before creates its repository anew.
RegisterAgain(k) ==
  LET n == Wanted[k]
  IN  \/ /\ repos[n] = Id(k)
         /\ Go(k, IF creation[Id(k)] = "done" THEN "resume" ELSE "materialize")
         /\ guard' = IF creation[Id(k)] = "done" THEN None ELSE k
         /\ UNCHANGED <<repos, creation>>
      \/ /\ repos[n] = None /\ ~barrier
         /\ repos' = [repos EXCEPT ![n] = Id(k)]
         /\ creation' = [creation EXCEPT ![Id(k)] = "pending"]
         /\ Go(k, "materialize")
         /\ guard' = k
      \/ /\ repos[n] \notin {None, Id(k)} \/ barrier
         /\ Go(k, "idle")
         /\ UNCHANGED <<repos, creation, guard>>

\* create_repository_with_id up to the materializer: a known UUID resumes only
\* its own repository, under its own slug; a new one commits the row and the
\* journal entry together, which a restore's barrier refuses.
Register(k) ==
  LET n == Wanted[k]
  IN  \/ /\ creation[Id(k)] # "none" /\ repos[n] = Id(k)
         /\ Go(k, IF creation[Id(k)] = "done" THEN "resume" ELSE "materialize")
         /\ guard' = IF creation[Id(k)] = "done" THEN None ELSE k
         /\ UNCHANGED <<repos, creation>>
      \/ /\ creation[Id(k)] = "none" /\ repos[n] = None /\ ~barrier
         /\ repos' = [repos EXCEPT ![n] = Id(k)]
         /\ creation' = [creation EXCEPT ![Id(k)] = "pending"]
         /\ Go(k, "materialize")
         /\ guard' = k
      \/ /\ IF creation[Id(k)] # "none" THEN repos[n] # Id(k)
                                        ELSE repos[n] # None \/ barrier
         /\ Go(k, "idle")
         /\ UNCHANGED <<repos, creation, guard>>

CoreRegister(k) ==
  /\ creator[k] = "checked"
  /\ guard = None
  /\ Register(k)
  /\ UNCHANGED <<receipt, transfer, aliases, dir, barrier, deleter, cleared>>

\* Mutant: a directory that is there already is taken for the repository's own.
PublishAny(n, i) ==
  /\ dir' = [dir EXCEPT ![n] = IF @ = None THEN i ELSE @]

\* GitMaterializer::resume: publish a directory with the repository's identity
\* by a rename that replaces nothing, or find it published.
Publish(n, i) ==
  /\ dir[n] \in {None, i}
  /\ dir' = [dir EXCEPT ![n] = i]

\* Core calls the materializer, with the authority lock held.
Materialize(k) ==
  /\ creator[k] = "materialize"
  /\ Publish(Wanted[k], Id(k))
  /\ Go(k, "complete")
  /\ UNCHANGED <<receipt, state, barrier, deleter, guard, cleared>>

\* Mutant: the journal entry is completed without asking for the barrier.
CompleteUnasked(k) ==
  /\ creation' = [creation EXCEPT ![Id(k)] = "done"]
  /\ Go(k, "resume")

\* Mutant: that the State could not be stored is not noticed.
CompleteUnnoticed(k) ==
  /\ creation' = IF barrier THEN creation ELSE [creation EXCEPT ![Id(k)] = "done"]
  /\ Go(k, "resume")

\* The journal entry is completed, if the barrier lets the State be stored.
Complete(k) ==
  /\ ~barrier
  /\ creation' = [creation EXCEPT ![Id(k)] = "done"]
  /\ Go(k, "resume")

CoreComplete(k) ==
  /\ creator[k] = "complete"
  /\ Complete(k)
  /\ guard' = None
  /\ UNCHANGED <<receipt, repos, transfer, aliases, dir, barrier, deleter, cleared>>

\* The handler publishes once more, without the lock, before it works on refs.
Resume(k) ==
  /\ creator[k] = "resume"
  /\ Publish(Wanted[k], Id(k))
  /\ Go(k, "finish")
  /\ UNCHANGED <<receipt, state, barrier, deleter, guard, cleared>>

\* The initial commit and the completed receipt.
Finish(k) ==
  /\ creator[k] = "finish"
  /\ dir[Wanted[k]] # None
  /\ receipt' = [receipt EXCEPT ![k].done = TRUE]
  /\ Go(k, "idle")
  /\ UNCHANGED <<state, dir, barrier, deleter, guard, cleared>>

\* Any step of the handler may fail: the request ends with an error.
Fail(k) ==
  /\ creator[k] # "idle"
  /\ Go(k, "idle")
  /\ guard' = IF guard = k THEN None ELSE guard
  /\ UNCHANGED <<durable, deleter, cleared>>

-----------------------------------------------------------------------------
(***************************************************************************)
(* The deletion handler: the registry first, then, on request, the         *)
(* directory at the path of the slug.                                      *)
(***************************************************************************)
\* The slug is looked up, the confirmation compared with it and the request
\* written to the audit log.
Request(d, n, storage) ==
  /\ deleter[d] = Idle
  /\ repos[n] # None
  /\ ~barrier
  /\ deleter' = [deleter EXCEPT ![d] =
       [at |-> "requested", name |-> n, storage |-> storage]]
  /\ UNCHANGED <<durable, creator, guard, cleared>>

\* The journals of a repository's transfers stay in State; they refer to its row,
\* so SQLite refuses a State that has them without it.
Deletable(n) == repos[n] # None /\ ~barrier /\ transfer[repos[n]].status = "none"

\* delete_repository
CoreDelete(d) ==
  /\ deleter[d].at = "requested"
  /\ guard = None
  /\ LET n == deleter[d].name
     IN  \/ /\ Deletable(n)
            /\ repos' = [repos EXCEPT ![n] = None]
            /\ deleter' = [deleter EXCEPT ![d] =
                 IF deleter[d].storage THEN [at |-> "deleted", name |-> n] ELSE Idle]
         \/ /\ ~Deletable(n)
            /\ deleter' = [deleter EXCEPT ![d] = Idle]
            /\ UNCHANGED repos
  /\ UNCHANGED <<receipt, creation, transfer, aliases, dir, barrier, creator, guard, cleared>>

Registered(i) == i # None /\ \E n \in Names : repos[n] = i

\* delete_repo_storage: the path comes from the slug.  Of the repositories that
\* are listed now, one with this slug is passed over, and every other one has
\* another path.
RemoveStorage(d) ==
  /\ deleter[d].at = "deleted"
  /\ LET n == deleter[d].name
     IN  /\ dir' = [dir EXCEPT ![n] = None]
         /\ cleared' = IF Registered(dir[n]) THEN cleared \cup {n} ELSE cleared
  /\ deleter' = [deleter EXCEPT ![d] = Idle]
  /\ UNCHANGED <<receipt, state, barrier, creator, guard>>

-----------------------------------------------------------------------------
(***************************************************************************)
(* Transfers: Core prepares a journal, the caller moves the directory and  *)
(* Core commits, or the caller moves it back and Core records the failure. *)
(***************************************************************************)
FreeSlug(n) == repos[n] = None /\ aliases[n] = None

Prepare(i, n, m) ==
  /\ guard = None /\ ~barrier
  /\ repos[n] = i /\ n # m /\ FreeSlug(m)
  /\ transfer[i].status = "none"
  /\ transfer' = [transfer EXCEPT ![i] =
       [status |-> "prepared", source |-> n, destination |-> m, moved |-> FALSE]]
  /\ UNCHANGED <<receipt, repos, creation, aliases, dir, barrier, creator,
                 deleter, guard, cleared>>

\* The caller's rename of the directory, and its rollback.
MoveStorage(i) ==
  /\ transfer[i].status = "prepared"
  /\ LET from == IF transfer[i].moved THEN transfer[i].destination ELSE transfer[i].source
         to == IF transfer[i].moved THEN transfer[i].source ELSE transfer[i].destination
     IN  /\ dir[from] = i /\ dir[to] = None
         /\ dir' = [dir EXCEPT ![from] = None, ![to] = i]
  /\ transfer' = [transfer EXCEPT ![i].moved = ~@]
  /\ UNCHANGED <<receipt, repos, creation, aliases, barrier, creator, deleter,
                 guard, cleared>>

CommitTransfer(i) ==
  /\ transfer[i].status = "prepared" /\ transfer[i].moved
  /\ guard = None /\ ~barrier
  /\ FreeSlug(transfer[i].destination)
  /\ repos[transfer[i].source] = i
  /\ repos' = [repos EXCEPT ![transfer[i].source] = None,
                            ![transfer[i].destination] = i]
  /\ aliases' = [aliases EXCEPT ![transfer[i].source] = i]
  /\ transfer' = [transfer EXCEPT ![i].status = "committed"]
  /\ UNCHANGED <<receipt, creation, dir, barrier, creator, deleter, guard, cleared>>

FailTransfer(i) ==
  /\ transfer[i].status = "prepared" /\ ~transfer[i].moved
  /\ guard = None /\ ~barrier
  /\ transfer' = [transfer EXCEPT ![i].status = "failed"]
  /\ UNCHANGED <<receipt, repos, creation, aliases, dir, barrier, creator,
                 deleter, guard, cleared>>

-----------------------------------------------------------------------------
\* A restore is reserved or closed, under the authority lock.
Commission ==
  /\ guard = None
  /\ barrier' = ~barrier
  /\ UNCHANGED <<receipt, state, dir, creator, deleter, guard, cleared>>

Crash ==
  /\ creator' = [k \in Keys |-> "idle"]
  /\ deleter' = [d \in Deleters |-> Idle]
  /\ guard' = None
  /\ UNCHANGED <<durable, cleared>>

Next ==
  \/ \E k \in Keys :
       \/ Begin(k) \/ Check(k) \/ CoreRegister(k) \/ Materialize(k)
       \/ CoreComplete(k) \/ Resume(k) \/ Finish(k) \/ Fail(k)
  \/ \E d \in Deleters :
       \/ \E n \in Names, storage \in DeleteStorage : Request(d, n, storage)
       \/ CoreDelete(d)
       \/ RemoveStorage(d)
  \/ \E i \in Ids :
       \/ \E n, m \in Names : Prepare(i, n, m)
       \/ MoveStorage(i) \/ CommitTransfer(i) \/ FailTransfer(i)
  \/ Commission
  \/ Crash

Spec == Init /\ [][Next]_vars

-----------------------------------------------------------------------------
(***************************************************************************)
(* Properties.                                                             *)
(***************************************************************************)
Receipts == [id : Ids, done : BOOLEAN]
Places == {"idle", "receipt", "checked", "materialize", "complete", "resume", "finish"}
Transfers ==
  {NoTransfer} \cup [status : {"prepared", "committed", "failed"},
                     source : Names, destination : Names, moved : BOOLEAN]
Deletions ==
  {Idle} \cup [at : {"requested"}, name : Names, storage : BOOLEAN]
         \cup [at : {"deleted"}, name : Names]

\* The type of the state.
TypeOK ==
  /\ receipt \in [Keys -> Receipts \cup {None}]
  /\ repos \in [Names -> Ids \cup {None}]
  /\ creation \in [Ids -> {"none", "pending", "done"}]
  /\ transfer \in [Ids -> Transfers]
  /\ aliases \in [Names -> Ids \cup {None}]
  /\ dir \in [Names -> Ids \cup {None}]
  /\ barrier \in BOOLEAN
  /\ creator \in [Keys -> Places]
  /\ deleter \in [Deleters -> Deletions]
  /\ guard \in Keys \cup {None}
  /\ cleared \in SUBSET Names

\* A repository whose creation is complete and which is not being moved has its
\* own directory at its own path: no creation, retry or transfer lets it work
\* on the directory of another one or on none.
HasOwnStorage(n) ==
  LET i == repos[n]
  IN  i # None /\ creation[i] = "done" /\ transfer[i].status # "prepared" => dir[n] = i

PublishedStorageIsOwn == \A n \in Names : HasOwnStorage(n)

\* The same, but for the paths that a deletion cleared after another repository
\* had taken the slug, or had moved its directory there: that is the only way a
\* repository loses its directory, and it does no harm to any other path.
OnlyLateDeletionsTakeStorage == \A n \in Names \ cleared : HasOwnStorage(n)

\* The UUID of a receipt names one creation: once its repository is gone from the
\* catalog, no retry of the request brings it back.
NoResurrection ==
  [][\A i \in Ids :
       creation[i] # "none" /\ (\A n \in Names : repos[n] # i)
         => \A n \in Names : repos'[n] # i]_vars

\* A completed receipt is backed by a completed creation of Core, so reading the
\* answer back never shows a repository that was not made.
ReceiptsAreTrue ==
  \A k \in Keys : receipt[k] # None /\ receipt[k].done => creation[Id(k)] = "done"

\* jeryu-core/db/constraints.md:511: "The barrier survives completed steps and
\* restart; State persistence, ordinary Git callbacks, audit writes, migrations and
\* backfills remain blocked".  Of these the persistence: while a restore is open
\* nothing of Core's State changes, also not by the second half of a creation.
StateRestsUnderBarrier ==
  [][barrier /\ barrier' => UNCHANGED <<repos, creation, aliases>>]_vars

=============================================================================
