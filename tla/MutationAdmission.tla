-------------------------- MODULE MutationAdmission --------------------------
(***************************************************************************)
(* Admission of Core mutations (jeryu-core, engine/mutation.rs) under the  *)
(* mutation coordinator.                                                   *)
(*                                                                         *)
(* A caller names repositories by slug.  The slugs are resolved before any *)
(* lock is taken, because the locks are those of the UUIDs; under the      *)
(* locks the mutation is admitted only if the slugs still resolve to these *)
(* UUIDs, the repositories are open to it and no commissioning restore     *)
(* holds the barrier.  Meanwhile other threads delete, create and transfer *)
(* repositories, block them and reserve restores.                          *)
(***************************************************************************)
EXTENDS MutationCoordinator

CONSTANTS
  Names,     \* owner/name slugs
  Users      \* logins

ASSUME NoRepositoryAssumption == None \notin Repos

VARIABLES
  catalog,   \* State.repos: the UUID of each slug, or None
  creations, \* State.repository_creations: the UUIDs ever created
  aliases,   \* State.repository_aliases: the UUID a slug had before a transfer
  blocks,    \* State.repository_mutation_blocks
  users,     \* State.users
  barrier,   \* a commissioning restore is open
  call,      \* what each thread asked for
  admitted   \* the threads whose callback passed its checks and runs

stateVars == <<catalog, creations, aliases, blocks, users>>
vars == <<lockVars, stateVars, barrier, call, admitted>>

NoCall == [scope |-> "none"]

AdmissionInit ==
  /\ Init
  /\ catalog \in {c \in [Names -> Repos \cup {None}] :
                    \A n, m \in Names : n # m /\ c[n] # None => c[n] # c[m]}
  /\ creations = {catalog[n] : n \in Names} \ {None}
  /\ aliases = [n \in Names |-> None]
  /\ blocks = [r \in Repos |-> "none"]
  /\ users = {}
  /\ barrier = FALSE
  /\ call = [t \in Threads |-> NoCall]
  /\ admitted = {}

Listed == {catalog[n] : n \in Names} \ {None}

Ask(t, m, list, c) ==
  /\ Call(t, m, list)
  /\ call' = [call EXCEPT ![t] = c]
  /\ UNCHANGED <<stateVars, barrier, admitted>>

HintsOf(list) == [i \in DOMAIN list |-> catalog[list[i]]]

\* with_named_mutation: "write" stands for every callback of
\* with_repository_mutation and with_pull_mutation, the first slug being written
\* and a second one read; "delete" for those of with_repository_authority_mutation.
AskNamed(t, scope, list) ==
  /\ \A i \in DOMAIN list : catalog[list[i]] # None
  /\ scope = "delete" => Len(list) = 1
  /\ Ask(t, IF scope = "delete" THEN "write" ELSE "read", HintsOf(list),
         [scope |-> scope, names |-> list, hints |-> HintsOf(list)])

AskProfileShared(t, list, author) ==
  /\ \A i \in DOMAIN list : catalog[list[i]] # None
  /\ Ask(t, "read", HintsOf(list),
         [scope |-> "comment", names |-> list, hints |-> HintsOf(list), author |-> author])

\* with_profile_mutation of one slug, and with_source_mutation of a pull request's
\* slug and that of its source: a comment or a pull request by someone who has no
\* profile yet creates it.
AskProfile(t, list, author) ==
  /\ \A i \in DOMAIN list : catalog[list[i]] # None
  /\ Ask(t, IF author \in users THEN "read" ELSE "write", HintsOf(list),
         [scope |-> "comment", names |-> list, hints |-> HintsOf(list), author |-> author])

\* with_global_mutation: create_user and ensure_user, which create a profile, and
\* the operations on accounts.
AskGlobal(t, author) == Ask(t, "write", <<>>, [scope |-> "global", author |-> author])

Resolve(n) == IF catalog[n] # None THEN catalog[n] ELSE aliases[n]

\* with_audit_mutation: the subject may be a slug nobody has any more.
AskAudit(t, n) ==
  Ask(t, "write", IF Resolve(n) = None THEN <<>> ELSE <<Resolve(n)>>,
      [scope |-> "audit", subject |-> n, hint |-> Resolve(n)])

\* with_repository_id_mutation of a transfer to the slug n, and
\* block_repository_mutations, of a repository that was there at some time.
AskById(t, scope, r, n, b) ==
  /\ r \in creations
  /\ Ask(t, "write", <<r>>, [scope |-> scope, id |-> r, name |-> n, block |-> b])

\* with_repository_creation_mutation, with a new UUID or again with one.
AskCreate(t, r, n) ==
  Ask(t, "write", <<r>>, [scope |-> "create", id |-> r, name |-> n])

\* reserve_commissioning_operation and close_commissioning_operation.
AskCommission(t, scope, r) ==
  /\ r \in creations
  /\ Ask(t, "write", <<r>>, [scope |-> scope])

-----------------------------------------------------------------------------

\* require_repository_admissible; an archived or disabled repository is refused
\* in the same way as a read-only one.
Admissible(r, writes) ==
  /\ r \in Listed
  /\ blocks[r] = "none" \/ (blocks[r] = "read_only" /\ ~writes)

NamesHoldById(c) ==
  \A i \in DOMAIN c.names : Admissible(c.hints[i], i = 1)

\* The checks of with_named_mutation under the locks.
NamesHold(c) ==
  \A i \in DOMAIN c.names :
    /\ catalog[c.names[i]] = c.hints[i]
    /\ Admissible(c.hints[i], i = 1)

OrdinaryMutationUnchecked == TRUE

\* require_ordinary_mutation
OrdinaryMutation == ~barrier

\* What a callback checks under the locks before it does anything.
MayRun(c) ==
  CASE c.scope \in {"write", "delete", "comment"} -> OrdinaryMutation /\ NamesHold(c)
    [] c.scope = "global" -> OrdinaryMutation
    [] c.scope = "audit" ->
         /\ OrdinaryMutation
         /\ Resolve(c.subject) = c.hint
         /\ c.hint # None => Admissible(c.hint, TRUE)
    [] c.scope = "transfer" -> OrdinaryMutation /\ Admissible(c.id, TRUE)
    [] c.scope = "block" -> OrdinaryMutation /\ c.id \in Listed /\ blocks[c.id] = "none"
    [] c.scope = "create" -> c.id \in Listed => Admissible(c.id, TRUE)
    [] c.scope \in {"reserve", "close"} -> barrier = (c.scope = "close")

Admit(t) ==
  /\ Running(t)
  /\ t \notin admitted
  /\ MayRun(call[t])
  /\ admitted' = admitted \cup {t}
  /\ UNCHANGED <<lockVars, stateVars, barrier, call>>

Refuse(t) ==
  /\ Running(t)
  /\ t \notin admitted
  /\ ~MayRun(call[t])
  /\ Return(t)
  /\ call' = [call EXCEPT ![t] = NoCall]
  /\ UNCHANGED <<stateVars, barrier, admitted>>

CurrentName(r) == CHOOSE n \in Names : catalog[n] = r

\* SQLite refuses a State without the row that a transfer's journal refers to,
\* so a repository that was transferred stays.
Delete(c) ==
  /\ c.scope = "delete"
  /\ \A n \in Names : aliases[n] # c.hints[1]
  /\ catalog' = [catalog EXCEPT ![c.names[1]] = None]
  /\ UNCHANGED <<creations, aliases, blocks, users, barrier>>

CreateProfile(c) ==
  /\ c.scope \in {"comment", "global"}
  /\ users' = users \cup {c.author}
  /\ UNCHANGED <<catalog, creations, aliases, blocks, barrier>>

\* A UUID is used for one creation, also after its repository is deleted.
Create(c) ==
  /\ c.scope = "create"
  /\ ~barrier
  /\ c.id \notin creations
  /\ catalog[c.name] = None
  /\ catalog' = [catalog EXCEPT ![c.name] = c.id]
  /\ creations' = creations \cup {c.id}
  /\ UNCHANGED <<aliases, blocks, users, barrier>>

\* commit_repository_transfer: the old slug becomes an alias.
Transfer(c) ==
  /\ c.scope = "transfer"
  /\ catalog[c.name] = None
  /\ aliases[c.name] = None
  /\ catalog' = [catalog EXCEPT ![CurrentName(c.id)] = None, ![c.name] = c.id]
  /\ aliases' = [aliases EXCEPT ![CurrentName(c.id)] = c.id]
  /\ UNCHANGED <<creations, blocks, users, barrier>>

Block(c) ==
  /\ c.scope = "block"
  /\ blocks' = [blocks EXCEPT ![c.id] = c.block]
  /\ UNCHANGED <<catalog, creations, aliases, users, barrier>>

Commission(c) ==
  /\ c.scope \in {"reserve", "close"}
  /\ barrier' = (c.scope = "reserve")
  /\ UNCHANGED stateVars

\* The change a callback makes to State and persists, or, when it finds a
\* conflict or the database refuses, none.
Apply(c) ==
  \/ Delete(c)
  \/ CreateProfile(c)
  \/ Create(c)
  \/ Transfer(c)
  \/ Block(c)
  \/ Commission(c)
  \/ UNCHANGED <<stateVars, barrier>>

Finish(t) ==
  /\ t \in admitted
  /\ Apply(call[t])
  /\ Return(t)
  /\ admitted' = admitted \ {t}
  /\ call' = [call EXCEPT ![t] = NoCall]

Lock(t) ==
  /\ Read(t) \/ Claim(t) \/ Drain(t) \/ Guard(t) \/ Enter(t) \/ Unlock(t) \/ Leave(t)
  /\ UNCHANGED <<stateVars, barrier, call, admitted>>

NameLists == {<<n>> : n \in Names} \cup {<<n, m>> : n, m \in Names}

AdmissionNext ==
  \E t \in Threads :
    \/ \E scope \in {"write", "delete"}, list \in NameLists : AskNamed(t, scope, list)
    \/ \E list \in NameLists, author \in Users : AskProfile(t, list, author)
    \/ \E author \in Users : AskGlobal(t, author)
    \/ \E n \in Names : AskAudit(t, n)
    \/ \E r \in Repos, n \in Names : AskById(t, "transfer", r, n, "none")
    \/ \E r \in Repos, b \in {"read_only", "reconciliation"} :
         AskById(t, "block", r, None, b)
    \/ \E r \in Repos, n \in Names : AskCreate(t, r, n)
    \/ \E scope \in {"reserve", "close"}, r \in Repos : AskCommission(t, scope, r)
    \/ Lock(t)
    \/ Admit(t)
    \/ Refuse(t)
    \/ Finish(t)

AdmissionSpec == AdmissionInit /\ [][AdmissionNext]_vars

-----------------------------------------------------------------------------

\* Types; a slug and an alias name repositories, and a callback that was
\* admitted is inside its locks.
AdmissionTypeOK ==
  /\ TypeOK
  /\ catalog \in [Names -> Repos \cup {None}]
  /\ aliases \in [Names -> Repos \cup {None}]
  /\ Listed \subseteq creations /\ creations \subseteq Repos
  /\ blocks \in [Repos -> {"none", "read_only", "reconciliation"}]
  /\ users \subseteq Users
  /\ barrier \in BOOLEAN
  /\ \A t \in admitted : Running(t)

\* While a callback runs, what it was admitted on stays true: its slugs mean the
\* repositories whose mutexes it holds, and none of these is closed to it.
AdmissionHoldsThroughout ==
  \A t \in admitted :
    LET c == call[t]
    IN /\ c.scope \in {"write", "delete", "comment"} =>
            /\ \A i \in DOMAIN c.names :
                 /\ catalog[c.names[i]] = c.hints[i]
                 /\ c.hints[i] \in held[t]
                 /\ blocks[c.hints[i]] # "reconciliation"
            /\ blocks[c.hints[1]] = "none"
       /\ c.scope = "transfer" => blocks[c.id] = "none"

\* "Reservation needs authority-write, so the barrier cannot appear between this
\* check and the guarded callback's completion": a restore is never open while
\* an ordinary callback runs.
BarrierDrainsCallbacks ==
  \A t \in admitted : barrier => call[t].scope \in {"create", "reserve", "close"}

\* A repository has one slug, whatever creations, transfers and deletions
\* interleave, so the mutex of its UUID protects all of its state.
OneSlugPerRepository ==
  \A n, m \in Names : n # m /\ catalog[n] # None => catalog[n] # catalog[m]

\* Catalog, profiles, blocks and the barrier change only while nobody else runs;
\* this includes the profile of an author that existed when the lock was chosen.
CatalogChangesAlone ==
  [][stateVars' # stateVars \/ barrier' # barrier =>
       \E t \in Threads : Running(t) /\ mode[t] = "write"]_vars

=============================================================================
