------------------------------- MODULE Accounts -------------------------------
(***************************************************************************)
(* Accounts and what authenticates their holders (jeryu-core,              *)
(* engine/auth.rs and engine/actors.rs).                                   *)
(*                                                                         *)
(* An account has an authentication epoch.  A session or a personal access *)
(* token carries the epoch it was issued under, and everything that takes  *)
(* trust away from the account (a password reset or change, a forced       *)
(* change, a change of status) raises the epoch and deletes the account's  *)
(* credentials.  A request authenticates once, which mints an actor handle *)
(* that names the credential; every later operation validates the handle   *)
(* again.  Bound reviews store the same binding beside the verdict.        *)
(*                                                                         *)
(* All of these run under the authority guard of the mutation coordinator, *)
(* so that an operation is one step; one that fails to persist restores    *)
(* the state it started from, and is not a step.                           *)
(***************************************************************************)
EXTENDS Integers, Sequences, FiniteSets

CONSTANTS
  Logins,               \* the logins there can be
  ActivationMaxAttempts, \* ACTIVATION_MAX_ATTEMPTS
  Sizes                 \* bounds of a behaviour, see SizesAssumption

\* members: the logins that have an account at the start; logins: those that can
\* have one; credentials and invitations: how many are issued; changes: how many
\* changes are made to the accounts, the grants, the policy and the pull request;
\* challenges and events: of reviews.
ASSUME SizesAssumption ==
  Sizes \subseteq [members : SUBSET Logins, logins : SUBSET Logins, credentials : Nat,
                   invitations : Nat, changes : Nat, challenges : Nat, events : Nat]

ASSUME LoginsAssumption == IsFiniteSet(Logins)

ASSUME AttemptsAssumption == ActivationMaxAttempts \in Nat

Statuses == {"pending_mfa", "active", "disabled", "locked"}
Roles == {"admin", "user"}
Levels == {"read", "write", "admin"}

VARIABLES
  status,      \* UserAccount.status; "absent" where there is no account
  role,        \* UserAccount.role
  epoch,       \* UserAccount.auth_epoch
  password,    \* UserAccount.must_change_password: "ok" or "must_change"
  created,     \* UserAccount.created_at: how many accounts were there before
  credentials, \* the sessions and tokens that are stored and not expired
  issued,      \* how many credentials were ever issued: the next one's id
  actors,      \* the bindings of the actor handles minted so far
  grant,       \* repo_grants of the repository: a level, and when it was granted
  clock,       \* dates updated_at, granted_at and the like: a tick per change
  invitations, \* account invitations, in the order they were created
  activations, \* activation challenges
  bootstrapped, \* bootstrap_owner_consumed: "yes" or "no"
  size         \* the bounds of this behaviour

inviteVars == <<invitations, activations, bootstrapped>>
accountVars == <<status, role, epoch, password, created, credentials, issued, actors,
                 grant, clock, invitations, activations, bootstrapped, size>>

NoGrant == [level |-> "none", at |-> 0]

AccountsInit ==
  /\ size \in Sizes
  /\ status = [l \in Logins |-> IF l \in size.members THEN "active" ELSE "absent"]
  /\ role = [l \in Logins |-> "user"]
  /\ epoch = [l \in Logins |-> 0]
  /\ password = [l \in Logins |-> "ok"]
  /\ created = [l \in Logins |-> 0]
  /\ credentials = {}
  /\ issued = 0
  /\ actors = {}
  /\ grant = [l \in Logins |-> IF l \in size.members THEN [level |-> "write", at |-> 0]
                                                     ELSE NoGrant]
  /\ clock = 0
  /\ invitations = <<>>
  /\ activations = <<>>
  /\ bootstrapped = "no"

Exists(l) == status[l] # "absent"
Population == Cardinality({l \in Logins : Exists(l)})

\* One more change, whose date nothing else has.
Tick == /\ clock < size.changes
        /\ clock' = clock + 1

-----------------------------------------------------------------------------
(* Credentials *)

\* validate_actor_binding; a profile and the creation date of an account never
\* change, and an expired credential is not in credentials.
Valid(b) == /\ status[b.login] = "active"
            /\ password[b.login] = "ok"
            /\ epoch[b.login] = b.epoch
            /\ b \in credentials

\* create_session: a password is enough, also one that must be changed.
CreateSession(l) ==
  /\ status[l] = "active"
  /\ issued < size.credentials
  /\ credentials' = credentials \cup {[login |-> l, epoch |-> epoch[l], id |-> issued + 1]}
  /\ issued' = issued + 1
  /\ UNCHANGED <<status, role, epoch, password, created, actors, grant, clock, size, inviteVars>>

\* create_personal_access_token: an actor makes a further credential.
CreateToken(b) ==
  /\ b \in actors /\ Valid(b)
  /\ CreateSession(b.login)

\* authenticate_actor
Authenticate(c) ==
  /\ c \in credentials /\ Valid(c)
  /\ actors' = actors \cup {c}
  /\ UNCHANGED <<status, role, epoch, password, created, credentials, issued, grant, clock,
                 size, inviteVars>>

\* revoke_session, revoke_personal_access_token, or the credential expires.
\* An expiry is final: the wall clock is not set back over it.
DropCredential(c) ==
  /\ c \in credentials
  /\ Tick
  /\ credentials' = credentials \ {c}
  /\ UNCHANGED <<status, role, epoch, password, created, issued, actors, grant, size, inviteVars>>

\* What every loss of trust does: the next epoch, and no credential left.
Distrust(l) ==
  /\ Tick
  /\ epoch' = [epoch EXCEPT ![l] = @ + 1]
  /\ credentials' = {c \in credentials : c.login # l}
  /\ UNCHANGED <<role, created, issued, actors, grant, size, inviteVars>>

\* reset_account_password, and force_password_change(login, true)
ResetPassword(l) ==
  /\ Exists(l)
  /\ password' = [password EXCEPT ![l] = "must_change"]
  /\ Distrust(l)
  /\ UNCHANGED status

\* change_account_password
ChangePassword(l) ==
  /\ status[l] = "active"
  /\ password' = [password EXCEPT ![l] = "ok"]
  /\ Distrust(l)
  /\ UNCHANGED status

\* force_password_change(login, false): the epoch and the credentials stay.
AllowPassword(l) ==
  /\ Exists(l)
  /\ Tick
  /\ password' = [password EXCEPT ![l] = "ok"]
  /\ UNCHANGED <<status, role, epoch, created, credentials, issued, actors, grant, size, inviteVars>>

\* Mutant of TransitionAccountStatus: a status is set and nothing else is done.
SetStatusOnly(l, s, from) ==
  /\ status[l] \in from \ {s}
  /\ status' = [status EXCEPT ![l] = s]
  /\ Tick
  /\ UNCHANGED <<password, epoch, credentials, role, created, issued, actors, grant, size,
                 inviteVars>>

\* transition_account_status: the status that the account has is no change.
TransitionAccountStatus(l, s, from) ==
  /\ status[l] \in from \ {s}
  /\ status' = [status EXCEPT ![l] = s]
  /\ Distrust(l)
  /\ UNCHANGED password

DisableAccount(l) == TransitionAccountStatus(l, "disabled", Statuses)
LockAccount(l) == TransitionAccountStatus(l, "locked", Statuses)
ReactivateAccount(l) == TransitionAccountStatus(l, "pending_mfa", {"disabled", "locked"})
MarkAccountMfaActive(l) == TransitionAccountStatus(l, "active", {"pending_mfa"})

-----------------------------------------------------------------------------
(* Access to the repository *)

\* grant_repo_access replaces the grant, and dates the new one.
GrantRepoAccess(l, level) ==
  /\ Exists(l)
  /\ Tick
  /\ grant' = [grant EXCEPT ![l] = [level |-> level, at |-> clock + 1]]
  /\ UNCHANGED <<status, role, epoch, password, created, credentials, issued, actors, size,
                 inviteVars>>

RevokeRepoAccess(l) ==
  /\ grant[l] # NoGrant
  /\ Tick
  /\ grant' = [grant EXCEPT ![l] = NoGrant]
  /\ UNCHANGED <<status, role, epoch, password, created, credentials, issued, actors, size,
                 inviteVars>>

\* require_access(.., write); it does not look at the account's status.
MayWrite(l) == role[l] = "admin" \/ grant[l].level \in {"write", "admin"}

-----------------------------------------------------------------------------
(* New accounts *)

AdminExists == \E l \in Logins : Exists(l) /\ role[l] = "admin"

NewAccount(l, s, r, e, p) ==
  /\ status[l] = "absent"
  /\ status' = [status EXCEPT ![l] = s]
  /\ role' = [role EXCEPT ![l] = r]
  /\ epoch' = [epoch EXCEPT ![l] = e]
  /\ password' = [password EXCEPT ![l] = p]
  /\ created' = [created EXCEPT ![l] = Population]
  /\ UNCHANGED <<credentials, issued, actors, grant, clock, size>>

\* create_account
CreateAccount(l, r) ==
  /\ NewAccount(l, "active", r, 0, "ok")
  /\ UNCHANGED inviteVars

\* create_temporary_account: create_account, then the forced change, each
\* saved on its own; when the second is not saved, the account of the first stays.
CreateTemporaryAccount(l, r, saved) ==
  /\ IF saved THEN NewAccount(l, "active", r, 1, "must_change")
              ELSE NewAccount(l, "active", r, 0, "ok")
  /\ UNCHANGED inviteVars

Open(i) == invitations[i].state = "open"

RevokeLapsed(inv) ==
  IF inv.state = "lapsed" THEN [inv EXCEPT !.state = "revoked"] ELSE inv

\* create_account_invitation_inner: at most one open invitation of a login,
\* and one open invitation of an owner; those that lapsed are revoked.
CreateInvitation(l, r, owner) ==
  /\ Len(invitations) < size.invitations
  /\ status[l] = "absent"
  /\ owner = "yes" => r = "admin" /\ bootstrapped = "no" /\ ~AdminExists
  /\ \A i \in DOMAIN invitations :
       Open(i) => invitations[i].login # l /\ ~(owner = "yes" /\ invitations[i].owner = "yes")
  /\ invitations' =
       Append([i \in DOMAIN invitations |-> RevokeLapsed(invitations[i])],
              [login |-> l, role |-> r, owner |-> owner, state |-> "open", attempts |-> 0])
  /\ UNCHANGED <<status, role, epoch, password, created, credentials, issued, actors, grant,
                 clock, activations, bootstrapped, size>>

\* revoke_account_invitation, or the invitation expires.
CloseInvitation(i, s) ==
  /\ i \in DOMAIN invitations
  /\ \/ Open(i)
     \/ s = "revoked" /\ invitations[i].state = "lapsed"
  /\ invitations' = [invitations EXCEPT ![i].state = s]
  /\ UNCHANGED <<status, role, epoch, password, created, credentials, issued, actors, grant,
                 clock, activations, bootstrapped, size>>

\* start_account_activation: an attempt is counted whether or not the caller
\* knows the secret; one that does gets a challenge.
StartActivation(i, knows) ==
  /\ i \in DOMAIN invitations /\ Open(i)
  /\ invitations[i].attempts < ActivationMaxAttempts
  /\ invitations' = [invitations EXCEPT ![i].attempts = @ + 1]
  /\ activations' = IF knows THEN Append(activations, [of |-> i, state |-> "open"])
                             ELSE activations
  /\ UNCHANGED <<status, role, epoch, password, created, credentials, issued, actors, grant,
                 clock, bootstrapped, size>>

\* The challenge expires.
LapseActivation(k) ==
  /\ k \in DOMAIN activations /\ activations[k].state = "open"
  /\ activations' = [activations EXCEPT ![k].state = "lapsed"]
  /\ UNCHANGED <<status, role, epoch, password, created, credentials, issued, actors, grant,
                 clock, invitations, bootstrapped, size>>

\* What complete_account_activation does once the invitation may be used.
Activate(k, inv) ==
  /\ NewAccount(inv.login, "pending_mfa", inv.role, 0, "ok")
  /\ activations' = [activations EXCEPT ![k].state = "consumed"]
  /\ invitations' = [invitations EXCEPT ![activations[k].of].state = "consumed"]
  /\ bootstrapped' = IF inv.owner = "yes" THEN "yes" ELSE bootstrapped

\* Mutant: the check of an owner's invitation is left to its creation.
CompleteUnchecked(k) ==
  /\ k \in DOMAIN activations /\ activations[k].state = "open"
  /\ Open(activations[k].of)
  /\ Activate(k, invitations[activations[k].of])

\* complete_account_activation
CompleteActivation(k) ==
  /\ k \in DOMAIN activations /\ activations[k].state = "open"
  /\ LET inv == invitations[activations[k].of]
     IN /\ inv.state = "open"
        /\ inv.attempts <= ActivationMaxAttempts
        /\ inv.owner = "yes" => bootstrapped = "no" /\ ~AdminExists
        /\ Activate(k, inv)

AccountsNext ==
  \/ \E l \in size.logins :
       \/ CreateSession(l) \/ ResetPassword(l) \/ ChangePassword(l)
       \/ AllowPassword(l)
       \/ DisableAccount(l) \/ LockAccount(l) \/ ReactivateAccount(l) \/ MarkAccountMfaActive(l)
       \/ RevokeRepoAccess(l) \/ \E level \in Levels : GrantRepoAccess(l, level)
       \/ \E r \in Roles : \/ CreateAccount(l, r)
                           \/ \E saved \in BOOLEAN : CreateTemporaryAccount(l, r, saved)
                           \/ \E owner \in {"yes", "no"} : CreateInvitation(l, r, owner)
  \/ \E c \in credentials : CreateToken(c) \/ Authenticate(c) \/ DropCredential(c)
  \/ \E i \in DOMAIN invitations : \/ \E s \in {"revoked", "lapsed"} : CloseInvitation(i, s)
                                   \/ \E knows \in BOOLEAN : StartActivation(i, knows)
  \/ \E k \in DOMAIN activations : LapseActivation(k) \/ CompleteActivation(k)

-----------------------------------------------------------------------------
(* Properties *)

\* auth.rs and actors.rs: an actor handle that stops being valid (its account is
\* disabled, locked or its password reset, its credential is revoked or expires)
\* never becomes valid again, whatever is done to the account afterwards: neither
\* reactivation nor lifting a forced password change revives it.
HandlesStayDead == [][\A b \in actors : ~Valid(b) => ~Valid(b)']_accountVars

\* auth.rs, complete_account_activation: the owner that a bootstrap invitation
\* makes is the first administrator, although an invitation is made and an
\* activation begun long before it is completed, and administrators are also
\* created directly.
OwnerIsFirst ==
  \A i \in DOMAIN invitations :
    invitations[i].owner = "yes" /\ invitations[i].state = "consumed" =>
      \A l \in Logins \ {invitations[i].login} :
        Exists(l) /\ role[l] = "admin" => created[l] > created[invitations[i].login]

=============================================================================
