------------------------------ MODULE ReviewGate ------------------------------
(***************************************************************************)
(* Bound reviews of a pull request and the gate they feed (jeryu-core,     *)
(* engine/bound_reviews.rs and its storage, engine/reviews.rs,             *)
(* engine/pull_requests.rs, engine/branch_protection.rs,                   *)
(* branch_protection/evaluate.rs).                                         *)
(*                                                                         *)
(* A reviewer obtains a challenge, which holds a snapshot of everything    *)
(* the decision rests on: the head, the base, the policy, the code owners, *)
(* the reviewer's credential and grant, the events and the advisory        *)
(* evidence so far.  The verdict is accepted only if the same snapshot is  *)
(* observed again.  What counts is computed from the accepted events       *)
(* whenever it is needed; the pull request keeps the last evaluation.      *)
(*                                                                         *)
(* One pull request of one repository is modelled; its source is a branch  *)
(* of the same repository.  The review operations hold the repository's    *)
(* guards from validation to commit, so that each is one step.             *)
(***************************************************************************)
EXTENDS Accounts

CONSTANTS
  Author,  \* the login of the author of the pull request
  Heads,   \* commits that the source branch can point to
  AuditEnforced, \* JERYU_AUDIT_ENFORCE_MERGE of the process
  Owners,  \* what CODEOWNERS can say of the changed path: sets of logins
  Counts   \* the numbers of approvals that a protection rule can ask for

ASSUME CountsAssumption == Counts \subseteq Nat
ASSUME AuthorAssumption == Author \in Logins
ASSUME AuditAssumption == AuditEnforced \in BOOLEAN

Verdicts == {"approved", "changes_requested", "commented"}

VARIABLES
  live,       \* the commit that the source branch points to
  pushed,     \* commits of accepted pushes whose pull request refresh is due
  head,       \* PullRequest.head.sha
  base,       \* the commit of the destination branch: the date of its push
  pull,       \* PullRequest.state: "draft", "open", "closed" or "merged"
  mergeable,  \* PullRequest.mergeable as it is stored: "yes" or "no"
  touched,    \* PullRequest.changed_files: "owned", or "free" of code owners
  policy,     \* the protection rule of the base branch, a record, or NoRule
  owners,     \* the owners of the changed path in CODEOWNERS
  notes,      \* the date of the newest advisory review
  checks,     \* of every commit, the date of its newest status or check run
  challenges, \* review challenges
  events      \* accepted review events; an event's sequence number is its place

pullVars == <<live, pushed, head, base, pull, mergeable, touched, policy, owners, notes, checks,
              challenges, events>>
vars == <<accountVars, pullVars>>

\* What the passing of time alone leaves as it is
untickedVars == <<status, role, epoch, password, created, credentials, issued, actors, grant,
                  inviteVars, size>>

NoRule == [at |-> 0, count |-> 0, unmet |-> FALSE]

-----------------------------------------------------------------------------
(* What counts *)

\* reduced_bound_events.  A rejection counts, and an approval that is not the
\* author's own; a dismissal withdraws the verdict it names only if that is the
\* reviewer's current one; a comment is nothing.
Decides(e) == \/ e.verdict = "changes_requested"
              \/ e.verdict = "approved" /\ e.by.login # Author

Turn(all, latest, i) ==
  LET e == all[i]
      withdraws == e.verdict = "dismissed" /\ e.target = latest[e.by.login]
  IN  [latest EXCEPT ![e.by.login] = IF Decides(e) THEN i ELSE IF withdraws THEN 0 ELSE @]

\* The loop: the place of every reviewer's current verdict after n events, over those
\* of the events at the places S that were made on the head h.
LatestOf(all, h, S) ==
  LET latest[n \in 0..Len(all)] ==
        IF n = 0 THEN [l \in Logins |-> 0]
        ELSE IF n \in S /\ all[n].snapshot.head = h THEN Turn(all, latest[n - 1], n)
        ELSE latest[n - 1]
  IN  latest

ReducedOf(all, h, S) ==
  LET latest == LatestOf(all, h, S)[Len(all)]
  IN  {latest[l] : l \in Logins} \ {0}

Reduced == ReducedOf(events, head, DOMAIN events)

\* The filter of bound_reviews_for_evaluation
Qualifies(i) == \/ events[i].verdict = "changes_requested"
                \/ /\ events[i].snapshot.policy = policy
                   /\ events[i].snapshot.owners = owners
                   /\ Valid(events[i].by)
                   /\ MayWrite(events[i].by.login)

\* Mutant: the verdicts are filtered before they are reduced.
FilteredFirst ==
  {i \in ReducedOf(events, head, {j \in DOMAIN events : Qualifies(j)}) : Qualifies(i)}

\* bound_reviews_for_evaluation: reduced first, then filtered.
Counted == {i \in Reduced : Qualifies(i)}

Approvers == {events[i].by.login : i \in {j \in Counted : events[j].verdict = "approved"}}

\* evaluate_branch_protection_with, which evaluate_locked gives no statuses and
\* no check runs: a rule that asks for any is not met, and neither is one about
\* the commits when the pull request's are not as it asks (unmet).  The proof
\* check that the audit enforces on every merge is then missing as well.
Mergeable ==
  /\ pull # "draft"
  /\ ~AuditEnforced
  /\ \A i \in Counted : events[i].verdict # "changes_requested"
  /\ policy # NoRule =>
       /\ Cardinality(Approvers) >= policy.count
       /\ ~policy.unmet
       /\ touched = "owned" /\ owners # {} => owners \cap Approvers # {}

\* apply_evaluation: a closed or merged pull request is not evaluated.
Evaluation == IF pull \notin {"closed", "merged"} /\ Mergeable THEN "yes" ELSE "no"

-----------------------------------------------------------------------------
(* Challenges and verdicts *)

\* observe_review_snapshot; the events are append-only, so their number tells
\* which ones there were.
Snapshot(b) == [head |-> head, base |-> base, draft |-> pull = "draft", touched |-> touched,
                policy |-> policy, owners |-> owners, by |-> b, grant |-> grant[b.login],
                events |-> Len(events), notes |-> notes, checks |-> checks[head]]

\* with_review_context, and the refusals of observe_review_snapshot
MayReview(b) == /\ b \in actors
                /\ Valid(b)
                /\ MayWrite(b.login)
                /\ pull \notin {"closed", "merged"}
                /\ live = head

\* create_review_challenge
CreateReviewChallenge(b) ==
  /\ MayReview(b)
  /\ Len(challenges) < size.challenges
  /\ challenges' = Append(challenges, [snapshot |-> Snapshot(b), lapsed |-> "no", event |-> 0])
  /\ UNCHANGED <<accountVars, live, pushed, head, base, pull, mergeable, touched, policy, owners,
                 notes, checks, events>>

\* The challenge expires.
LapseChallenge(c) ==
  /\ challenges[c].lapsed = "no" /\ challenges[c].event = 0
  /\ Tick
  /\ challenges' = [challenges EXCEPT ![c].lapsed = "yes"]
  /\ UNCHANGED <<untickedVars, live, pushed, head, base, pull, mergeable, touched, policy, owners,
                 notes, checks, events>>

\* Mutant: only the head is compared.
SameHead(b, c) == challenges[c].snapshot.head = head

\* record_bound_review: the snapshot must still be what is observed.
SameSnapshot(b, c) == challenges[c].snapshot = Snapshot(b)

\* commit_bound_review: the event, the consumption of the challenge and the new
\* evaluation of the pull request are one transaction.
Commit(b, c, v, target) ==
  /\ Len(events) < size.events
  /\ events' = Append(events, [by |-> b, verdict |-> v, target |-> target, challenge |-> c,
                               snapshot |-> Snapshot(b)])
  /\ challenges' = [challenges EXCEPT ![c].event = Len(events) + 1]
  /\ UNCHANGED <<accountVars, live, pushed, head, base, pull, touched, policy, owners, notes,
                 checks>>
  /\ mergeable' = Evaluation'

\* record_bound_review; a challenge that was consumed answers with its event.
MayRecord(b, c) == /\ MayReview(b)
                   /\ challenges[c].snapshot.by = b
                   /\ challenges[c].event = 0
                   /\ challenges[c].lapsed = "no"
                   /\ SameSnapshot(b, c)

\* submit_bound_review
SubmitBoundReview(b, c, v) ==
  /\ MayRecord(b, c)
  /\ ~(v = "approved" /\ b.login = Author)
  /\ Commit(b, c, v, 0)

\* dismiss_bound_review: one's own current verdict
DismissBoundReview(b, c, i) ==
  /\ MayRecord(b, c)
  /\ i \in Reduced
  /\ events[i].by.login = b.login
  /\ Commit(b, c, "dismissed", i)

-----------------------------------------------------------------------------
(* What happens to the pull request meanwhile *)

\* A push to the source branch is accepted; the hook that follows it is due.
Push(h) ==
  /\ h # live
  /\ Tick
  /\ live' = h
  /\ pushed' = pushed \cup {h}
  /\ UNCHANGED <<untickedVars, head, base, pull, mergeable, touched, policy, owners, notes, checks,
                 challenges, events>>

\* Mutant: the head moves and the evaluation stays.
RefreshUnevaluated(h) ==
  /\ h \in pushed
  /\ pushed' = pushed \ {h}
  /\ head' = IF pull \in {"closed", "merged"} THEN head ELSE h
  /\ UNCHANGED <<accountVars, live, base, pull, touched, policy, owners, notes, checks, challenges,
                 events, mergeable>>

\* refresh_pull_request_heads_for_ref, called by on_push with the commit that
\* was pushed, whatever the branch points to by now.
RefreshHeads(h) ==
  /\ h \in pushed
  /\ pushed' = pushed \ {h}
  /\ head' = IF pull \in {"closed", "merged"} THEN head ELSE h
  /\ UNCHANGED <<accountVars, live, base, pull, touched, policy, owners, notes, checks, challenges,
                 events>>
  /\ mergeable' = Evaluation'

\* on_push does not look at the answer, and a stopped process forgets the hook.
LoseHook(h) ==
  /\ h \in pushed
  /\ pushed' = pushed \ {h}
  /\ UNCHANGED <<accountVars, live, head, base, pull, mergeable, touched, policy, owners, notes,
                 checks, challenges, events>>

\* A push to the base branch
PushBase ==
  /\ Tick
  /\ base' = clock + 1
  /\ UNCHANGED <<untickedVars, live, pushed, head, pull, mergeable, touched, policy, owners, notes,
                 checks, challenges, events>>

\* set_branch_protection: a rule is dated, and no pull request is evaluated.
SetBranchProtection(n, unmet) ==
  /\ Tick
  /\ policy' = [at |-> clock + 1, count |-> n, unmet |-> unmet]
  /\ UNCHANGED <<untickedVars, live, pushed, head, base, pull, mergeable, touched, owners, notes,
                 checks, challenges, events>>

\* set_codeowners: no date, so that the same contents are the same.
SetCodeowners(o) ==
  /\ o # owners
  /\ Tick
  /\ owners' = o
  /\ UNCHANGED <<untickedVars, live, pushed, head, base, pull, mergeable, touched, policy, notes,
                 checks, challenges, events>>

\* record_review: an advisory review of a trusted caller
CreateReview ==
  /\ Tick
  /\ notes' = clock + 1
  /\ UNCHANGED <<untickedVars, live, pushed, head, base, pull, touched, policy, owners, checks,
                 challenges, events>>
  /\ mergeable' = Evaluation'

\* create_commit_status, create_check_run: pull requests with that head are evaluated.
CreateCheck(h) ==
  /\ Tick
  /\ checks' = [checks EXCEPT ![h] = clock + 1]
  /\ UNCHANGED <<untickedVars, live, pushed, head, base, pull, touched, policy, owners, notes,
                 challenges, events>>
  /\ mergeable' = IF h = head THEN Evaluation' ELSE mergeable

\* update_pull_request with a state, a draft flag or a list of files; a request
\* that sets the draft flag of a closed pull request opens it again.
UpdatePullRequest(state, files) ==
  /\ <<state, files>> # <<pull, touched>>
  /\ Tick
  /\ pull' = state
  /\ touched' = files
  /\ UNCHANGED <<untickedVars, live, pushed, head, base, policy, owners, notes, checks, challenges,
                 events>>
  /\ mergeable' = Evaluation'

-----------------------------------------------------------------------------
Init ==
  /\ AccountsInit
  /\ live \in Heads
  /\ head = live
  /\ pushed = {}
  /\ base = 0
  /\ pull = "open"
  /\ touched = "owned"
  /\ policy = NoRule
  /\ owners = {}
  /\ notes = 0
  /\ checks = [h \in Heads |-> 0]
  /\ challenges = <<>>
  /\ events = <<>>
  /\ mergeable = Evaluation

ReviewStep ==
  \/ \E b \in actors :
       \/ CreateReviewChallenge(b)
       \/ \E c \in DOMAIN challenges : \/ \E v \in Verdicts : SubmitBoundReview(b, c, v)
                                       \/ \E i \in DOMAIN events : DismissBoundReview(b, c, i)
  \/ \E c \in DOMAIN challenges : LapseChallenge(c)

PullStep ==
  \/ \E h \in Heads : Push(h) \/ RefreshHeads(h) \/ LoseHook(h) \/ CreateCheck(h)
  \/ PushBase
  \/ \E n \in Counts, unmet \in BOOLEAN : SetBranchProtection(n, unmet)
  \/ \E o \in Owners : SetCodeowners(o)
  \/ CreateReview
  \/ \E state \in {"draft", "open", "closed", "merged"}, files \in {"owned", "free"} :
       UpdatePullRequest(state, files)

AccountStep == AccountsNext /\ UNCHANGED pullVars

Next == ReviewStep \/ PullStep \/ AccountStep

Spec == Init /\ [][Next]_vars

-----------------------------------------------------------------------------
(* Properties *)

\* bound_reviews.rs, bound_reviews_for_evaluation: "A permission/policy change may
\* withdraw positive qualification, but never erase a rejection or make an older
\* approval reappear."  Only a reviewer's last word on the head counts, and a
\* rejection that is the last word always does.
LastWordCounts ==
  /\ \A i \in Counted : \A j \in DOMAIN events :
       j > i /\ events[j].by.login = events[i].by.login /\ events[j].snapshot.head = head =>
         events[j].verdict = "commented" \/ (events[j].verdict = "dismissed" /\ events[j].target # i)
  /\ \A i \in DOMAIN events :
       /\ events[i].verdict = "changes_requested"
       /\ events[i].snapshot.head = head
       /\ \A j \in DOMAIN events :
            j > i /\ events[j].by.login = events[i].by.login =>
              events[j].verdict = "commented" \/ events[j].snapshot.head # head
       => i \in Counted

\* bound_reviews.rs, record_bound_review: a verdict was given on what its challenge
\* showed, with exactly the events before it in sight, by the holder of the
\* credential that asked for the challenge: of two reviewers that decide at the
\* same time, the second has to look again.  An event that fails this cannot be
\* loaded any more, storage/bound_reviews.rs:127 and :161.
DecidedOnWhatWasSeen ==
  \A i \in DOMAIN events : /\ events[i].snapshot = challenges[events[i].challenge].snapshot
                           /\ events[i].snapshot.events = i - 1
                           /\ events[i].snapshot.by = events[i].by

\* storage/bound_reviews.rs, commit_bound_review: a challenge is consumed by one
\* event, however often its holder sends the verdict again.
OneDecisionPerChallenge ==
  \A i, j \in DOMAIN events : events[i].challenge = events[j].challenge => i = j

\* engine/mod.rs, apply_evaluation: the evaluation that a pull request keeps may
\* be old, but it never says mergeable over a rejection of the present head, or
\* when the pull request is a draft, closed or merged.
MergeableHasNoRejection ==
  mergeable = "yes" => /\ pull = "open"
                       /\ \A i \in Reduced : events[i].verdict # "changes_requested"

=============================================================================
