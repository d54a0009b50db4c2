---------------------------- MODULE MCReviewGate ----------------------------
EXTENDS ReviewGate, TLC

CONSTANTS r1, r2

MCLogins == {r1, r2, Author}
MCOwners == {{}, {r1}}

\* Commits are compared and nothing else.
MCSymmetry == Permutations(Heads)

Reviewing(who, logged, time, decisions) ==
  [members |-> who, logins |-> who, credentials |-> logged, invitations |-> 0,
   changes |-> time, challenges |-> decisions, events |-> decisions]

Inviting(who, invited) ==
  [members |-> {}, logins |-> who, credentials |-> 0, invitations |-> invited,
   changes |-> 0, challenges |-> 0, events |-> 0]

\* A reviewer and the author; a reviewer with two credentials; a reviewer whose
\* account, access or pull request changes time and again; and new accounts.
MCSizes ==
  {Reviewing({r1, Author}, 2, 1, 3), Reviewing({r1}, 2, 2, 2), Reviewing({r1}, 1, 3, 1),
   Reviewing({r1}, 1, 4, 0), Inviting({r1}, 2), Inviting({r1, r2}, 1)}

=============================================================================
