--------------------------- MODULE ReviewGateProofs ---------------------------
(***************************************************************************)
(* Actor handles, review decisions and the stored evaluation, for every    *)
(* set of logins, every policy and every number of reviews.                *)
(*                                                                         *)
(* HandlesStayDead needs two facts about the accounts.  HandleInv: a handle*)
(* whose credential is stored and whose epoch is the account's is valid,   *)
(* so that a handle is only ever invalid for a reason that lasts.          *)
(* BindingsInv: ids and epochs only grow, so that neither comes back.      *)
(*                                                                         *)
(* The stored evaluation only needs that the same events and the same head *)
(* reduce to the same verdicts.  LastWordCounts needs what the loop of     *)
(* ReducedOf computes, which is shown by induction on the events: a least  *)
(* place where it fails would leave it failing at the one before.          *)
(***************************************************************************)
EXTENDS ReviewGate, FiniteSetTheorems, TLAPS

-----------------------------------------------------------------------------
(* Sequences *)

\* The length of a sequence, and its elements.
LEMMA SeqLength ==
  ASSUME NEW S, NEW s \in Seq(S)
  PROVE  /\ Len(s) \in Nat
         /\ s \in [1..Len(s) -> S]
         /\ DOMAIN s = 1..Len(s)
OBVIOUS

\* An element is appended behind the others.
LEMMA SeqAppended ==
  ASSUME NEW S, NEW s \in Seq(S), NEW e \in S
  PROVE  /\ Append(s, e) \in Seq(S)
         /\ Append(s, e) # <<>>
         /\ Len(Append(s, e)) = Len(s) + 1
         /\ \A i \in 1..Len(s) : Append(s, e)[i] = s[i]
         /\ Append(s, e)[Len(s) + 1] = e
OBVIOUS

\* Replacing one element leaves the others.
LEMMA SeqReplaced ==
  ASSUME NEW S, NEW s \in Seq(S), NEW i \in 1..Len(s), NEW e \in S
  PROVE  /\ [s EXCEPT ![i] = e] \in Seq(S)
         /\ Len([s EXCEPT ![i] = e]) = Len(s)
         /\ \A j \in 1..Len(s) : [s EXCEPT ![i] = e][j] = IF j = i THEN e ELSE s[j]
OBVIOUS

-----------------------------------------------------------------------------
(* The reduction of the events *)

\* A set of numbers that is not empty has a least one.
LEMMA Least ==
  ASSUME NEW S \in SUBSET Nat, S # {}
  PROVE  \E n \in S : \A m \in S : n <= m
<1> DEFINE R == OpToRel(<, Nat)
<1>1. IsWellFoundedOn(R, Nat)
  BY ZenonT(30), NatLessThanWellFounded
<1>2. \E x \in S : \A y \in S : ~ (<<y, x>> \in R)
  <2> HIDE DEF R
  <2> QED BY ZenonT(30), <1>1, WFMin
<1>3. \A x, y \in Nat : x < y => <<x, y>> \in R
  BY DEF OpToRel
<1>4. PICK x \in S : \A y \in S : ~ (<<y, x>> \in R)
  BY ZenonT(30), <1>2
<1>5. \A y \in S : ~ (y < x)
  BY ZenonT(30), <1>3, <1>4
<1>6. QED
  BY <1>5

\* Induction up to N: B is where it fails.
LEMMA UpTo ==
  ASSUME NEW N \in Nat, NEW B \in SUBSET (0..N), 0 \notin B,
         \A n \in 1..N : n \in B => n - 1 \in B
  PROVE  B = {}
<1> SUFFICES ASSUME B # {} PROVE FALSE
  OBVIOUS
<1>1. PICK n \in B : \A m \in B : n <= m
  BY Least
<1>2. n \in 1..N
  BY <1>1
<1>3. QED
  BY <1>1, <1>2

\* What the loop does with the event at the place i
Step(all, h, S, f, i) ==
  IF i \in S /\ all[i].snapshot.head = h THEN Turn(all, f, i) ELSE f

\* g is the loop up to n.
Fold(all, h, S, g, n) ==
  g = [k \in 0..n |-> IF k = 0 THEN [l \in Logins |-> 0] ELSE Step(all, h, S, g[k - 1], k)]

\* There is such a g: that of one event less, extended.
LEMMA FoldExists ==
  ASSUME NEW all, NEW h, NEW S, NEW N \in Nat
  PROVE  \E g : Fold(all, h, S, g, N)
<1> DEFINE B == {n \in 0..N : ~\E g : Fold(all, h, S, g, n)}
<1>1. 0 \notin B
  <2>1. Fold(all, h, S, [k \in 0..0 |-> [l \in Logins |-> 0]], 0)
    BY DEF Fold
  <2>2. QED
    BY ZenonT(30), <2>1
<1>2. ASSUME NEW n \in 1..N, n - 1 \notin B PROVE n \notin B
  <2>1. n - 1 \in 0..N
    OBVIOUS
  <2>2. PICK g : Fold(all, h, S, g, n - 1)
    BY ZenonT(30), <1>2, <2>1
  <2> DEFINE x == Step(all, h, S, g[n - 1], n)
             f == [k \in 0..n |-> IF k = n THEN x ELSE g[k]]
  <2>3. \A k \in 0..n - 1 : f[k] = g[k]
    OBVIOUS
  <2>4. \A k \in 0..n : k # 0 => k - 1 \in 0..n - 1
    OBVIOUS
  <2>5. \A k \in 0..n - 1 : g[k] = IF k = 0 THEN [l \in Logins |-> 0]
                                  ELSE Step(all, h, S, g[k - 1], k)
    BY ZenonT(30), <2>2 DEF Fold
  <2>6. \A k \in 0..n : f[k] = IF k = 0 THEN [l \in Logins |-> 0]
                              ELSE Step(all, h, S, f[k - 1], k)
    <3> TAKE k \in 0..n
    <3>1. CASE k = n
      <4>1. f[k] = x /\ k # 0 /\ k - 1 \in 0..n - 1
        BY <3>1
      <4>2. f[k - 1] = g[k - 1]
        BY ZenonT(30), <2>3, <4>1
      <4>3. QED
        BY ZenonT(30), <3>1, <4>1, <4>2
    <3>2. CASE k # n
      <4>1. k \in 0..n - 1
        BY <3>2
      <4>2. k # 0 => f[k - 1] = g[k - 1]
        BY ZenonT(30), <2>3, <2>4
      <4> HIDE DEF f
      <4>3. QED
        BY ZenonT(30), <2>3, <2>5, <4>1, <4>2
    <3>3. QED
      BY ZenonT(30), <3>1, <3>2
  <2>7. f = [k \in 0..n |-> f[k]]
    OBVIOUS
  <2> HIDE DEF f
  <2>8. Fold(all, h, S, f, n)
    BY ZenonT(30), <2>6, <2>7 DEF Fold
  <2>9. QED
    BY ZenonT(30), <2>8
<1> HIDE DEF B
<1>3. B = {}
  <2>1. B \in SUBSET (0..N)
    BY DEF B
  <2>2. QED
    BY ZenonT(30), <1>1, <1>2, <2>1, UpTo
<1>4. QED
  BY <1>3 DEF B

\* So the recursive definition of the loop is what it says.
LEMMA LatestFolds ==
  ASSUME NEW all, Len(all) \in Nat, NEW h, NEW S
  PROVE  Fold(all, h, S, LatestOf(all, h, S), Len(all))
<1>1. \E g : Fold(all, h, S, g, Len(all))
  BY ZenonT(30), FoldExists
<1>2. LatestOf(all, h, S) = CHOOSE g : Fold(all, h, S, g, Len(all))
  BY DEF LatestOf, Fold, Step
<1>3. QED
  BY ZenonT(30), <1>1, <1>2

\* The event at the place i is about h and of the reviewer l.
Seen(all, h, S, i, l) == i \in S /\ all[i].snapshot.head = h /\ all[i].by.login = l

\* What the loop knows after n events: the place of a reviewer's current verdict is
\* that of the last one that nothing superseded, and a rejection with only comments
\* after it is current.
Words(all, h, S, f, n) ==
  /\ f \in [Logins -> Nat]
  /\ \A l \in Logins : f[l] # 0 =>
       /\ f[l] \in 1..n /\ Seen(all, h, S, f[l], l) /\ Decides(all[f[l]])
       /\ \A j \in f[l] + 1..n : Seen(all, h, S, j, l) =>
            ~Decides(all[j]) /\ ~(all[j].verdict = "dismissed" /\ all[j].target = f[l])
  /\ \A l \in Logins, i \in 1..n :
       /\ Seen(all, h, S, i, l) /\ all[i].verdict = "changes_requested"
       /\ \A j \in i + 1..n : Seen(all, h, S, j, l) => all[j].verdict = "commented"
       => f[l] = i

\* One event more
LEMMA TurnWords ==
  ASSUME NEW all, NEW h, NEW S, NEW n \in Nat, n # 0, all[n].by.login \in Logins,
         NEW f, Words(all, h, S, f, n - 1), NEW g, g = Step(all, h, S, f, n)
  PROVE  Words(all, h, S, g, n)
<1> DEFINE e == all[n]
           m == e.by.login
<1>1. f \in [Logins -> Nat] /\ m \in Logins
  BY ZenonT(30) DEF Words
<1>2. \A i \in 1..n : i = n \/ i \in 1..n - 1
  OBVIOUS
<1>3. \A i \in 1..n - 1 : /\ i \in 1..n
                          /\ \A j \in i + 1..n : j = n \/ j \in i + 1..n - 1
                          /\ \A j \in i + 1..n - 1 : j \in i + 1..n
                          /\ n \in i + 1..n
  OBVIOUS
<1>4. CASE ~Seen(all, h, S, n, m)
  <2>1. g = f
    BY ZenonT(30), <1>4 DEF Step, Seen
  <2>2. \A l \in Logins : ~Seen(all, h, S, n, l)
    BY ZenonT(30), <1>4 DEF Seen
  <2>3. ASSUME NEW l \in Logins, f[l] # 0
        PROVE  /\ f[l] \in 1..n /\ Seen(all, h, S, f[l], l) /\ Decides(all[f[l]])
               /\ \A j \in f[l] + 1..n : Seen(all, h, S, j, l) =>
                    ~Decides(all[j]) /\ ~(all[j].verdict = "dismissed" /\ all[j].target = f[l])
    <3>1. /\ f[l] \in 1..n - 1 /\ Seen(all, h, S, f[l], l) /\ Decides(all[f[l]])
          /\ \A j \in f[l] + 1..n - 1 : Seen(all, h, S, j, l) =>
                ~Decides(all[j]) /\ ~(all[j].verdict = "dismissed" /\ all[j].target = f[l])
      BY ZenonT(30), <2>3 DEF Words
    <3>2. QED
      BY ZenonT(30), <1>3, <2>2, <3>1
  <2>4. ASSUME NEW l \in Logins, NEW i \in 1..n,
               Seen(all, h, S, i, l), all[i].verdict = "changes_requested",
               \A j \in i + 1..n : Seen(all, h, S, j, l) => all[j].verdict = "commented"
        PROVE  f[l] = i
    <3>1. i \in 1..n - 1
      BY ZenonT(30), <1>2, <2>2, <2>4
    <3>2. QED
      BY ZenonT(30), <1>3, <2>4, <3>1 DEF Words
  <2>5. QED
    BY ZenonT(30), <1>1, <2>1, <2>3, <2>4 DEF Words
<1>5. CASE Seen(all, h, S, n, m)
  <2> DEFINE v == IF Decides(e) THEN n
                  ELSE IF e.verdict = "dismissed" /\ e.target = f[m] THEN 0 ELSE f[m]
  <2>1. g = [f EXCEPT ![m] = v]
    BY ZenonT(30), <1>5 DEF Step, Turn, Seen
  <2>2. v \in Nat
    BY ZenonT(30), <1>1
  <2>3. g[m] = v /\ g \in [Logins -> Nat] /\ \A l \in Logins : l # m => g[l] = f[l]
    BY ZenonT(30), <1>1, <2>1, <2>2
  <2>4. \A l \in Logins : Seen(all, h, S, n, l) => l = m
    BY ZenonT(30) DEF Seen
  <2>5. \/ v = n /\ Decides(e)
        \/ v = 0
        \/ v = f[m] /\ ~Decides(e) /\ ~(e.verdict = "dismissed" /\ e.target = v)
    BY ZenonT(30)
  <2>6. e.verdict = "changes_requested" => v = n
    BY ZenonT(30) DEF Decides
  <2>7. e.verdict = "commented" => v = f[m]
    BY ZenonT(30) DEF Decides
  <2> HIDE DEF v, e, m
  <2>8. ASSUME NEW l \in Logins, g[l] # 0
        PROVE  /\ g[l] \in 1..n /\ Seen(all, h, S, g[l], l) /\ Decides(all[g[l]])
               /\ \A j \in g[l] + 1..n : Seen(all, h, S, j, l) =>
                    ~Decides(all[j]) /\ ~(all[j].verdict = "dismissed" /\ all[j].target = g[l])
    <3>1. CASE l = m /\ v = n /\ Decides(e)
      BY <1>5, <2>3, <3>1 DEF e
    <3>2. CASE g[l] = f[l] /\ (l = m => ~Decides(e) /\ ~(e.verdict = "dismissed" /\ e.target = f[l]))
      <4>1. /\ f[l] \in 1..n - 1 /\ Seen(all, h, S, f[l], l) /\ Decides(all[f[l]])
            /\ \A j \in f[l] + 1..n - 1 : Seen(all, h, S, j, l) =>
                  ~Decides(all[j]) /\ ~(all[j].verdict = "dismissed" /\ all[j].target = f[l])
        BY ZenonT(30), <2>8, <3>2 DEF Words
      <4>2. Seen(all, h, S, n, l) =>
                  ~Decides(all[n]) /\ ~(all[n].verdict = "dismissed" /\ all[n].target = f[l])
        BY ZenonT(30), <2>4, <3>2 DEF e
      <4>3. QED
        BY ZenonT(30), <1>3, <3>2, <4>1, <4>2
    <3>3. QED
      BY ZenonT(30), <2>3, <2>5, <2>8, <3>1, <3>2
  <2>9. ASSUME NEW l \in Logins, NEW i \in 1..n,
               Seen(all, h, S, i, l), all[i].verdict = "changes_requested",
               \A j \in i + 1..n : Seen(all, h, S, j, l) => all[j].verdict = "commented"
        PROVE  g[l] = i
    <3>1. CASE i = n
      BY ZenonT(30), <2>3, <2>4, <2>6, <2>9, <3>1 DEF e
    <3>2. CASE i \in 1..n - 1
      <4>1. f[l] = i
        BY ZenonT(30), <1>3, <2>9, <3>2 DEF Words
      <4>2. l = m => e.verdict = "commented"
        BY ZenonT(30), <1>3, <1>5, <2>9, <3>2 DEF e
      <4>3. QED
        BY ZenonT(30), <2>3, <2>7, <4>1, <4>2
    <3>3. QED
      BY ZenonT(30), <1>2, <3>1, <3>2
  <2>10. QED
    BY ZenonT(30), <2>3, <2>8, <2>9 DEF Words
<1>6. QED
  BY ZenonT(30), <1>4, <1>5

\* The whole loop
LEMMA ReducedWords ==
  ASSUME NEW all, Len(all) \in Nat, NEW h, NEW S,
         \A i \in 1..Len(all) : all[i].by.login \in Logins
  PROVE  Words(all, h, S, LatestOf(all, h, S)[Len(all)], Len(all))
<1> DEFINE N == Len(all)
           f == LatestOf(all, h, S)
           B == {n \in 0..N : ~Words(all, h, S, f[n], n)}
<1>1. Fold(all, h, S, f, N)
  BY ZenonT(30), LatestFolds
<1> HIDE DEF f
<1>2. /\ f[0] = [l \in Logins |-> 0]
      /\ \A n \in 1..N : f[n] = Step(all, h, S, f[n - 1], n)
  <2>1. \A k \in 0..N : f[k] = IF k = 0 THEN [l \in Logins |-> 0]
                              ELSE Step(all, h, S, f[k - 1], k)
    BY ZenonT(30), <1>1 DEF Fold
  <2>2. QED
    BY <2>1
<1>3. 0 \notin B
  BY <1>2 DEF Words
<1>4. ASSUME NEW n \in 1..N, n - 1 \notin B PROVE n \notin B
  <2>1. Words(all, h, S, f[n - 1], n - 1) /\ n \in Nat /\ n # 0
    BY <1>4
  <2>2. f[n] = Step(all, h, S, f[n - 1], n) /\ all[n].by.login \in Logins
    BY ZenonT(30), <1>2
  <2>3. Words(all, h, S, f[n], n)
    BY ZenonT(30), <2>1, <2>2, TurnWords
  <2>4. QED
    BY ZenonT(30), <2>3
<1> HIDE DEF B
<1>5. B = {}
  <2>1. B \in SUBSET (0..N)
    BY DEF B
  <2>2. QED
    BY ZenonT(30), <1>3, <1>4, <2>1, UpTo
<1>6. QED
  BY <1>5 DEF B, f

-----------------------------------------------------------------------------
(* The accounts *)

Bindings == [login : Logins, epoch : Nat, id : Nat]

BindingsInv ==
  /\ issued \in Nat
  /\ epoch \in [Logins -> Nat]
  /\ status \in [Logins -> Statuses \cup {"absent"}]
  /\ password \in [Logins -> {"ok", "must_change"}]
  /\ credentials \subseteq Bindings
  /\ actors \subseteq Bindings
  /\ size.logins \subseteq Logins
  /\ \A b \in credentials \cup actors : /\ b.id <= issued
                                        /\ b.epoch <= epoch[b.login]
                                        /\ status[b.login] # "absent"

HandleInv ==
  \A b \in actors \cap credentials :
    b.epoch = epoch[b.login] => status[b.login] = "active" /\ password[b.login] = "ok"

AInv == BindingsInv /\ HandleInv

\* What a step may do to the accounts.
Monotone == \A b \in actors : ~Valid(b) => ~Valid(b)'

\* No account, or the members of the instance, and no credentials yet.
LEMMA AccountsInitInv == AccountsInit => AInv
<1> SUFFICES ASSUME AccountsInit PROVE AInv
  OBVIOUS
<1>1. size.logins \subseteq Logins
  BY ZenonT(30), SizesAssumption DEF AccountsInit
<1> QED
  BY ZenonT(30), <1>1 DEF AccountsInit, AInv, BindingsInv, HandleInv, Statuses

\* create_session and create_personal_access_token: the id is new, so that no
\* handle that lost its credential finds it again.
LEMMA CreateSessionInv ==
  ASSUME AInv, NEW l \in Logins, CreateSession(l)
  PROVE  AInv' /\ Monotone
<1> DEFINE c == [login |-> l, epoch |-> epoch[l], id |-> issued + 1]
<1>1. /\ c \in Bindings /\ c.id = issued + 1 /\ c.login = l /\ c.epoch = epoch[l]
      /\ c \notin actors /\ c \notin credentials
  BY DEF AInv, BindingsInv, Bindings
<1>2. /\ credentials' = credentials \cup {c}
      /\ issued' = issued + 1
      /\ UNCHANGED <<status, epoch, password, actors, size>>
      /\ status[l] = "active"
  BY ZenonT(30) DEF CreateSession
<1> HIDE DEF c
<1>3. BindingsInv'
  <2>1. \A b \in credentials \cup actors : b.id \in Nat
    BY ZenonT(30) DEF AInv, BindingsInv, Bindings
  <2> QED
    BY <1>1, <1>2, <2>1 DEF AInv, BindingsInv
<1>4. HandleInv'
  BY ZenonT(30), <1>1, <1>2 DEF AInv, HandleInv
<1>5. Monotone
  BY ZenonT(30), <1>1, <1>2 DEF Monotone, Valid
<1> QED
  BY ZenonT(30), <1>3, <1>4, <1>5 DEF AInv

\* authenticate_actor mints a handle of a credential that is valid.
LEMMA AuthenticateInv ==
  ASSUME AInv, NEW c \in credentials, Authenticate(c)
  PROVE  AInv' /\ Monotone
<1>1. /\ actors' = actors \cup {c} /\ Valid(c)
      /\ UNCHANGED <<status, epoch, password, credentials, issued, size>>
  BY DEF Authenticate
<1>2. BindingsInv'
  BY ZenonT(30), <1>1 DEF AInv, BindingsInv
<1>3. HandleInv'
  BY ZenonT(30), <1>1 DEF AInv, HandleInv, Valid
<1>4. Monotone
  BY ZenonT(30), <1>1 DEF Monotone, Valid
<1> QED
  BY ZenonT(30), <1>2, <1>3, <1>4 DEF AInv

\* revoke_session and revoke_personal_access_token.
LEMMA DropCredentialInv ==
  ASSUME AInv, NEW c \in credentials, DropCredential(c)
  PROVE  AInv' /\ Monotone
<1>1. /\ credentials' = credentials \ {c}
      /\ UNCHANGED <<status, epoch, password, actors, issued, size>>
  BY DEF DropCredential
<1>2. BindingsInv'
  BY ZenonT(30), <1>1 DEF AInv, BindingsInv
<1>3. HandleInv'
  BY ZenonT(30), <1>1 DEF AInv, HandleInv
<1>4. Monotone
  BY ZenonT(30), <1>1 DEF Monotone, Valid
<1> QED
  BY ZenonT(30), <1>2, <1>3, <1>4 DEF AInv

\* Every loss of trust, whatever it does to the status and the password.
LEMMA DistrustInv ==
  ASSUME AInv, NEW l \in Logins, Distrust(l), status[l] # "absent",
         status' \in [Logins -> Statuses \cup {"absent"}],
         password' \in [Logins -> {"ok", "must_change"}],
         status'[l] # "absent",
         \A m \in Logins \ {l} : status'[m] = status[m] /\ password'[m] = password[m]
  PROVE  AInv' /\ Monotone
<1>1. /\ epoch' \in [Logins -> Nat]
      /\ epoch'[l] = epoch[l] + 1
      /\ \A m \in Logins \ {l} : epoch'[m] = epoch[m]
      /\ credentials' = {c \in credentials : c.login # l}
      /\ UNCHANGED <<actors, issued, size>>
  BY DEF Distrust, AInv, BindingsInv
<1>2. \A b \in credentials \cup actors :
        b.login \in Logins /\ b.epoch \in Nat /\ b.epoch <= epoch[b.login] /\ epoch[b.login] \in Nat
  BY ZenonT(30) DEF AInv, BindingsInv, Bindings
<1>3. BindingsInv'
  BY <1>1, <1>2 DEF AInv, BindingsInv
<1>4. HandleInv'
  BY <1>1, <1>2 DEF AInv, HandleInv
<1>5. Monotone
  BY ZenonT(30), <1>1, <1>2 DEF Monotone, Valid
<1> QED
  BY ZenonT(30), <1>3, <1>4, <1>5 DEF AInv

\* A changed or reset password kills the credentials there are, and revives
\* none.
LEMMA PasswordInv ==
  ASSUME AInv, NEW l \in Logins, ResetPassword(l) \/ ChangePassword(l)
  PROVE  AInv' /\ Monotone
  BY ZenonT(30), DistrustInv DEF ResetPassword, ChangePassword, Exists, AInv, BindingsInv

\* A change of an account's status revives no credential.
LEMMA StatusInv ==
  ASSUME AInv, NEW l \in Logins,
         DisableAccount(l) \/ LockAccount(l) \/ ReactivateAccount(l) \/ MarkAccountMfaActive(l)
  PROVE  AInv' /\ Monotone
<1>1. PICK s \in Statuses : \E from \in SUBSET Statuses : TransitionAccountStatus(l, s, from)
  BY DEF DisableAccount, LockAccount, ReactivateAccount, MarkAccountMfaActive, Statuses
<1>2. /\ Distrust(l) /\ UNCHANGED password
      /\ status[l] \in Statuses /\ status' = [status EXCEPT ![l] = s]
  BY ZenonT(30), <1>1 DEF TransitionAccountStatus
<1> QED
  BY ZenonT(30), <1>2, DistrustInv DEF Statuses, AInv, BindingsInv

\* force_password_change(login, false): the credentials it makes usable again have
\* minted no handle, since minting needs a password that is not to be changed.
LEMMA AllowPasswordInv ==
  ASSUME AInv, NEW l \in Logins, AllowPassword(l)
  PROVE  AInv' /\ Monotone
<1>1. /\ password' = [password EXCEPT ![l] = "ok"]
      /\ UNCHANGED <<status, epoch, credentials, issued, actors, size>>
  BY DEF AllowPassword
<1>2. BindingsInv'
  BY ZenonT(30), <1>1 DEF AInv, BindingsInv
<1>3. HandleInv'
  BY ZenonT(30), <1>1 DEF AInv, HandleInv, BindingsInv, Bindings
<1>4. Monotone
  BY ZenonT(30), <1>1 DEF Monotone, Valid, AInv, HandleInv
<1> QED
  BY ZenonT(30), <1>2, <1>3, <1>4 DEF AInv

\* A new account has no credentials and no handles.
LEMMA NewAccountInv ==
  ASSUME AInv, NEW l \in Logins, NEW s \in Statuses, NEW r, NEW e \in Nat,
         NEW p \in {"ok", "must_change"}, NewAccount(l, s, r, e, p)
  PROVE  AInv' /\ Monotone
<1>1. /\ status[l] = "absent"
      /\ status' = [status EXCEPT ![l] = s]
      /\ epoch' = [epoch EXCEPT ![l] = e]
      /\ password' = [password EXCEPT ![l] = p]
      /\ UNCHANGED <<credentials, issued, actors, size>>
  BY ZenonT(30) DEF NewAccount
<1>2. \A b \in credentials \cup actors : b.login \in Logins /\ b.login # l
  BY ZenonT(30), <1>1 DEF AInv, BindingsInv, Bindings
<1>3. \A b \in credentials \cup actors : /\ status'[b.login] = status[b.login]
                                        /\ epoch'[b.login] = epoch[b.login]
                                        /\ password'[b.login] = password[b.login]
  BY ZenonT(30), <1>1, <1>2 DEF AInv, BindingsInv
<1>4. BindingsInv'
  BY <1>1, <1>3 DEF AInv, BindingsInv
<1>5. HandleInv'
  BY ZenonT(30), <1>1, <1>3 DEF AInv, HandleInv
<1>6. Monotone
  BY ZenonT(30), <1>1, <1>3 DEF Monotone, Valid
<1> QED
  BY ZenonT(30), <1>4, <1>5, <1>6 DEF AInv

\* What the accounts' invariant is about.
handleVars == <<status, epoch, password, credentials, issued, actors, size>>

\* A step that leaves accounts and credentials alone revives nothing.
LEMMA UntouchedInv == AInv /\ UNCHANGED handleVars => AInv' /\ Monotone
  BY ZenonT(30) DEF AInv, BindingsInv, HandleInv, Monotone, Valid, handleVars

-----------------------------------------------------------------------------
(* Invitations *)

Invitations == [login : Logins, role : Roles, owner : {"yes", "no"},
                state : {"open", "revoked", "lapsed", "consumed"}, attempts : Nat]
Activations == [of : Nat, state : {"open", "lapsed", "consumed"}]

\* Accounts are dated by how many there were before; an owner was activated when
\* there was no administrator, and marks the installation as bootstrapped.
InvitesInv ==
  /\ invitations \in Seq(Invitations)
  /\ activations \in Seq(Activations)
  /\ \A k \in DOMAIN activations : activations[k].of \in DOMAIN invitations
  /\ created \in [Logins -> Nat]
  /\ role \in [Logins -> Roles]
  /\ \A l \in Logins : Exists(l) => created[l] < Population
  /\ \A i \in DOMAIN invitations :
       invitations[i].state = "consumed" =>
         /\ Exists(invitations[i].login)
         /\ invitations[i].owner = "yes" => bootstrapped = "yes"

IInv == AInv /\ InvitesInv /\ OwnerIsFirst

\* The accounts there are, and one more of them.
LEMMA PopulationGrows ==
  ASSUME NEW l \in Logins, status[l] = "absent", NEW s \in Statuses,
         status \in [Logins -> Statuses \cup {"absent"}],
         status' = [status EXCEPT ![l] = s]
  PROVE  Population \in Nat /\ Population' = Population + 1
<1> DEFINE S == {m \in Logins : Exists(m)}
<1>1. IsFiniteSet(S) /\ l \notin S
  BY ZenonT(30), LoginsAssumption, FS_Subset DEF Exists
<1>2. S' = S \cup {l}
  BY DEF Exists, Statuses
<1>3. Cardinality(S) \in Nat /\ Cardinality(S \cup {l}) = Cardinality(S) + 1
  BY ZenonT(30), <1>1, FS_CardinalityType, FS_AddElement
<1> QED
  BY ZenonT(30), <1>2, <1>3 DEF Population

\* What an entry of the invitations is.
LEMMA InvitationType ==
  ASSUME InvitesInv, NEW i \in DOMAIN invitations
  PROVE  /\ invitations[i] \in Invitations
         /\ invitations[i].login \in Logins
         /\ i \in 1..Len(invitations) /\ Len(invitations) \in Nat
<1>1. invitations[i] \in Invitations /\ i \in 1..Len(invitations) /\ Len(invitations) \in Nat
  BY DEF InvitesInv
<1> QED
  BY ZenonT(30), <1>1 DEF Invitations

\* Without invitations the first account is still to come.
LEMMA InvitesInitInv == AccountsInit => InvitesInv /\ OwnerIsFirst
<1> SUFFICES ASSUME AccountsInit PROVE InvitesInv /\ OwnerIsFirst
  OBVIOUS
<1>1. ASSUME NEW l \in Logins, Exists(l) PROVE 0 < Population
  <2> DEFINE S == {m \in Logins : Exists(m)}
  <2>1. IsFiniteSet(S) /\ l \in S
    BY ZenonT(30), <1>1, LoginsAssumption, FS_Subset
  <2>2. Cardinality(S) \in Nat /\ Cardinality(S) # 0
    BY ZenonT(30), <2>1, FS_CardinalityType, FS_EmptySet
  <2> QED
    BY <2>2 DEF Population
<1>2. OwnerIsFirst
  BY ZenonT(30) DEF AccountsInit, OwnerIsFirst
<1>3. /\ invitations \in Seq(Invitations) /\ DOMAIN invitations = {}
      /\ activations \in Seq(Activations) /\ DOMAIN activations = {}
  <2>1. invitations = <<>> /\ activations = <<>>
    BY ZenonT(30) DEF AccountsInit
  <2> QED
    BY <2>1
<1>4. created \in [Logins -> Nat] /\ role \in [Logins -> Roles] /\ \A l \in Logins : created[l] = 0
  BY ZenonT(30) DEF AccountsInit, Roles
<1> QED
  BY ZenonT(30), <1>1, <1>2, <1>3, <1>4 DEF InvitesInv

\* A change of status or none, with the invitations left alone, keeps who exists.
LEMMA SameAccounts ==
  ASSUME InvitesInv, OwnerIsFirst, UNCHANGED <<role, created, inviteVars>>,
         \A l \in Logins : Exists(l)' <=> Exists(l)
  PROVE  InvitesInv' /\ OwnerIsFirst'
<1>1. {m \in Logins : Exists(m)'} = {m \in Logins : Exists(m)}
  OBVIOUS
<1>2. Population' = Population
  BY ZenonT(30), <1>1 DEF Population
<1>3. \A i \in DOMAIN invitations : invitations[i].login \in Logins
  BY ZenonT(30), InvitationType
<1>4. InvitesInv'
  BY ZenonT(30), <1>2, <1>3 DEF InvitesInv, inviteVars
<1>5. OwnerIsFirst'
  BY ZenonT(30), <1>3 DEF OwnerIsFirst, inviteVars
<1> QED
  BY ZenonT(30), <1>4, <1>5

\* An account is created: it is the newest, and no owner is displaced.
LEMMA NewAccountFirst ==
  ASSUME AInv, InvitesInv, OwnerIsFirst, NEW l \in Logins, NEW s \in Statuses,
         NEW r \in Roles, NEW e, NEW p, NewAccount(l, s, r, e, p)
  PROVE  /\ created' \in [Logins -> Nat] /\ role' \in [Logins -> Roles]
         /\ \A m \in Logins : Exists(m) => /\ Exists(m)' /\ m # l
                                          /\ created'[m] = created[m] /\ role'[m] = role[m]
         /\ \A m \in Logins : Exists(m)' => Exists(m) \/ m = l
         /\ Exists(l)' /\ role'[l] = r
         /\ \A m \in Logins : Exists(m)' => created'[m] < Population'
         /\ \A m \in Logins : Exists(m) => created'[l] > created'[m]
<1>1. /\ status[l] = "absent"
      /\ status' = [status EXCEPT ![l] = s]
      /\ role' = [role EXCEPT ![l] = r]
      /\ created' = [created EXCEPT ![l] = Population]
      /\ status \in [Logins -> Statuses \cup {"absent"}]
  BY ZenonT(30) DEF NewAccount, AInv, BindingsInv
<1>2. Population \in Nat /\ Population' = Population + 1
  BY ZenonT(30), <1>1, PopulationGrows
<1>3. created \in [Logins -> Nat] /\ role \in [Logins -> Roles]
  BY ZenonT(30) DEF InvitesInv
<1>4. \A m \in Logins : Exists(m) => created[m] < Population
  BY ZenonT(30) DEF InvitesInv
<1>5. /\ \A m \in Logins : m # l => (Exists(m)' <=> Exists(m))
      /\ Exists(l)' /\ ~Exists(l)
  BY ZenonT(30), <1>1 DEF Exists, Statuses
<1>6. /\ created' \in [Logins -> Nat] /\ role' \in [Logins -> Roles]
      /\ created'[l] = Population /\ role'[l] = r
      /\ \A m \in Logins \ {l} : created'[m] = created[m] /\ role'[m] = role[m]
  BY ZenonT(30), <1>1, <1>2, <1>3
<1> QED
  BY <1>2, <1>3, <1>4, <1>5, <1>6

\* create_account and create_temporary_account.
LEMMA CreateAccountFirst ==
  ASSUME AInv, InvitesInv, OwnerIsFirst, NEW l \in Logins, NEW s \in Statuses,
         NEW r \in Roles, NEW e, NEW p, NewAccount(l, s, r, e, p), UNCHANGED inviteVars
  PROVE  InvitesInv' /\ OwnerIsFirst'
<1>1. UNCHANGED <<invitations, activations, bootstrapped>>
  BY DEF inviteVars
<1>2. InvitesInv'
  BY ZenonT(30), <1>1, NewAccountFirst, InvitationType DEF InvitesInv
<1>3. OwnerIsFirst'
  <2> SUFFICES ASSUME NEW i \in DOMAIN invitations, invitations[i].owner = "yes",
                      invitations[i].state = "consumed",
                      NEW m \in Logins \ {invitations[i].login}, Exists(m)', role'[m] = "admin"
               PROVE  created'[m] > created'[invitations[i].login]
    BY ZenonT(30), <1>1 DEF OwnerIsFirst
  <2> DEFINE o == invitations[i].login
  <2>1. o \in Logins /\ Exists(o)
    BY ZenonT(30), InvitationType DEF InvitesInv
  <2> HIDE DEF o
  <2>2. CASE m = l
    BY ZenonT(30), <2>1, <2>2, NewAccountFirst DEF o
  <2>3. CASE m # l
    <3>1. Exists(m) /\ role[m] = "admin"
      BY ZenonT(30), <2>3, NewAccountFirst
    <3>2. created[m] > created[o]
      BY ZenonT(30), <3>1 DEF OwnerIsFirst, o
    <3> QED
      BY ZenonT(30), <2>1, <3>1, <3>2, NewAccountFirst DEF o
  <2> QED
    BY ZenonT(30), <2>2, <2>3
<1> QED
  BY ZenonT(30), <1>2, <1>3

\* A step of the invitations that consumes none.
LEMMA NoneConsumed ==
  ASSUME InvitesInv, OwnerIsFirst,
         UNCHANGED <<status, role, created, bootstrapped>>,
         invitations' \in Seq(Invitations), activations' \in Seq(Activations),
         \A k \in DOMAIN activations' : activations'[k].of \in DOMAIN invitations',
         \A i \in DOMAIN invitations' : invitations'[i].state = "consumed" =>
           /\ i \in DOMAIN invitations /\ invitations[i].state = "consumed"
           /\ invitations'[i].login = invitations[i].login
           /\ invitations'[i].owner = invitations[i].owner
  PROVE  InvitesInv' /\ OwnerIsFirst'
<1>1. Population' = Population /\ \A l : Exists(l)' <=> Exists(l)
  BY ZenonT(30) DEF Population, Exists
<1>2. InvitesInv'
  BY ZenonT(30), <1>1 DEF InvitesInv
<1>3. OwnerIsFirst'
  BY ZenonT(30), <1>1 DEF OwnerIsFirst
<1> QED
  BY ZenonT(30), <1>2, <1>3

\* Revoking a lapsed invitation leaves a consumed one as it is.
LEMMA RevokeLapsedType ==
  ASSUME NEW inv \in Invitations
  PROVE  /\ RevokeLapsed(inv) \in Invitations
         /\ RevokeLapsed(inv).state = "consumed" => RevokeLapsed(inv) = inv
  BY DEF RevokeLapsed, Invitations

\* The same for all invitations at once.
LEMMA RevokeLapsedSeq ==
  ASSUME NEW s \in Seq(Invitations), NEW f, f = [i \in DOMAIN s |-> RevokeLapsed(s[i])]
  PROVE  /\ f \in Seq(Invitations) /\ Len(f) = Len(s)
         /\ \A i \in 1..Len(s) : f[i].state = "consumed" => f[i] = s[i]
<1>1. \A i \in 1..Len(s) : s[i] \in Invitations
  OBVIOUS
<1>2. DOMAIN s = 1..Len(s) /\ Len(s) \in Nat
  OBVIOUS
<1>3. \A i \in 1..Len(s) : RevokeLapsed(s[i]) \in Invitations
  BY ZenonT(30), <1>1, RevokeLapsedType
<1>4. f \in [1..Len(s) -> Invitations]
  BY ZenonT(30), <1>2, <1>3
<1>5. \A i \in 1..Len(s) : f[i] = RevokeLapsed(s[i])
  BY ZenonT(30), <1>2
<1>6. f \in Seq(Invitations) /\ Len(f) = Len(s)
  BY <1>2, <1>4
<1> QED
  BY ZenonT(30), <1>1, <1>5, <1>6, RevokeLapsedType

\* create_account_invitation
LEMMA CreateInvitationFirst ==
  ASSUME InvitesInv, OwnerIsFirst, NEW l \in Logins, NEW r \in Roles, NEW o \in {"yes", "no"},
         CreateInvitation(l, r, o)
  PROVE  InvitesInv' /\ OwnerIsFirst'
<1> DEFINE new == [login |-> l, role |-> r, owner |-> o, state |-> "open", attempts |-> 0]
           old == [i \in DOMAIN invitations |-> RevokeLapsed(invitations[i])]
           n == Len(invitations)
<1>1. new \in Invitations /\ new.state = "open"
  BY ZenonT(30) DEF Invitations
<1>2. n \in Nat /\ DOMAIN invitations = 1..n
  BY DEF InvitesInv
<1>3. invitations \in Seq(Invitations)
  BY ZenonT(30) DEF InvitesInv
<1>4. /\ old \in Seq(Invitations) /\ Len(old) = n
      /\ \A i \in 1..n : old[i].state = "consumed" => old[i] = invitations[i]
  BY ZenonT(30), <1>3, RevokeLapsedSeq
<1> HIDE DEF new
<1>5. invitations' = Append(old, new) /\ UNCHANGED <<status, role, created, bootstrapped, activations>>
  BY ZenonT(30) DEF CreateInvitation, new
<1> HIDE DEF old
<1>6. /\ invitations' \in Seq(Invitations) /\ DOMAIN invitations' = 1..(n + 1)
      /\ \A i \in 1..n : invitations'[i] = old[i]
      /\ invitations'[n + 1] = new
  BY <1>1, <1>2, <1>4, <1>5, SeqAppended
<1>7. \A k \in DOMAIN activations' : activations'[k].of \in DOMAIN invitations'
  BY <1>2, <1>5, <1>6 DEF InvitesInv
<1>8. \A i \in DOMAIN invitations' : invitations'[i].state = "consumed" =>
           i \in DOMAIN invitations /\ invitations'[i] = invitations[i]
  BY <1>1, <1>2, <1>4, <1>6
<1>9. activations' \in Seq(Activations)
  BY ZenonT(30), <1>5 DEF InvitesInv
<1> QED
  BY ZenonT(30), <1>5, <1>6, <1>7, <1>8, <1>9, NoneConsumed

\* One invitation is changed, and is not consumed by that.
LEMMA OneInvitation ==
  ASSUME InvitesInv, NEW i \in DOMAIN invitations, NEW inv \in Invitations,
         inv.state # "consumed"
  PROVE  LET after == [invitations EXCEPT ![i] = inv]
         IN /\ after \in Seq(Invitations)
            /\ DOMAIN after = DOMAIN invitations
            /\ \A j \in DOMAIN after :
                 after[j].state = "consumed" => after[j] = invitations[j]
<1>1. invitations \in Seq(Invitations) /\ i \in 1..Len(invitations)
  BY ZenonT(30), InvitationType DEF InvitesInv
<1> QED
  BY ZenonT(30), <1>1, SeqReplaced

\* revoke_account_invitation, or an invitation expires
LEMMA CloseInvitationFirst ==
  ASSUME InvitesInv, OwnerIsFirst, NEW i, NEW s \in {"revoked", "lapsed"}, CloseInvitation(i, s)
  PROVE  InvitesInv' /\ OwnerIsFirst'
<1> DEFINE inv == [invitations[i] EXCEPT !.state = s]
<1>1. i \in DOMAIN invitations /\ invitations[i] \in Invitations
  BY ZenonT(30), InvitationType DEF CloseInvitation
<1>2. inv \in Invitations /\ inv.state # "consumed"
  BY ZenonT(30), <1>1 DEF Invitations
<1>3. /\ invitations' = [invitations EXCEPT ![i] = inv]
      /\ UNCHANGED <<status, role, created, bootstrapped, activations>>
  BY ZenonT(30) DEF CloseInvitation
<1> HIDE DEF inv
<1>4. /\ invitations' \in Seq(Invitations)
      /\ DOMAIN invitations' = DOMAIN invitations
      /\ \A j \in DOMAIN invitations' :
           invitations'[j].state = "consumed" => invitations'[j] = invitations[j]
  BY ZenonT(30), <1>1, <1>2, <1>3, OneInvitation
<1>5. activations \in Seq(Activations) /\ \A k \in DOMAIN activations : activations[k].of \in DOMAIN invitations
  BY ZenonT(30) DEF InvitesInv
<1> QED
  BY ZenonT(30), <1>3, <1>4, <1>5, NoneConsumed

\* start_account_activation: an attempt is counted, and a challenge may be added.
LEMMA StartActivationFirst ==
  ASSUME InvitesInv, OwnerIsFirst, NEW i, NEW knows \in BOOLEAN, StartActivation(i, knows)
  PROVE  InvitesInv' /\ OwnerIsFirst'
<1> DEFINE inv == [invitations[i] EXCEPT !.attempts = @ + 1]
           new == [of |-> i, state |-> "open"]
<1>1. /\ i \in DOMAIN invitations /\ invitations[i] \in Invitations
      /\ invitations[i].state = "open" /\ i \in Nat
  BY InvitationType DEF StartActivation, Open
<1>2. inv \in Invitations /\ inv.state # "consumed"
  BY <1>1 DEF Invitations
<1>3. new \in Activations /\ new.of = i
  BY ZenonT(30), <1>1 DEF Activations
<1>4. /\ invitations' = [invitations EXCEPT ![i] = inv]
      /\ activations' = Append(activations, new) \/ activations' = activations
      /\ UNCHANGED <<status, role, created, bootstrapped>>
  BY ZenonT(30) DEF StartActivation
<1> HIDE DEF inv, new
<1>5. /\ invitations' \in Seq(Invitations)
      /\ DOMAIN invitations' = DOMAIN invitations
      /\ \A j \in DOMAIN invitations' :
           invitations'[j].state = "consumed" => invitations'[j] = invitations[j]
  BY ZenonT(30), <1>1, <1>2, <1>4, OneInvitation
<1>6. /\ activations \in Seq(Activations)
      /\ \A k \in DOMAIN activations : activations[k].of \in DOMAIN invitations
  BY ZenonT(30) DEF InvitesInv
<1>7. /\ activations' \in Seq(Activations)
      /\ \A k \in DOMAIN activations' : activations'[k].of \in DOMAIN invitations
  <2>1. CASE activations' = activations
    BY ZenonT(30), <1>6, <2>1
  <2>2. CASE activations' = Append(activations, new)
    <3>1. /\ activations' \in Seq(Activations)
          /\ Len(activations') = Len(activations) + 1 /\ Len(activations) \in Nat
          /\ \A k \in 1..Len(activations) : activations'[k] = activations[k]
          /\ activations'[Len(activations) + 1] = new
      BY <1>3, <1>6, <2>2, SeqAppended, SeqLength
    <3>2. DOMAIN activations = 1..Len(activations) /\ DOMAIN activations' = 1..(Len(activations) + 1)
      BY ZenonT(30), <1>6, <3>1, SeqLength
    <3>3. \A k \in DOMAIN activations' : k = Len(activations) + 1 \/ k \in DOMAIN activations
      BY <3>1, <3>2
    <3> QED
      BY ZenonT(30), <1>1, <1>3, <1>6, <3>1, <3>2, <3>3
  <2> QED
    BY ZenonT(30), <1>4, <2>1, <2>2
<1> QED
  BY ZenonT(30), <1>4, <1>5, <1>7, NoneConsumed

\* One activation challenge changes its state.
LEMMA OneActivation ==
  ASSUME InvitesInv, NEW k \in DOMAIN activations, NEW s \in {"lapsed", "consumed"}
  PROVE  LET after == [activations EXCEPT ![k].state = s]
         IN /\ after \in Seq(Activations)
            /\ \A j \in DOMAIN after : after[j].of \in DOMAIN invitations
<1> DEFINE new == [activations[k] EXCEPT !.state = s]
           after == [activations EXCEPT ![k] = new]
<1>1. /\ activations \in Seq(Activations) /\ k \in 1..Len(activations)
      /\ \A j \in DOMAIN activations : activations[j].of \in DOMAIN invitations
      /\ DOMAIN activations = 1..Len(activations)
  BY DEF InvitesInv
<1>2. activations[k] \in Activations
  BY <1>1
<1>3. new \in Activations /\ new.of = activations[k].of
  BY ZenonT(30), <1>2 DEF Activations
<1> HIDE DEF new
<1>4. /\ after \in Seq(Activations) /\ DOMAIN after = DOMAIN activations
      /\ \A j \in 1..Len(activations) : after[j] = IF j = k THEN new ELSE activations[j]
  BY ZenonT(30), <1>1, <1>3, SeqReplaced
<1>5. \A j \in DOMAIN after : after[j].of \in DOMAIN invitations
  <2> HIDE DEF after
  <2> QED
    BY ZenonT(30), <1>1, <1>3, <1>4
<1> QED
  BY ZenonT(30), <1>4, <1>5 DEF new

\* A lapsed activation does not take the owner's place.
LEMMA LapseActivationFirst ==
  ASSUME InvitesInv, OwnerIsFirst, NEW k, LapseActivation(k)
  PROVE  InvitesInv' /\ OwnerIsFirst'
<1>1. /\ k \in DOMAIN activations
      /\ activations' = [activations EXCEPT ![k].state = "lapsed"]
      /\ UNCHANGED <<status, role, created, bootstrapped, invitations>>
  BY ZenonT(30) DEF LapseActivation
<1>2. /\ activations' \in Seq(Activations)
      /\ \A j \in DOMAIN activations' : activations'[j].of \in DOMAIN invitations
  BY ZenonT(30), <1>1, OneActivation
<1>3. invitations \in Seq(Invitations)
  BY ZenonT(30) DEF InvitesInv
<1> QED
  BY ZenonT(30), <1>1, <1>2, <1>3, NoneConsumed

\* complete_account_activation checks an owner's invitation again.
LEMMA CompleteActivationInv ==
  ASSUME IInv, NEW k, CompleteActivation(k)
  PROVE  IInv' /\ Monotone
<1>1. k \in DOMAIN activations /\ activations[k].of \in DOMAIN invitations
  BY ZenonT(30) DEF CompleteActivation, IInv, InvitesInv
<1> PICK i \in DOMAIN invitations : i = activations[k].of
  BY ZenonT(30), <1>1
<1> PICK inv : inv = invitations[i]
  BY ZenonT(30)
<1> DEFINE l == inv.login
           new == [inv EXCEPT !.state = "consumed"]
<1>2. /\ inv \in Invitations /\ l \in Logins /\ inv.role \in Roles
      /\ invitations \in Seq(Invitations) /\ i \in 1..Len(invitations)
  BY ZenonT(30), <1>1, InvitationType DEF IInv, InvitesInv, Invitations
<1>3. /\ inv.state = "open"
      /\ inv.owner = "yes" => bootstrapped = "no" /\ ~AdminExists
      /\ NewAccount(l, "pending_mfa", inv.role, 0, "ok")
      /\ activations' = [activations EXCEPT ![k].state = "consumed"]
      /\ invitations' = [invitations EXCEPT ![i].state = "consumed"]
      /\ bootstrapped' = IF inv.owner = "yes" THEN "yes" ELSE bootstrapped
  BY ZenonT(30) DEF CompleteActivation, Activate
<1>4. /\ new \in Invitations /\ new.login = l /\ new.owner = inv.owner
      /\ invitations' = [invitations EXCEPT ![i] = new]
  BY ZenonT(30), <1>2, <1>3 DEF Invitations
<1> HIDE DEF new
<1>5. /\ invitations' \in Seq(Invitations) /\ DOMAIN invitations' = DOMAIN invitations
      /\ \A j \in DOMAIN invitations : invitations'[j] = IF j = i THEN new ELSE invitations[j]
  BY ZenonT(30), <1>2, <1>4, SeqReplaced
<1>6. /\ activations' \in Seq(Activations)
      /\ \A j \in DOMAIN activations' : activations'[j].of \in DOMAIN invitations
  BY ZenonT(30), <1>1, <1>3, OneActivation DEF IInv
<1> HIDE DEF l
<1>7. /\ created' \in [Logins -> Nat] /\ role' \in [Logins -> Roles]
      /\ \A m \in Logins : Exists(m) => /\ Exists(m)' /\ m # l
                                       /\ created'[m] = created[m] /\ role'[m] = role[m]
      /\ \A m \in Logins : Exists(m)' => Exists(m) \/ m = l
      /\ Exists(l)'
      /\ \A m \in Logins : Exists(m)' => created'[m] < Population'
      /\ \A m \in Logins : Exists(m) => created'[l] > created'[m]
  <2>1. /\ AInv /\ InvitesInv /\ OwnerIsFirst /\ "pending_mfa" \in Statuses
        /\ l \in Logins /\ inv.role \in Roles
        /\ NewAccount(l, "pending_mfa", inv.role, 0, "ok")
    BY ZenonT(30), <1>2, <1>3 DEF IInv, Statuses
  <2> QED
    BY ZenonT(30), <2>1, NewAccountFirst
<1>8. AInv' /\ Monotone
  BY ZenonT(30), <1>2, <1>3, NewAccountInv DEF IInv, Statuses
<1>9. \A j \in DOMAIN invitations : j # i /\ invitations'[j].state = "consumed" =>
        /\ invitations'[j] = invitations[j]
        /\ invitations[j].login \in Logins /\ Exists(invitations[j].login)
        /\ invitations[j].owner = "yes" => bootstrapped = "yes" /\ bootstrapped' = "yes"
  BY ZenonT(30), <1>3, <1>5, InvitationType DEF IInv, InvitesInv
<1>10. InvitesInv'
  <2>1. ASSUME NEW j \in DOMAIN invitations', invitations'[j].state = "consumed"
        PROVE  /\ status'[invitations'[j].login] # "absent"
               /\ invitations'[j].owner = "yes" => bootstrapped' = "yes"
    <3>1. CASE j = i
      BY ZenonT(30), <1>3, <1>4, <1>5, <1>7, <3>1 DEF Exists
    <3>2. CASE j # i
      BY ZenonT(30), <1>5, <1>7, <1>9, <2>1, <3>2 DEF Exists
    <3> QED
      BY ZenonT(30), <3>1, <3>2
  <2> QED
    BY ZenonT(30), <1>5, <1>6, <1>7, <2>1 DEF InvitesInv, Exists
<1>11. OwnerIsFirst'
  <2> SUFFICES ASSUME NEW j \in DOMAIN invitations', invitations'[j].owner = "yes",
                      invitations'[j].state = "consumed",
                      NEW m \in Logins \ {invitations'[j].login}, Exists(m)', role'[m] = "admin"
               PROVE  created'[m] > created'[invitations'[j].login]
    BY ZenonT(30) DEF OwnerIsFirst
  <2>1. CASE j = i
    <3>1. inv.owner = "yes" /\ invitations'[j].login = l
      BY ZenonT(30), <1>4, <1>5, <2>1
    <3>2. Exists(m) /\ role[m] = "admin"
      BY ZenonT(30), <1>7, <3>1
    <3> QED
      BY ZenonT(30), <1>3, <3>1, <3>2 DEF AdminExists
  <2>2. CASE j # i
    <3> DEFINE o == invitations[j].login
    <3>1. /\ invitations'[j] = invitations[j] /\ o \in Logins /\ Exists(o)
          /\ j \in DOMAIN invitations
      BY ZenonT(30), <1>5, <1>9, <2>2
    <3>2. CASE m = l
      BY ZenonT(30), <1>7, <3>1, <3>2
    <3>3. CASE m # l
      <4>1. Exists(m) /\ role[m] = "admin"
        BY ZenonT(30), <1>7, <3>3
      <4>2. created[m] > created[o]
        BY ZenonT(30), <3>1, <4>1 DEF IInv, OwnerIsFirst
      <4> QED
        BY ZenonT(30), <1>7, <3>1, <4>1, <4>2
    <3> QED
      BY ZenonT(30), <3>2, <3>3
  <2> QED
    BY ZenonT(30), <2>1, <2>2
<1> QED
  BY ZenonT(30), <1>8, <1>10, <1>11 DEF IInv

\* A step that makes no account and leaves the invitations alone.
LEMMA NoNewAccount ==
  ASSUME IInv, AInv' /\ Monotone, UNCHANGED <<role, created, inviteVars>>,
         \A l \in Logins : Exists(l)' <=> Exists(l)
  PROVE  IInv' /\ Monotone
  BY SMTT(20), SameAccounts DEF IInv

\* Every step on the accounts preserves the invariant and revives no
\* credential.
LEMMA AccountsNextInv == IInv /\ AccountsNext => IInv' /\ Monotone
<1> SUFFICES ASSUME IInv, AccountsNext PROVE IInv' /\ Monotone
  OBVIOUS
<1>1. AInv /\ InvitesInv /\ OwnerIsFirst
  BY DEF IInv
<1>2. \A b \in credentials : b.login \in Logins
  BY ZenonT(30), <1>1 DEF AInv, BindingsInv, Bindings
<1>3. status \in [Logins -> Statuses \cup {"absent"}] /\ size.logins \subseteq Logins
  BY ZenonT(30), <1>1 DEF AInv, BindingsInv
<1>4. ASSUME NEW l \in Logins, CreateSession(l) PROVE IInv' /\ Monotone
  <2>1. UNCHANGED <<role, created, inviteVars>> /\ \A m \in Logins : Exists(m)' <=> Exists(m)
    BY ZenonT(30), <1>4 DEF CreateSession, Exists
  <2> QED
    BY ZenonT(30), <1>1, <1>4, <2>1, CreateSessionInv, NoNewAccount
<1>5. ASSUME NEW l \in Logins, ResetPassword(l) \/ ChangePassword(l) PROVE IInv' /\ Monotone
  <2>1. UNCHANGED <<role, created, inviteVars>> /\ \A m \in Logins : Exists(m)' <=> Exists(m)
    BY ZenonT(30), <1>5 DEF ResetPassword, ChangePassword, Distrust, Exists
  <2> QED
    BY ZenonT(30), <1>1, <1>5, <2>1, PasswordInv, NoNewAccount
<1>6. ASSUME NEW l \in Logins, AllowPassword(l) PROVE IInv' /\ Monotone
  <2>1. UNCHANGED <<role, created, inviteVars>> /\ \A m \in Logins : Exists(m)' <=> Exists(m)
    BY ZenonT(30), <1>6 DEF AllowPassword, Exists
  <2> QED
    BY ZenonT(30), <1>1, <1>6, <2>1, AllowPasswordInv, NoNewAccount
<1>7. ASSUME NEW l \in Logins,
             \/ DisableAccount(l) \/ LockAccount(l)
             \/ ReactivateAccount(l) \/ MarkAccountMfaActive(l)
      PROVE  IInv' /\ Monotone
  <2>1. UNCHANGED <<role, created, inviteVars>> /\ \A m \in Logins : Exists(m)' <=> Exists(m)
    BY ZenonT(30), <1>3, <1>7 DEF DisableAccount, LockAccount, ReactivateAccount, MarkAccountMfaActive,
                      TransitionAccountStatus, Distrust, Exists, Statuses
  <2> QED
    BY ZenonT(30), <1>1, <1>7, <2>1, StatusInv, NoNewAccount
<1>8. ASSUME NEW l \in Logins,
             RevokeRepoAccess(l) \/ \E level \in Levels : GrantRepoAccess(l, level)
      PROVE  IInv' /\ Monotone
  <2>1. /\ UNCHANGED handleVars /\ UNCHANGED <<role, created, inviteVars>>
        /\ \A m \in Logins : Exists(m)' <=> Exists(m)
    BY ZenonT(30), <1>8 DEF RevokeRepoAccess, GrantRepoAccess, handleVars, Exists
  <2> QED
    BY ZenonT(30), <1>1, <2>1, UntouchedInv, NoNewAccount
<1>9. ASSUME NEW l \in Logins, NEW r \in Roles,
             CreateAccount(l, r) \/ \E saved \in BOOLEAN : CreateTemporaryAccount(l, r, saved)
      PROVE  IInv' /\ Monotone
  <2>1. PICK e \in Nat, p \in {"ok", "must_change"} : NewAccount(l, "active", r, e, p)
    BY ZenonT(30), <1>9 DEF CreateAccount, CreateTemporaryAccount
  <2>2. UNCHANGED inviteVars /\ "active" \in Statuses
    BY ZenonT(30), <1>9 DEF CreateAccount, CreateTemporaryAccount, Statuses
  <2>3. InvitesInv' /\ OwnerIsFirst'
    BY ZenonT(30), <1>1, <2>1, <2>2, CreateAccountFirst
  <2>4. AInv' /\ Monotone
    BY ZenonT(30), <1>1, <2>1, <2>2, NewAccountInv
  <2> QED
    BY ZenonT(30), <2>3, <2>4 DEF IInv
<1>10. ASSUME NEW l \in Logins, NEW r \in Roles, NEW o \in {"yes", "no"}, CreateInvitation(l, r, o)
       PROVE  IInv' /\ Monotone
  <2>1. UNCHANGED handleVars
    BY ZenonT(30), <1>10 DEF CreateInvitation, handleVars
  <2> QED
    BY SMTT(20), <1>1, <1>10, <2>1, UntouchedInv, CreateInvitationFirst DEF IInv
<1>11. ASSUME NEW c \in credentials, CreateToken(c) \/ Authenticate(c) \/ DropCredential(c)
       PROVE  IInv' /\ Monotone
  <2>1. CASE CreateToken(c)
    BY ZenonT(30), <1>2, <1>4, <2>1 DEF CreateToken
  <2>2. CASE Authenticate(c) \/ DropCredential(c)
    <3>1. UNCHANGED <<role, created, inviteVars>> /\ \A m \in Logins : Exists(m)' <=> Exists(m)
      BY ZenonT(30), <2>2 DEF Authenticate, DropCredential, Exists
    <3> QED
      BY ZenonT(30), <1>1, <2>2, <3>1, AuthenticateInv, DropCredentialInv, NoNewAccount
  <2> QED
    BY ZenonT(30), <1>11, <2>1, <2>2
<1>12. ASSUME NEW i, NEW s \in {"revoked", "lapsed"}, CloseInvitation(i, s)
       PROVE  IInv' /\ Monotone
  <2>1. UNCHANGED handleVars
    BY ZenonT(30), <1>12 DEF CloseInvitation, handleVars
  <2> QED
    BY ZenonT(30), <1>1, <1>12, <2>1, UntouchedInv, CloseInvitationFirst DEF IInv
<1>13. ASSUME NEW i, NEW knows \in BOOLEAN, StartActivation(i, knows) PROVE IInv' /\ Monotone
  <2>1. UNCHANGED handleVars
    BY ZenonT(30), <1>13 DEF StartActivation, handleVars
  <2> QED
    BY ZenonT(30), <1>1, <1>13, <2>1, UntouchedInv, StartActivationFirst DEF IInv
<1>14. ASSUME NEW k, LapseActivation(k) PROVE IInv' /\ Monotone
  <2>1. UNCHANGED handleVars
    BY ZenonT(30), <1>14 DEF LapseActivation, handleVars
  <2> QED
    BY ZenonT(30), <1>1, <1>14, <2>1, UntouchedInv, LapseActivationFirst DEF IInv
<1> QED
  BY ZenonT(30), <1>3, <1>4, <1>5, <1>6, <1>7, <1>8, <1>9, <1>10, <1>11, <1>12, <1>13, <1>14,
     CompleteActivationInv DEF AccountsNext

\* The review operations and what happens to the pull request change no account;
\* some of them move the clock.
LEMMA PullVarsInv ==
  ASSUME IInv, UNCHANGED untickedVars
  PROVE  IInv' /\ Monotone
<1>1. UNCHANGED handleVars /\ UNCHANGED <<role, created, inviteVars>>
  BY ZenonT(30) DEF untickedVars, handleVars
<1>2. \A m \in Logins : Exists(m)' <=> Exists(m)
  BY ZenonT(30), <1>1 DEF handleVars, Exists
<1> QED
  BY ZenonT(30), <1>1, <1>2, UntouchedInv, NoNewAccount DEF IInv

-----------------------------------------------------------------------------
(* The verdicts and the evaluation *)

\* Every event names the challenge it consumed, which names the event.
ReviewInv ==
  /\ \E S : events \in Seq(S)
  /\ \E S : challenges \in Seq(S)
  /\ \A c \in DOMAIN challenges :
       \E s, l, e : challenges[c] = [snapshot |-> s, lapsed |-> l, event |-> e]
  /\ \A i \in DOMAIN events : /\ events[i].challenge \in DOMAIN challenges
                               /\ challenges[events[i].challenge].event = i
  /\ DecidedOnWhatWasSeen

EvaluationInv == /\ pull \in {"draft", "open", "closed", "merged"}
                 /\ MergeableHasNoRejection

\* What Append does.
LEMMA SequenceExtended ==
  ASSUME NEW S, NEW s \in Seq(S), NEW e
  PROVE  /\ Append(s, e) \in Seq(S \cup {e})
         /\ DOMAIN s = 1..Len(s) /\ Len(s) \in Nat
         /\ DOMAIN Append(s, e) = 1..(Len(s) + 1)
         /\ \A i \in DOMAIN s : Append(s, e)[i] = s[i]
         /\ Append(s, e)[Len(s) + 1] = e
<1>1. s \in Seq(S \cup {e}) /\ Len(s) \in Nat /\ DOMAIN s = 1..Len(s)
  BY SeqLength
<1> QED
  BY <1>1, SeqAppended

\* The numbers of a sequence that grew by one.
LEMMA OneMore ==
  ASSUME NEW m \in Nat, NEW n, n = m + 1
  PROVE  /\ m = n - 1
         /\ \A i \in 1..m : i # n /\ i # 0
         /\ \A i \in 1..n : i \in 1..m \/ i = n
  OBVIOUS

\* A challenge whose event or whose lapse is set.
LEMMA SequenceChanged ==
  ASSUME NEW S, NEW s \in Seq(S), NEW c \in DOMAIN s, NEW e
  PROVE  /\ [s EXCEPT ![c] = e] \in Seq(S \cup {e})
         /\ DOMAIN [s EXCEPT ![c] = e] = DOMAIN s
<1>1. s \in Seq(S \cup {e}) /\ c \in 1..Len(s)
  BY SeqLength
<1> QED
  BY ZenonT(30), <1>1, SeqReplaced

\* What a change of one field of a challenge leaves alone.
LEMMA ChallengeChanged ==
  ASSUME NEW x, NEW s, NEW l, NEW e, NEW m, NEW f,
         x = [snapshot |-> s, lapsed |-> l, event |-> e]
  PROVE  /\ [x EXCEPT !.lapsed = m] = [snapshot |-> s, lapsed |-> m, event |-> e]
         /\ [x EXCEPT !.event = f] = [snapshot |-> s, lapsed |-> l, event |-> f]
  OBVIOUS

\* A new challenge preserves the invariant: it has no decision yet.
LEMMA CreateReviewChallengeInv ==
  ASSUME ReviewInv, NEW b, CreateReviewChallenge(b)
  PROVE  ReviewInv'
<1>1. PICK new, seen : /\ new = [snapshot |-> seen, lapsed |-> "no", event |-> 0]
                       /\ challenges' = Append(challenges, new)
                       /\ events' = events
  BY ZenonT(30) DEF CreateReviewChallenge
<1>2. PICK S : challenges \in Seq(S)
  BY ZenonT(30) DEF ReviewInv
<1>3. /\ challenges' \in Seq(S \cup {new})
      /\ DOMAIN challenges = 1..Len(challenges) /\ Len(challenges) \in Nat
      /\ DOMAIN challenges' = 1..(Len(challenges) + 1)
      /\ \A c \in DOMAIN challenges : challenges'[c] = challenges[c]
      /\ challenges'[Len(challenges) + 1] = new
  BY <1>1, <1>2, SequenceExtended
<1>4. (\E T : events \in Seq(T))' /\ (\E T : challenges \in Seq(T))'
  BY ZenonT(30), <1>1, <1>3 DEF ReviewInv
<1>5. (\A c \in DOMAIN challenges :
         \E s, l, e : challenges[c] = [snapshot |-> s, lapsed |-> l, event |-> e])'
  <2>1. \A c \in DOMAIN challenges' : c \in DOMAIN challenges \/ c = Len(challenges) + 1
    BY <1>3
  <2>2. \A c \in DOMAIN challenges :
          \E s, l, e : challenges'[c] = [snapshot |-> s, lapsed |-> l, event |-> e]
    <3> TAKE c \in DOMAIN challenges
    <3>1. PICK s, l, e : challenges[c] = [snapshot |-> s, lapsed |-> l, event |-> e]
      BY ZenonT(30) DEF ReviewInv
    <3>2. challenges'[c] = challenges[c]
      BY ZenonT(30), <1>3
    <3> QED
      BY ZenonT(30), <3>1, <3>2
  <2>3. \E s, l, e : challenges'[Len(challenges) + 1] = [snapshot |-> s, lapsed |-> l, event |-> e]
    BY ZenonT(30), <1>1, <1>3
  <2> QED
    BY ZenonT(30), <2>1, <2>2, <2>3
<1>6. (\A i \in DOMAIN events : /\ events[i].challenge \in DOMAIN challenges
                               /\ challenges[events[i].challenge].event = i)'
  BY <1>1, <1>3 DEF ReviewInv
<1>7. DecidedOnWhatWasSeen'
  BY ZenonT(30), <1>1, <1>3 DEF ReviewInv, DecidedOnWhatWasSeen
<1> QED
  BY ZenonT(30), <1>4, <1>5, <1>6, <1>7 DEF ReviewInv

\* A lapsed challenge preserves the invariant.
LEMMA LapseChallengeInv ==
  ASSUME ReviewInv, NEW c \in DOMAIN challenges, LapseChallenge(c)
  PROVE  ReviewInv'
<1>1. PICK s, e : challenges[c] = [snapshot |-> s, lapsed |-> "no", event |-> e]
  <2>1. PICK s, l, e : challenges[c] = [snapshot |-> s, lapsed |-> l, event |-> e]
    BY ZenonT(30) DEF ReviewInv
  <2>2. challenges[c].lapsed = "no"
    BY ZenonT(30) DEF LapseChallenge
  <2>3. l = "no"
    BY <2>1, <2>2
  <2> QED
    BY ZenonT(30), <2>1, <2>3
<1>2. PICK new : new = [snapshot |-> s, lapsed |-> "yes", event |-> e]
  BY ZenonT(30)
<1>3. challenges' = [challenges EXCEPT ![c] = new] /\ events' = events
  <2>1. [challenges[c] EXCEPT !.lapsed = "yes"] = new
    BY <1>1, <1>2, ChallengeChanged
  <2>2. /\ challenges' = [challenges EXCEPT ![c] = [challenges[c] EXCEPT !.lapsed = "yes"]]
        /\ events' = events
    BY ZenonT(30) DEF LapseChallenge
  <2> QED
    BY ZenonT(30), <2>1, <2>2
<1>4. PICK S : challenges \in Seq(S)
  BY ZenonT(30) DEF ReviewInv
<1>5. challenges' \in Seq(S \cup {new}) /\ DOMAIN challenges' = DOMAIN challenges
  BY ZenonT(30), <1>3, <1>4, SequenceChanged
<1>6. \A d \in DOMAIN challenges : challenges'[d] = IF d = c THEN new ELSE challenges[d]
  BY ZenonT(30), <1>3
<1>7. (\E T : events \in Seq(T))' /\ (\E T : challenges \in Seq(T))'
  BY ZenonT(30), <1>3, <1>5 DEF ReviewInv
<1>8. (\A d \in DOMAIN challenges :
         \E x, l, y : challenges[d] = [snapshot |-> x, lapsed |-> l, event |-> y])'
  <2>1. \A d \in DOMAIN challenges :
          \E x, l, y : challenges[d] = [snapshot |-> x, lapsed |-> l, event |-> y]
    BY ZenonT(30) DEF ReviewInv
  <2>2. \A d \in DOMAIN challenges' : challenges'[d] = new \/ challenges'[d] = challenges[d]
    BY SMTT(20), <1>5, <1>6
  <2> QED
    BY SMTT(20), <1>2, <1>5, <2>1, <2>2
<1>9. \A d \in DOMAIN challenges : /\ challenges'[d].event = challenges[d].event
                                   /\ challenges'[d].snapshot = challenges[d].snapshot
  BY <1>1, <1>2, <1>6
<1>10. (\A i \in DOMAIN events : /\ events[i].challenge \in DOMAIN challenges
                                /\ challenges[events[i].challenge].event = i)'
  BY ZenonT(30), <1>3, <1>5, <1>9 DEF ReviewInv
<1>11. DecidedOnWhatWasSeen'
  <2>1. \A i \in DOMAIN events : events[i].challenge \in DOMAIN challenges
    BY ZenonT(30) DEF ReviewInv
  <2>2. DecidedOnWhatWasSeen /\ events' = events
    BY ZenonT(30), <1>3 DEF ReviewInv
  <2> QED
    BY ZenonT(30), <1>9, <2>1, <2>2 DEF DecidedOnWhatWasSeen
<1> QED
  BY ZenonT(30), <1>7, <1>8, <1>10, <1>11 DEF ReviewInv

\* The one place where an event is made.
LEMMA CommitInv ==
  ASSUME ReviewInv, NEW b, NEW c \in DOMAIN challenges, NEW v, NEW target,
         MayRecord(b, c), Commit(b, c, v, target)
  PROVE  ReviewInv'
<1>1. PICK n, event :
        /\ n = Len(events) + 1
        /\ event = [by |-> b, verdict |-> v, target |-> target, challenge |-> c,
                    snapshot |-> Snapshot(b)]
        /\ events' = Append(events, event)
  BY ZenonT(30) DEF Commit
<1>2. PICK s, l : challenges[c] = [snapshot |-> s, lapsed |-> l, event |-> 0]
  <2>1. PICK s, l, e : challenges[c] = [snapshot |-> s, lapsed |-> l, event |-> e]
    BY ZenonT(30) DEF ReviewInv
  <2>2. challenges[c].event = 0
    BY ZenonT(30) DEF MayRecord
  <2>3. e = 0
    BY <2>1, <2>2
  <2> QED
    BY ZenonT(30), <2>1, <2>3
<1>3. PICK new : new = [snapshot |-> s, lapsed |-> l, event |-> n]
  BY ZenonT(30)
<1>4. challenges' = [challenges EXCEPT ![c] = new]
  <2>1. [challenges[c] EXCEPT !.event = n] = new
    BY <1>2, <1>3, ChallengeChanged
  <2>2. challenges' = [challenges EXCEPT ![c] = [challenges[c] EXCEPT !.event = n]]
    BY ZenonT(30), <1>1 DEF Commit
  <2> QED
    BY ZenonT(30), <2>1, <2>2
<1>5. PICK S, T : events \in Seq(S) /\ challenges \in Seq(T)
  BY ZenonT(30) DEF ReviewInv
<1>6. /\ events' \in Seq(S \cup {event})
      /\ DOMAIN events = 1..Len(events) /\ Len(events) \in Nat
      /\ DOMAIN events' = 1..n
      /\ \A i \in DOMAIN events : events'[i] = events[i]
      /\ events'[n] = event
  BY <1>1, <1>5, SequenceExtended
<1>7. challenges' \in Seq(T \cup {new}) /\ DOMAIN challenges' = DOMAIN challenges
  BY ZenonT(30), <1>4, <1>5, SequenceChanged
<1>8. \A d \in DOMAIN challenges : challenges'[d] = IF d = c THEN new ELSE challenges[d]
  BY ZenonT(30), <1>4
<1>9. event.snapshot = s /\ event.by = b /\ event.challenge = c /\ new.event = n
  <2>1. event = [by |-> b, verdict |-> v, target |-> target, challenge |-> c,
                 snapshot |-> Snapshot(b)]
    BY ZenonT(30), <1>1
  <2>2. challenges[c].snapshot = s /\ new.event = n
    BY <1>2, <1>3
  <2>3. challenges[c].snapshot = Snapshot(b)
    BY ZenonT(30) DEF MayRecord, SameSnapshot
  <2> QED
    BY ZenonT(30), <2>1, <2>2, <2>3
<1>10. /\ Len(events) = n - 1
       /\ \A i \in DOMAIN events : i # n /\ i # 0
       /\ \A i \in DOMAIN events' : i \in DOMAIN events \/ i = n
  <2>1. n = Len(events) + 1
    BY ZenonT(30), <1>1
  <2>2. Len(events) \in Nat /\ DOMAIN events = 1..Len(events) /\ DOMAIN events' = 1..n
    BY ZenonT(30), <1>6
  <2>3. /\ Len(events) = n - 1
        /\ \A i \in 1..Len(events) : i # n /\ i # 0
        /\ \A i \in 1..n : i \in 1..Len(events) \/ i = n
    <3>1. Len(events) \in Nat
      BY ZenonT(30), <2>2
    <3> QED
      BY ZenonT(30), <2>1, <3>1, OneMore
  <2> QED
    BY ZenonT(30), <2>2, <2>3
<1>11. s.events = n - 1 /\ s.by = b
  <2>1. s = Snapshot(b)
    <3>1. challenges[c].snapshot = Snapshot(b)
      BY ZenonT(30) DEF MayRecord, SameSnapshot
    <3>2. challenges[c].snapshot = s
      BY <1>2
    <3> QED
      BY ZenonT(30), <3>1, <3>2
  <2>2. Snapshot(b).events = Len(events) /\ Snapshot(b).by = b
    BY ZenonT(30) DEF Snapshot
  <2> QED
    BY ZenonT(30), <1>10, <2>1, <2>2
<1>12. (\E U : events \in Seq(U))' /\ (\E U : challenges \in Seq(U))'
  BY SMTT(20), <1>6, <1>7
<1>13. (\A d \in DOMAIN challenges :
          \E x, y, z : challenges[d] = [snapshot |-> x, lapsed |-> y, event |-> z])'
  <2>1. \A d \in DOMAIN challenges :
          \E x, y, z : challenges[d] = [snapshot |-> x, lapsed |-> y, event |-> z]
    BY ZenonT(30) DEF ReviewInv
  <2>2. \A d \in DOMAIN challenges' : challenges'[d] = new \/ challenges'[d] = challenges[d]
    BY ZenonT(30), <1>7, <1>8
  <2> QED
    BY <1>3, <1>7, <2>1, <2>2
<1>14. \A i \in DOMAIN events : i # n /\ i # 0
  BY ZenonT(30), <1>10
<1>15. \A i \in DOMAIN events : events[i].challenge # c
  BY <1>2, <1>14 DEF ReviewInv
<1>16. \A i \in DOMAIN events' : i \in DOMAIN events \/ i = n
  BY ZenonT(30), <1>10
<1>17. \A i \in DOMAIN events' : /\ events'[i].challenge \in DOMAIN challenges'
                                 /\ challenges'[events'[i].challenge].event = i
  <2> SUFFICES ASSUME NEW i \in DOMAIN events'
               PROVE  /\ events'[i].challenge \in DOMAIN challenges'
                      /\ challenges'[events'[i].challenge].event = i
    BY ZenonT(30)
  <2>1. CASE i = n
    BY ZenonT(30), <1>6, <1>7, <1>8, <1>9, <2>1
  <2>2. CASE i \in DOMAIN events
    BY <1>6, <1>7, <1>8, <1>15, <2>2 DEF ReviewInv
  <2> QED
    BY ZenonT(30), <1>16, <2>1, <2>2
<1>18. \A d \in DOMAIN challenges : challenges'[d].snapshot = challenges[d].snapshot
  BY <1>2, <1>3, <1>8
<1>19. DecidedOnWhatWasSeen'
  <2> SUFFICES ASSUME NEW i \in DOMAIN events'
               PROVE  /\ events'[i].snapshot = challenges'[events'[i].challenge].snapshot
                      /\ events'[i].snapshot.events = i - 1
                      /\ events'[i].snapshot.by = events'[i].by
    BY ZenonT(30) DEF DecidedOnWhatWasSeen
  <2>1. CASE i = n
    <3>1. challenges[c].snapshot = s
      BY <1>2
    <3> QED
      BY ZenonT(30), <1>6, <1>9, <1>11, <1>18, <2>1, <3>1
  <2>2. CASE i \in DOMAIN events
    <3>1. /\ events[i].challenge \in DOMAIN challenges
          /\ events[i].snapshot = challenges[events[i].challenge].snapshot
          /\ events[i].snapshot.events = i - 1
          /\ events[i].snapshot.by = events[i].by
      BY ZenonT(30), <2>2 DEF ReviewInv, DecidedOnWhatWasSeen
    <3>2. events'[i] = events[i]
      BY ZenonT(30), <1>6, <2>2
    <3> QED
      BY ZenonT(30), <1>18, <3>1, <3>2
  <2> QED
    BY ZenonT(30), <1>16, <2>1, <2>2
<1> QED
  BY ZenonT(30), <1>12, <1>13, <1>17, <1>19 DEF ReviewInv

\* A rejection qualifies whatever has become of its author, so that an evaluation
\* that says mergeable has seen none.
LEMMA EvaluatedInit == Init => EvaluationInv
  BY ZenonT(30) DEF Init, EvaluationInv, MergeableHasNoRejection, Evaluation, Mergeable, Counted, Qualifies

\* A step that ends with the evaluation leaves the stored verdict equal to
\* it.
LEMMA Evaluated ==
  ASSUME (pull \in {"draft", "open", "closed", "merged"})', mergeable' = Evaluation'
  PROVE  EvaluationInv'
  BY ZenonT(30) DEF EvaluationInv, MergeableHasNoRejection, Evaluation, Mergeable, Counted, Qualifies

\* A step that leaves the pull request, its head and the decisions alone
\* keeps the stored verdict right.
LEMMA EvaluationKept ==
  ASSUME EvaluationInv, UNCHANGED <<pull, mergeable, head, events>>
  PROVE  EvaluationInv'
  BY SMTT(20) DEF EvaluationInv, MergeableHasNoRejection, Reduced

\* A step that leaves challenges and decisions alone keeps what is known of
\* them.
LEMMA ReviewKept ==
  ASSUME ReviewInv, UNCHANGED <<challenges, events>>
  PROVE  ReviewInv'
  BY DEF ReviewInv, DecidedOnWhatWasSeen

\* No challenge and no decision: the first state satisfies the invariant.
LEMMA ReviewInitInv == Init => ReviewInv
<1> SUFFICES ASSUME Init PROVE ReviewInv
  OBVIOUS
<1>1. events = <<>> /\ challenges = <<>>
  BY ZenonT(30) DEF Init
<1>2. <<>> \in Seq({}) /\ DOMAIN <<>> = {}
  OBVIOUS
<1> QED
  BY ZenonT(30), <1>1, <1>2 DEF ReviewInv, DecidedOnWhatWasSeen

FullInv == IInv /\ ReviewInv /\ EvaluationInv

\* Every step on challenges and bound reviews preserves the invariant and
\* revives no credential.
LEMMA ReviewStepInv == FullInv /\ ReviewStep => FullInv' /\ Monotone
<1> SUFFICES ASSUME FullInv, ReviewStep PROVE FullInv' /\ Monotone
  OBVIOUS
<1>1. IInv /\ ReviewInv /\ EvaluationInv
  BY DEF FullInv
<1>2. ASSUME NEW b \in actors, CreateReviewChallenge(b) PROVE FullInv' /\ Monotone
  <2>1. UNCHANGED untickedVars /\ UNCHANGED <<pull, mergeable, head, events>>
    BY ZenonT(30), <1>2 DEF CreateReviewChallenge, accountVars, untickedVars, inviteVars
  <2> QED
    BY ZenonT(30), <1>1, <1>2, <2>1, PullVarsInv, CreateReviewChallengeInv, EvaluationKept DEF FullInv
<1>3. ASSUME NEW c \in DOMAIN challenges, LapseChallenge(c) PROVE FullInv' /\ Monotone
  <2>1. UNCHANGED untickedVars /\ UNCHANGED <<pull, mergeable, head, events>>
    BY ZenonT(30), <1>3 DEF LapseChallenge
  <2> QED
    BY ZenonT(30), <1>1, <1>3, <2>1, PullVarsInv, LapseChallengeInv, EvaluationKept DEF FullInv
<1>4. ASSUME NEW b \in actors, NEW c \in DOMAIN challenges, NEW v, NEW target,
             MayRecord(b, c), Commit(b, c, v, target)
      PROVE  FullInv' /\ Monotone
  <2>1. UNCHANGED untickedVars /\ pull' = pull /\ mergeable' = Evaluation'
    BY ZenonT(30), <1>4 DEF Commit, accountVars, untickedVars, inviteVars
  <2>2. EvaluationInv'
    BY ZenonT(30), <1>1, <2>1, Evaluated DEF EvaluationInv
  <2> QED
    BY ZenonT(30), <1>1, <1>4, <2>1, <2>2, PullVarsInv, CommitInv DEF FullInv
<1> QED
  BY ZenonT(30), <1>2, <1>3, <1>4 DEF ReviewStep, SubmitBoundReview, DismissBoundReview

\* Every step on the pull request, its branches and rules preserves the
\* invariant and revives no credential.
LEMMA PullStepInv == FullInv /\ PullStep => FullInv' /\ Monotone
<1> SUFFICES ASSUME FullInv, PullStep PROVE FullInv' /\ Monotone
  OBVIOUS
<1>1. IInv /\ ReviewInv /\ EvaluationInv
  BY DEF FullInv
<1>2. UNCHANGED untickedVars /\ UNCHANGED <<challenges, events>>
  BY ZenonT(30) DEF PullStep, Push, RefreshHeads, LoseHook, CreateCheck, PushBase, SetBranchProtection,
         SetCodeowners, CreateReview, UpdatePullRequest, accountVars, untickedVars, inviteVars
<1>3. EvaluationInv'
  <2>1. CASE \E h \in Heads : Push(h) \/ LoseHook(h)
    BY ZenonT(30), <1>1, <2>1, EvaluationKept DEF Push, LoseHook
  <2>2. CASE PushBase
    BY ZenonT(30), <1>1, <2>2, EvaluationKept DEF PushBase
  <2>3. CASE \E n \in Counts, unmet \in BOOLEAN : SetBranchProtection(n, unmet)
    BY ZenonT(30), <1>1, <2>3, EvaluationKept DEF SetBranchProtection
  <2>4. CASE \E o \in Owners : SetCodeowners(o)
    BY ZenonT(30), <1>1, <2>4, EvaluationKept DEF SetCodeowners
  <2>5. CASE \E h \in Heads : RefreshHeads(h)
    <3>1. pull' = pull /\ mergeable' = Evaluation'
      BY ZenonT(30), <2>5 DEF RefreshHeads
    <3> QED
      BY ZenonT(30), <1>1, <3>1, Evaluated DEF EvaluationInv
  <2>6. CASE CreateReview
    <3>1. pull' = pull /\ mergeable' = Evaluation'
      BY ZenonT(30), <2>6 DEF CreateReview
    <3> QED
      BY ZenonT(30), <1>1, <3>1, Evaluated DEF EvaluationInv
  <2>7. CASE \E h \in Heads : CreateCheck(h)
    <3>1. /\ pull' = pull /\ UNCHANGED <<head, events>>
          /\ mergeable' = Evaluation' \/ mergeable' = mergeable
      BY ZenonT(30), <2>7 DEF CreateCheck
    <3>2. CASE mergeable' = Evaluation'
      BY ZenonT(30), <1>1, <3>1, <3>2, Evaluated DEF EvaluationInv
    <3>3. CASE mergeable' = mergeable
      BY ZenonT(30), <1>1, <3>1, <3>3, EvaluationKept
    <3> QED
      BY ZenonT(30), <3>1, <3>2, <3>3
  <2>8. CASE \E state \in {"draft", "open", "closed", "merged"}, files \in {"owned", "free"} :
               UpdatePullRequest(state, files)
    <3>1. pull' \in {"draft", "open", "closed", "merged"} /\ mergeable' = Evaluation'
      BY ZenonT(30), <2>8 DEF UpdatePullRequest
    <3> QED
      BY ZenonT(30), <3>1, Evaluated
  <2> QED
    BY ZenonT(30), <2>1, <2>2, <2>3, <2>4, <2>5, <2>6, <2>7, <2>8 DEF PullStep
<1> QED
  BY ZenonT(30), <1>1, <1>2, <1>3, PullVarsInv, ReviewKept DEF FullInv

\* The invariant of accounts, reviews and evaluation is inductive, and no
\* step revives a credential.
LEMMA FullInvInductive ==
  /\ Init => FullInv
  /\ FullInv /\ [Next]_vars => FullInv' /\ Monotone
<1>1. Init => FullInv
  BY ZenonT(30), AccountsInitInv, InvitesInitInv, ReviewInitInv, EvaluatedInit DEF Init, FullInv, IInv
<1>2. ASSUME FullInv, AccountStep PROVE FullInv' /\ Monotone
  <2>1. UNCHANGED <<challenges, events>> /\ UNCHANGED <<pull, mergeable, head, events>>
    BY ZenonT(30), <1>2 DEF AccountStep, pullVars
  <2> QED
    BY ZenonT(30), <1>2, <2>1, AccountsNextInv, ReviewKept, EvaluationKept DEF FullInv, AccountStep
<1>3. ASSUME FullInv, UNCHANGED vars PROVE FullInv' /\ Monotone
  <2>1. /\ UNCHANGED untickedVars
        /\ UNCHANGED <<challenges, events>> /\ UNCHANGED <<pull, mergeable, head, events>>
    BY ZenonT(30), <1>3 DEF vars, accountVars, pullVars, untickedVars, inviteVars
  <2> QED
    BY ZenonT(30), <1>3, <2>1, PullVarsInv, ReviewKept, EvaluationKept DEF FullInv
<1> QED
  BY ZenonT(30), <1>1, <1>2, <1>3, ReviewStepInv, PullStepInv DEF Next

-----------------------------------------------------------------------------
(* The last word *)

\* The verdicts that were accepted: a reviewer with an account, and never an
\* approval of the author's, which submit_bound_review refuses.
VerdictsInv ==
  \A i \in DOMAIN events :
    /\ events[i].by.login \in Logins
    /\ events[i].verdict \in Verdicts \cup {"dismissed"}
    /\ ~(events[i].verdict = "approved" /\ events[i].by.login = Author)

\* A decision that is recorded has a known reviewer and verdict, and is not
\* the author's own approval.
LEMMA CommitVerdict ==
  ASSUME FullInv, VerdictsInv, NEW b \in actors, NEW c, NEW v \in Verdicts \cup {"dismissed"},
         ~(v = "approved" /\ b.login = Author), NEW target, Commit(b, c, v, target)
  PROVE  VerdictsInv'
<1>1. b.login \in Logins
  BY ZenonT(30) DEF FullInv, IInv, AInv, BindingsInv, Bindings
<1>2. PICK event : /\ event.by = b /\ event.verdict = v
                   /\ events' = Append(events, event)
  <2> DEFINE e == [by |-> b, verdict |-> v, target |-> target, challenge |-> c,
                   snapshot |-> Snapshot(b)]
  <2>1. e.by = b /\ e.verdict = v
    BY ZenonT(30)
  <2>2. events' = Append(events, e)
    BY ZenonT(30) DEF Commit
  <2> HIDE DEF e
  <2> QED
    BY ZenonT(30), <2>1, <2>2
<1>3. PICK S : events \in Seq(S)
  BY ZenonT(30) DEF FullInv, ReviewInv
<1>4. /\ DOMAIN events = 1..Len(events) /\ Len(events) \in Nat
      /\ DOMAIN events' = 1..(Len(events) + 1)
      /\ \A i \in DOMAIN events : events'[i] = events[i]
      /\ events'[Len(events) + 1] = event
  BY <1>2, <1>3, SequenceExtended
<1>5. \A i \in DOMAIN events' : i \in DOMAIN events \/ i = Len(events) + 1
  BY <1>4
<1>6. events'[Len(events) + 1].by = b /\ events'[Len(events) + 1].verdict = v
  BY ZenonT(30), <1>2, <1>4
<1> QED
  BY ZenonT(30), <1>1, <1>4, <1>5, <1>6 DEF VerdictsInv

\* Every step keeps that of all decisions.
LEMMA VerdictsStep == FullInv /\ VerdictsInv /\ [Next]_vars => VerdictsInv'
<1> SUFFICES ASSUME FullInv, VerdictsInv, [Next]_vars PROVE VerdictsInv'
  OBVIOUS
<1>1. ASSUME NEW b \in actors, NEW c, NEW v \in Verdicts, SubmitBoundReview(b, c, v)
      PROVE  VerdictsInv'
  BY ZenonT(30), <1>1, CommitVerdict DEF SubmitBoundReview
<1>2. ASSUME NEW b \in actors, NEW c, NEW i, DismissBoundReview(b, c, i)
      PROVE  VerdictsInv'
  BY ZenonT(30), <1>2, CommitVerdict DEF DismissBoundReview
<1>3. ASSUME NEW b, CreateReviewChallenge(b) PROVE VerdictsInv'
  BY ZenonT(30), <1>3 DEF CreateReviewChallenge, VerdictsInv
<1>4. ASSUME NEW c, LapseChallenge(c) PROVE VerdictsInv'
  BY ZenonT(30), <1>4 DEF LapseChallenge, VerdictsInv
<1>5. CASE PullStep \/ AccountStep \/ UNCHANGED vars
  <2>1. UNCHANGED events
    BY <1>5, ZenonT(30) DEF PullStep, Push, RefreshHeads, LoseHook, CreateCheck, PushBase,
         SetBranchProtection, SetCodeowners, CreateReview, UpdatePullRequest, AccountStep,
         pullVars, vars
  <2> QED
    BY ZenonT(30), <2>1 DEF VerdictsInv
<1> QED
  BY ZenonT(30), <1>1, <1>2, <1>3, <1>4, <1>5 DEF Next, ReviewStep

\* The last word on the head, from what the loop computes.
LEMMA LastWord == FullInv /\ VerdictsInv => LastWordCounts
<1> SUFFICES ASSUME FullInv, VerdictsInv PROVE LastWordCounts
  OBVIOUS
<1> DEFINE N == Len(events)
           S == DOMAIN events
           f == LatestOf(events, head, S)[N]
<1>1. N \in Nat /\ S = 1..N
  <2>1. PICK T : events \in Seq(T)
    BY ZenonT(30) DEF FullInv, ReviewInv
  <2> QED
    BY ZenonT(30), <2>1, SeqLength
<1>2. Words(events, head, S, f, N)
  BY ZenonT(30), <1>1, ReducedWords DEF VerdictsInv
<1>3. Reduced = {f[l] : l \in Logins} \ {0}
  BY ZenonT(30) DEF Reduced, ReducedOf
<1> HIDE DEF f, N, S
<1>4. ASSUME NEW i \in Counted, NEW j \in DOMAIN events, j > i,
             events[j].by.login = events[i].by.login, events[j].snapshot.head = head
      PROVE  \/ events[j].verdict = "commented"
             \/ events[j].verdict = "dismissed" /\ events[j].target # i
  <2>1. PICK l \in Logins : i = f[l] /\ i # 0
    BY ZenonT(30), <1>3 DEF Counted
  <2>2. /\ i \in 1..N /\ Seen(events, head, S, i, l)
        /\ \A k \in i + 1..N : Seen(events, head, S, k, l) =>
             ~Decides(events[k]) /\ ~(events[k].verdict = "dismissed" /\ events[k].target = i)
    BY ZenonT(30), <1>2, <2>1 DEF Words
  <2>3. j \in i + 1..N
    BY <1>1, <1>4, <2>2 DEF S
  <2>4. Seen(events, head, S, j, l)
    BY ZenonT(30), <1>4, <2>2 DEF Seen, S
  <2>5. ~Decides(events[j]) /\ ~(events[j].verdict = "dismissed" /\ events[j].target = i)
    BY ZenonT(30), <2>2, <2>3, <2>4
  <2> QED
    BY ZenonT(30), <2>5 DEF Decides, VerdictsInv, Verdicts
<1>5. ASSUME NEW i \in DOMAIN events, events[i].verdict = "changes_requested",
             events[i].snapshot.head = head,
             \A j \in DOMAIN events : j > i /\ events[j].by.login = events[i].by.login =>
               events[j].verdict = "commented" \/ events[j].snapshot.head # head
      PROVE  i \in Counted
  <2> DEFINE l == events[i].by.login
  <2>1. l \in Logins /\ i \in 1..N /\ i # 0
    BY <1>1 DEF VerdictsInv, S
  <2>2. \A j \in i + 1..N : j \in DOMAIN events /\ j > i
    BY <1>1, <2>1 DEF S
  <2>3. Seen(events, head, S, i, l)
    BY ZenonT(30), <1>5 DEF Seen, S
  <2>4. \A j \in i + 1..N : Seen(events, head, S, j, l) => events[j].verdict = "commented"
    BY ZenonT(30), <1>5, <2>2 DEF Seen
  <2> HIDE DEF l
  <2>5. f[l] = i
    BY ZenonT(30), <1>2, <1>5, <2>1, <2>3, <2>4 DEF Words
  <2> QED
    BY ZenonT(30), <1>3, <1>5, <2>1, <2>5 DEF Counted, Qualifies
<1> QED
  BY ZenonT(30), <1>4, <1>5 DEF LastWordCounts

-----------------------------------------------------------------------------
(* Theorems *)

LEMMA AlwaysFullInv == Spec => []FullInv
  BY FullInvInductive, PTL DEF Spec

\* engine/auth.rs, engine/actors.rs: no operation on an account gives an actor
\* handle back the validity it lost.
THEOREM HandlesDead == Spec => HandlesStayDead
<1>1. FullInv /\ [Next]_vars => [\A b \in actors : ~Valid(b) => ~Valid(b)']_accountVars
  BY ZenonT(30), FullInvInductive DEF Monotone
<1> QED
  BY <1>1, AlwaysFullInv, PTL DEF Spec, HandlesStayDead

\* engine/auth.rs, complete_account_activation: the owner of a bootstrap invitation
\* is the oldest administrator, in whatever order invitations are made, started,
\* revoked and completed.
THEOREM OwnerFirst == Spec => []OwnerIsFirst
<1>1. FullInv => OwnerIsFirst
  BY DEF FullInv, IInv
<1> QED
  BY <1>1, AlwaysFullInv, PTL

\* engine/bound_reviews.rs, record_bound_review: every accepted verdict was given
\* on what its challenge showed, with exactly the events before it in sight.
THEOREM DecidedOnSight == Spec => []DecidedOnWhatWasSeen
<1>1. FullInv => DecidedOnWhatWasSeen
  BY ZenonT(30) DEF FullInv, ReviewInv
<1> QED
  BY <1>1, AlwaysFullInv, PTL

\* engine/storage/bound_reviews.rs, commit_bound_review: a challenge is consumed by
\* at most one event.
THEOREM OneDecision == Spec => []OneDecisionPerChallenge
<1>1. FullInv => OneDecisionPerChallenge
  BY ZenonT(30) DEF FullInv, ReviewInv, OneDecisionPerChallenge
<1> QED
  BY <1>1, AlwaysFullInv, PTL

\* engine/mod.rs, apply_evaluation: a stored "mergeable" stands over no rejection of
\* the present head and belongs to an open pull request.
THEOREM NoRejectionMergeable == Spec => []MergeableHasNoRejection
<1>1. FullInv => MergeableHasNoRejection
  BY DEF FullInv, EvaluationInv
<1> QED
  BY <1>1, AlwaysFullInv, PTL

\* engine/bound_reviews.rs, bound_reviews_for_evaluation: of a reviewer's verdicts on
\* the head only the last one counts, and a rejection that is the last word always
\* does, whatever has become of the reviewer, of the policy or of the code owners.
THEOREM LastWordHolds == Spec => []LastWordCounts
<1>1. Init => VerdictsInv
  BY DEF Init, VerdictsInv
<1> QED
  BY <1>1, VerdictsStep, LastWord, AlwaysFullInv, PTL DEF Spec

=============================================================================
