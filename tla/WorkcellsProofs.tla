---------------------------- MODULE WorkcellsProofs ----------------------------
(***************************************************************************)
(* What the operations of a workcell manager and of the warm pool keep, for*)
(* every pool depth and every number of cells, agents, trees and epochs.   *)
(*                                                                         *)
(* A manager is in order when its queue names cells of its ledger, each of *)
(* them once, and a cell's snapshot is of the cell's own tree.  In the web *)
(* server's manager what waits in the queue holds no failed tree, so that a*)
(* cell that does hold one is never claimed again and keeps its tree.  In  *)
(* the pool what idles has a container, and is queued and ready.           *)
(***************************************************************************)
EXTENDS Workcells, SequenceTheorems, TLAPS

-----------------------------------------------------------------------------

\* The queue of a manager names cells of its ledger, each of them once; and a
\* cell's snapshot is of the tree that the cell is about.
Ordered(m) ==
    /\ \A i \in DOMAIN m.queue : m.queue[i] \in DOMAIN m.cells
    /\ IsInjective(m.queue)
    /\ \A c \in DOMAIN m.cells :
           m.cells[c].frozen # None => m.cells[c].frozen.tree = m.cells[c].tree

\* What waits in the queue holds no failed tree, but for the cell that is
\* claimed twice.
Waits(m) ==
    /\ m.queue = <<>> => m.cells = <<>> /\ Warm = 0
    /\ \A i \in DOMAIN m.queue :
           \/ TwiceClaimed(m.queue[i])
           \/ m.cells[m.queue[i]].state \notin {"held", "repairing"}

\* A cell that stays with a tree: nobody can claim it again.
Keeps(m, c, t) ==
    /\ c \in DOMAIN m.cells
    /\ \/ TwiceClaimed(c)
       \/ /\ \A i \in DOMAIN m.queue : m.queue[i] # c
          /\ m.cells[c].tree = t

\* The web server's manager becomes w, and what it kept is kept.
KeptBy(w) == \A c, t : Keeps(web, c, t) => Keeps(w, c, t)

LedgerInv == Ordered(web) /\ Waits(web)

\* What idles in the pool is distinct, has a container, and is queued and ready.
Idle ==
    /\ IsInjective(warm)
    /\ \A i \in DOMAIN warm :
           /\ warm[i] \in containers
           /\ warm[i] \in DOMAIN pool.cells
           /\ \E j \in DOMAIN pool.queue : pool.queue[j] = warm[i]
           /\ pool.cells[warm[i]].state = "ready"

WebTrees == Trees \cup {None}

WebType == web \in ManagersOf(WebTrees)

PoolTypeOK(T) ==
    /\ pool \in ManagersOf(T)
    /\ warm \in Seq(Nat)
    /\ containers \subseteq Nat

-----------------------------------------------------------------------------
(* Managers *)

\* A function on 1..n is a sequence of length n.
LEMMA FunctionIsSequence ==
    ASSUME NEW n \in Nat, NEW S, NEW f \in [1..n -> S]
    PROVE  f \in Seq(S) /\ Len(f) = n
<1>1. f \in Seq(S)
  BY SeqDef
<1>2. QED
  BY <1>1, LenProperties

\* A queue of ids up to l stays without repetition.
LEMMA QueueInjective ==
    ASSUME NEW q \in Seq(Nat), NEW l \in Nat, NEW n \in Nat, NEW t \in Seq(Nat),
           Len(t) = Len(q) + n,
           \A i \in 1..Len(q) : t[i] = q[i],
           \A i \in Len(q) + 1..Len(q) + n : t[i] = l + (i - Len(q)),
           \A i \in 1..Len(q) : q[i] \in 1..l,
           IsInjective(q)
    PROVE  /\ \A i \in 1..Len(t) : t[i] \in 1..l + n
           /\ IsInjective(t)
<1>1. /\ Len(q) \in Nat /\ DOMAIN q = 1..Len(q) /\ DOMAIN t = 1..Len(q) + n
  BY LenProperties
<1>2. \A i \in 1..Len(q) : t[i] \in 1..l
  BY SMTT(20)
<1>3. \A i \in Len(q) + 1..Len(q) + n : t[i] \in l + 1..l + n
  BY <1>1
<1>4. \A i \in 1..Len(q) + n : i \in 1..Len(q) \/ i \in Len(q) + 1..Len(q) + n
  BY <1>1
<1>5. \A i \in 1..Len(t) : t[i] \in 1..l + n
  BY <1>2, <1>3, <1>4
<1>6. ASSUME NEW i \in DOMAIN t, NEW j \in DOMAIN t, t[i] = t[j]
      PROVE  i = j
  <2>1. CASE i \in 1..Len(q) /\ j \in 1..Len(q)
    BY ZenonT(30), <1>1, <1>6, <2>1 DEF IsInjective
  <2>2. CASE i \in Len(q) + 1..Len(q) + n /\ j \in Len(q) + 1..Len(q) + n
    BY <1>1, <1>6, <2>2
  <2>3. CASE i \in 1..Len(q) /\ j \in Len(q) + 1..Len(q) + n
    BY <1>2, <1>3, <1>6, <2>3
  <2>4. CASE j \in 1..Len(q) /\ i \in Len(q) + 1..Len(q) + n
    BY <1>2, <1>3, <1>6, <2>4
  <2>5. QED
    BY ZenonT(30), <1>1, <1>4, <2>1, <2>2, <2>3, <2>4
<1>7. QED
  BY ZenonT(30), <1>5, <1>6 DEF IsInjective

\* A ready cell is a cell.
LEMMA ReadyCellType ==
    ASSUME NEW T, None \in T
    PROVE  ReadyCell \in CellsOf(T)
BY DEF ReadyCell, CellsOf, CellStates

\* The queue and the cells of a manager are sequences with their lengths.
LEMMA ManagerSequences ==
    ASSUME NEW T, NEW m \in ManagersOf(T)
    PROVE  /\ m.queue \in Seq(Nat) /\ m.cells \in Seq(CellsOf(T))
           /\ Len(m.queue) \in Nat /\ Len(m.cells) \in Nat
           /\ DOMAIN m.queue = 1..Len(m.queue) /\ DOMAIN m.cells = 1..Len(m.cells)
BY LenProperties DEF ManagersOf

\* spawn_ready_cell: the cells that exist stay as they are, and the new ones are
\* ready and queued in the order of their ids.
LEMMA SpawnShape ==
    ASSUME NEW T, None \in T, NEW m \in ManagersOf(T), NEW n \in Nat
    PROVE  /\ Spawn(m, n) \in ManagersOf(T)
           /\ Len(Spawn(m, n).cells) = Len(m.cells) + n
           /\ \A c \in 1..Len(m.cells) : Spawn(m, n).cells[c] = m.cells[c]
           /\ \A c \in Len(m.cells) + 1..Len(m.cells) + n : Spawn(m, n).cells[c] = ReadyCell
           /\ Len(Spawn(m, n).queue) = Len(m.queue) + n
           /\ \A i \in 1..Len(m.queue) : Spawn(m, n).queue[i] = m.queue[i]
           /\ \A i \in Len(m.queue) + 1..Len(m.queue) + n :
                  Spawn(m, n).queue[i] = Len(m.cells) + (i - Len(m.queue))
<1>1. /\ m.queue \in Seq(Nat) /\ m.cells \in Seq(CellsOf(T))
      /\ Len(m.queue) \in Nat /\ Len(m.cells) \in Nat
  BY ManagerSequences
<1>2. /\ Spawn(m, n).queue = m.queue \o [i \in 1..n |-> Len(m.cells) + i]
      /\ Spawn(m, n).cells = m.cells \o [i \in 1..n |-> ReadyCell]
      /\ Spawn(m, n) = [queue |-> Spawn(m, n).queue, cells |-> Spawn(m, n).cells]
  BY ZenonT(30) DEF Spawn, Spawned
<1> DEFINE q == Spawn(m, n).queue
           l == Spawn(m, n).cells
           ids == [i \in 1..n |-> Len(m.cells) + i]
           new == [i \in 1..n |-> ReadyCell]
<1>3. /\ q \in Seq(Nat)
      /\ Len(q) = Len(m.queue) + n
      /\ \A i \in 1..Len(m.queue) : q[i] = m.queue[i]
      /\ \A i \in Len(m.queue) + 1..Len(m.queue) + n : q[i] = Len(m.cells) + (i - Len(m.queue))
  <2>1. q = m.queue \o ids
    BY ZenonT(30), <1>2
  <2>2. ids \in [1..n -> Nat] /\ \A i \in 1..n : ids[i] = Len(m.cells) + i
    BY <1>1
  <2> HIDE DEF q, ids
  <2>3. ids \in Seq(Nat) /\ Len(ids) = n
    BY <2>2, FunctionIsSequence
  <2>4. /\ m.queue \o ids \in Seq(Nat)
        /\ Len(m.queue \o ids) = Len(m.queue) + Len(ids)
        /\ \A i \in 1..Len(m.queue) + Len(ids) : (m.queue \o ids)[i] =
               IF i <= Len(m.queue) THEN m.queue[i] ELSE ids[i - Len(m.queue)]
    BY ZenonT(30), <1>1, <2>3, ConcatProperties
  <2>5. \A i \in 1..Len(m.queue) : q[i] = m.queue[i]
    BY <1>1, <2>1, <2>3, <2>4
  <2>6. ASSUME NEW i \in Len(m.queue) + 1..Len(m.queue) + n
        PROVE  q[i] = Len(m.cells) + (i - Len(m.queue))
    <3>1. i - Len(m.queue) \in 1..n /\ i \in 1..Len(m.queue) + n /\ ~(i <= Len(m.queue))
      BY <1>1
    <3>2. q[i] = ids[i - Len(m.queue)]
      BY ZenonT(30), <2>1, <2>3, <2>4, <3>1
    <3>3. QED
      BY ZenonT(30), <2>2, <3>1, <3>2
  <2>7. QED
    BY ZenonT(30), <2>1, <2>3, <2>4, <2>5, <2>6
<1>4. /\ l \in Seq(CellsOf(T))
      /\ Len(l) = Len(m.cells) + n
      /\ \A c \in 1..Len(m.cells) : l[c] = m.cells[c]
      /\ \A c \in Len(m.cells) + 1..Len(m.cells) + n : l[c] = ReadyCell
  <2>1. l = m.cells \o new
    BY ZenonT(30), <1>2
  <2>2. new \in [1..n -> CellsOf(T)] /\ \A i \in 1..n : new[i] = ReadyCell
    BY ReadyCellType
  <2> HIDE DEF l, new
  <2>3. new \in Seq(CellsOf(T)) /\ Len(new) = n
    BY <2>2, FunctionIsSequence
  <2>4. /\ m.cells \o new \in Seq(CellsOf(T))
        /\ Len(m.cells \o new) = Len(m.cells) + Len(new)
        /\ \A i \in 1..Len(m.cells) + Len(new) : (m.cells \o new)[i] =
               IF i <= Len(m.cells) THEN m.cells[i] ELSE new[i - Len(m.cells)]
    BY ZenonT(30), <1>1, <2>3, ConcatProperties
  <2>5. \A c \in 1..Len(m.cells) : l[c] = m.cells[c]
    BY <1>1, <2>1, <2>3, <2>4
  <2>6. ASSUME NEW c \in Len(m.cells) + 1..Len(m.cells) + n
        PROVE  l[c] = ReadyCell
    <3>1. c - Len(m.cells) \in 1..n /\ c \in 1..Len(m.cells) + n /\ ~(c <= Len(m.cells))
      BY <1>1
    <3>2. l[c] = new[c - Len(m.cells)]
      BY ZenonT(30), <2>1, <2>3, <2>4, <3>1
    <3>3. QED
      BY ZenonT(30), <2>2, <3>1, <3>2
  <2>7. QED
    BY ZenonT(30), <2>1, <2>3, <2>4, <2>5, <2>6
<1> HIDE DEF q, l
<1>5. Spawn(m, n) \in ManagersOf(T)
  BY ZenonT(30), <1>2, <1>3, <1>4 DEF ManagersOf, q, l
<1>6. QED
  BY ZenonT(30), <1>3, <1>4, <1>5 DEF q, l

\* Spawning one cell adds a ready cell at the end of the cells, and its
\* number at the end of the queue.
LEMMA SpawnOne ==
    ASSUME NEW T, None \in T, NEW m \in ManagersOf(T), NEW s, s = Spawn(m, 1)
    PROVE  /\ s \in ManagersOf(T)
           /\ Len(s.cells) = Len(m.cells) + 1
           /\ \A c \in 1..Len(m.cells) : s.cells[c] = m.cells[c]
           /\ s.cells[Len(m.cells) + 1] = ReadyCell
           /\ Len(s.queue) = Len(m.queue) + 1
           /\ \A i \in 1..Len(m.queue) : s.queue[i] = m.queue[i]
           /\ s.queue[Len(m.queue) + 1] = Len(m.cells) + 1
<1>1. PICK n \in Nat : n = 1
  OBVIOUS
<1>2. Len(m.queue) \in Nat /\ Len(m.cells) \in Nat
  BY ManagerSequences
<1>3. /\ Spawn(m, n) \in ManagersOf(T)
      /\ Len(Spawn(m, n).cells) = Len(m.cells) + n
      /\ \A c \in 1..Len(m.cells) : Spawn(m, n).cells[c] = m.cells[c]
      /\ \A c \in Len(m.cells) + 1..Len(m.cells) + n : Spawn(m, n).cells[c] = ReadyCell
      /\ Len(Spawn(m, n).queue) = Len(m.queue) + n
      /\ \A i \in 1..Len(m.queue) : Spawn(m, n).queue[i] = m.queue[i]
      /\ \A i \in Len(m.queue) + 1..Len(m.queue) + n :
             Spawn(m, n).queue[i] = Len(m.cells) + (i - Len(m.queue))
  BY ZenonT(30), SpawnShape
<1>4. s = Spawn(m, n)
  BY <1>1
<1>5. s \in ManagersOf(T) /\ Len(s.cells) = Len(m.cells) + 1 /\ Len(s.queue) = Len(m.queue) + 1
  BY ZenonT(30), <1>1, <1>3, <1>4
<1>6. /\ \A c \in 1..Len(m.cells) : s.cells[c] = m.cells[c]
      /\ \A i \in 1..Len(m.queue) : s.queue[i] = m.queue[i]
  BY ZenonT(30), <1>3, <1>4
<1>7. s.cells[Len(m.cells) + 1] = ReadyCell
  <2>1. Len(m.cells) + 1 \in Len(m.cells) + 1..Len(m.cells) + n
    BY <1>1, <1>2
  <2>2. QED
    BY ZenonT(30), <1>3, <1>4, <2>1
<1>8. s.queue[Len(m.queue) + 1] = Len(m.cells) + 1
  <2>1. PICK i \in Len(m.queue) + 1..Len(m.queue) + n : i = Len(m.queue) + 1
    BY <1>1, <1>2
  <2>2. s.queue[i] = Len(m.cells) + (i - Len(m.queue))
    BY ZenonT(30), <1>3, <1>4
  <2>3. i - Len(m.queue) = 1
    BY <1>2, <2>1
  <2>4. QED
    BY ZenonT(30), <2>1, <2>2, <2>3
<1>9. QED
  BY ZenonT(30), <1>5, <1>6, <1>7, <1>8

\* It keeps the ids in the queue distinct.
LEMMA SpawnOrdered ==
    ASSUME NEW T, None \in T, NEW m \in ManagersOf(T), NEW n \in Nat, Ordered(m)
    PROVE  Ordered(Spawn(m, n))
<1> DEFINE s == Spawn(m, n)
<1>1. /\ m.queue \in Seq(Nat) /\ m.cells \in Seq(CellsOf(T))
      /\ Len(m.queue) \in Nat /\ Len(m.cells) \in Nat
      /\ DOMAIN m.queue = 1..Len(m.queue) /\ DOMAIN m.cells = 1..Len(m.cells)
  BY ManagerSequences
<1>2. /\ s \in ManagersOf(T)
      /\ Len(s.cells) = Len(m.cells) + n
      /\ \A c \in 1..Len(m.cells) : s.cells[c] = m.cells[c]
      /\ \A c \in Len(m.cells) + 1..Len(m.cells) + n : s.cells[c] = ReadyCell
      /\ Len(s.queue) = Len(m.queue) + n
      /\ \A i \in 1..Len(m.queue) : s.queue[i] = m.queue[i]
      /\ \A i \in Len(m.queue) + 1..Len(m.queue) + n :
             s.queue[i] = Len(m.cells) + (i - Len(m.queue))
  BY ZenonT(30), SpawnShape
<1> HIDE DEF s
<1>3. /\ s.queue \in Seq(Nat)
      /\ DOMAIN s.queue = 1..Len(s.queue) /\ DOMAIN s.cells = 1..Len(m.cells) + n
  BY ZenonT(30), <1>2, ManagerSequences
<1>4. /\ \A i \in 1..Len(m.queue) : m.queue[i] \in 1..Len(m.cells)
      /\ IsInjective(m.queue)
  BY SMTT(20), <1>1 DEF Ordered
<1>5. /\ \A i \in 1..Len(s.queue) : s.queue[i] \in 1..Len(m.cells) + n
      /\ IsInjective(s.queue)
  BY ZenonT(30), <1>1, <1>2, <1>3, <1>4, QueueInjective
<1>6. ASSUME NEW c \in DOMAIN s.cells, s.cells[c].frozen # None
      PROVE  s.cells[c].frozen.tree = s.cells[c].tree
  <2>1. CASE c \in 1..Len(m.cells)
    BY ZenonT(30), <1>1, <1>2, <1>6, <2>1 DEF Ordered
  <2>2. CASE c \in Len(m.cells) + 1..Len(m.cells) + n
    BY <1>2, <1>6, <2>2 DEF ReadyCell
  <2>3. QED
    BY <1>1, <1>3, <2>1, <2>2
<1>7. QED
  BY ZenonT(30), <1>3, <1>5, <1>6 DEF Ordered, s

\* What is behind the head of a queue
LEMMA TailShape ==
    ASSUME NEW s \in Seq(Nat), s # <<>>, IsInjective(s)
    PROVE  /\ Tail(s) \in Seq(Nat)
           /\ IsInjective(Tail(s))
           /\ 1 \in DOMAIN s /\ Head(s) = s[1] /\ Head(s) \in Nat
           /\ \A i \in DOMAIN Tail(s) : /\ Tail(s)[i] # Head(s)
                                        /\ i + 1 \in DOMAIN s
                                        /\ Tail(s)[i] = s[i + 1]
<1>1. /\ Len(s) \in Nat \ {0} /\ DOMAIN s = 1..Len(s)
  BY LenProperties, EmptySeq
<1>2. /\ Tail(s) \in Seq(Nat) /\ Len(Tail(s)) = Len(s) - 1
      /\ \A i \in 1..Len(Tail(s)) : Tail(s)[i] = s[i + 1]
      /\ Head(s) \in Nat
  BY HeadTailProperties
<1>3. DOMAIN Tail(s) = 1..Len(s) - 1
  BY <1>2, LenProperties
<1>4. Head(s) = s[1] /\ 1 \in DOMAIN s
  BY <1>1
<1>5. \A i \in DOMAIN Tail(s) : i + 1 \in DOMAIN s /\ Tail(s)[i] = s[i + 1]
  BY <1>1, <1>2, <1>3
<1>6. ASSUME NEW i \in DOMAIN Tail(s), Tail(s)[i] = Head(s)
      PROVE  FALSE
  <2>1. i + 1 = 1
    BY <1>4, <1>5, <1>6 DEF IsInjective
  <2>2. QED
    BY <1>1, <1>3, <2>1
<1>7. ASSUME NEW i \in DOMAIN Tail(s), NEW j \in DOMAIN Tail(s), Tail(s)[i] = Tail(s)[j]
      PROVE  i = j
  <2>1. i + 1 = j + 1
    BY <1>5, <1>7 DEF IsInjective
  <2>2. QED
    BY <1>1, <1>3, <2>1
<1>8. QED
  BY ZenonT(30), <1>2, <1>4, <1>5, <1>6, <1>7 DEF IsInjective

\* A change to one cell
LEMMA PlaceShape ==
    ASSUME NEW T, NEW m \in ManagersOf(T), Ordered(m), NEW c \in DOMAIN m.cells,
           NEW a \in CellsOf(T), a.frozen # None => a.frozen.tree = a.tree,
           NEW x, x = [m EXCEPT !.cells[c] = a]
    PROVE  /\ x \in ManagersOf(T)
           /\ Ordered(x)
           /\ x.queue = m.queue
           /\ DOMAIN x.cells = DOMAIN m.cells
           /\ Len(x.cells) = Len(m.cells)
           /\ x.cells[c] = a
           /\ \A d \in DOMAIN m.cells : d # c => x.cells[d] = m.cells[d]
<1>1. /\ m.cells \in Seq(CellsOf(T)) /\ Len(m.cells) \in Nat
      /\ DOMAIN m.cells = 1..Len(m.cells)
  BY ManagerSequences
<1>2. /\ x.queue = m.queue
      /\ x.cells = [m.cells EXCEPT ![c] = a]
      /\ x = [queue |-> m.queue, cells |-> [m.cells EXCEPT ![c] = a]]
  BY ZenonT(30) DEF ManagersOf
<1>3. /\ [m.cells EXCEPT ![c] = a] \in Seq(CellsOf(T))
      /\ Len([m.cells EXCEPT ![c] = a]) = Len(m.cells)
  BY <1>1, ExceptSeq
<1>4. x \in ManagersOf(T)
  BY ZenonT(30), <1>2, <1>3 DEF ManagersOf
<1>5. /\ DOMAIN x.cells = DOMAIN m.cells
      /\ x.cells[c] = a
      /\ \A d \in DOMAIN m.cells : d # c => x.cells[d] = m.cells[d]
  BY <1>1, <1>2
<1>6. Ordered(x)
  BY <1>2, <1>5 DEF Ordered
<1>7. QED
  BY ZenonT(30), <1>2, <1>3, <1>4, <1>5, <1>6

RequestsOf(T) == [agent : Agents, tree : T, epoch : Nat, budget : Nat, rebased : BOOLEAN]

\* A claimed cell has the tree of the request, and is neither ready nor held
\* nor under repair.
LEMMA ApplyClaimType ==
    ASSUME NEW T, NEW q \in RequestsOf(T)
    PROVE  /\ ApplyClaim(q) \in CellsOf(T)
           /\ ApplyClaim(q).frozen = None
           /\ ApplyClaim(q).tree = q.tree
           /\ ApplyClaim(q).state \notin {"ready", "held", "repairing"}
<1>1. Clamp(q.budget) \in Nat
  <2> DEFINE b == q.budget
  <2>1. b \in Nat
    BY DEF RequestsOf
  <2> HIDE DEF b
  <2>2. \E n \in 1..5 : n = b \/ (n = 1 /\ b < 1) \/ (n = 5 /\ b > 5)
    BY <2>1
  <2>3. Clamp(b) \in 1..5
    BY <2>2 DEF Clamp, WORKCELL_MAX_BRANCH_BUDGET
  <2>4. QED
    BY <2>3 DEF b
<1>2. QED
  BY ZenonT(30), <1>1 DEF ApplyClaim, CellsOf, CellStates, RequestsOf

\* claim: the cell that is taken holds the claim and is behind the queue, unless
\* the manager was empty; a replacement is queued.
LEMMA ClaimShape ==
    ASSUME NEW T, None \in T, NEW m \in ManagersOf(T), Ordered(m), NEW q \in RequestsOf(T),
           m.queue = <<>> => m.cells = <<>>,
           NEW n, n = Claim(m, q), NEW c, c = NextCell(m)
    PROVE  /\ n \in ManagersOf(T)
           /\ Ordered(n)
           /\ n.queue # <<>>
           /\ c \in DOMAIN n.cells
           /\ n.cells[c] = ApplyClaim(q)
           /\ \A d \in DOMAIN m.cells : d \in DOMAIN n.cells /\ (d # c => n.cells[d] = m.cells[d])
           /\ \A i \in DOMAIN n.queue :
                  \/ m.queue = <<>> /\ c = 1 /\ n.queue[i] = c
                  \/ n.queue[i] # c /\ \E j \in DOMAIN m.queue : m.queue[j] = n.queue[i]
                  \/ n.queue[i] # c /\ n.queue[i] \notin DOMAIN m.cells
                       /\ n.cells[n.queue[i]] = ReadyCell
           /\ m.queue # <<>> => c \in DOMAIN m.cells /\ \E j \in DOMAIN m.queue : m.queue[j] = c
<1> DEFINE taken == IF m.queue = <<>> THEN Spawn(m, 1) ELSE [m EXCEPT !.queue = Tail(@)]
           x == [taken EXCEPT !.cells[c] = ApplyClaim(q)]
<1>1. /\ m.queue \in Seq(Nat) /\ m.cells \in Seq(CellsOf(T))
      /\ Len(m.queue) \in Nat /\ Len(m.cells) \in Nat
      /\ DOMAIN m.queue = 1..Len(m.queue) /\ DOMAIN m.cells = 1..Len(m.cells)
  BY ManagerSequences
<1>2. /\ taken \in ManagersOf(T)
      /\ Ordered(taken)
      /\ c \in DOMAIN taken.cells
      /\ \A d \in DOMAIN m.cells : d \in DOMAIN taken.cells /\ taken.cells[d] = m.cells[d]
      /\ \A i \in DOMAIN taken.queue :
             \/ m.queue = <<>> /\ c = 1 /\ taken.queue[i] = c
             \/ taken.queue[i] # c /\ \E j \in DOMAIN m.queue : m.queue[j] = taken.queue[i]
      /\ m.queue # <<>> => c \in DOMAIN m.cells /\ \E j \in DOMAIN m.queue : m.queue[j] = c
  <2>1. CASE m.queue = <<>>
    <3>1. m.cells = <<>> /\ Len(m.cells) = 0 /\ Len(m.queue) = 0 /\ c = 1 /\ taken = Spawn(m, 1)
      BY <1>1, <2>1, EmptySeq DEF NextCell, Spawned
    <3>2. /\ taken \in ManagersOf(T)
          /\ Len(taken.cells) = 1
          /\ Len(taken.queue) = 1
          /\ \A i \in 1..1 : taken.queue[i] = i
      <4> HIDE DEF taken
      <4>1. /\ taken \in ManagersOf(T)
            /\ Len(taken.cells) = Len(m.cells) + 1
            /\ Len(taken.queue) = Len(m.queue) + 1
            /\ taken.queue[Len(m.queue) + 1] = Len(m.cells) + 1
        BY ZenonT(30), <3>1, SpawnOne
      <4>2. QED
        BY <3>1, <4>1
    <3>3. Ordered(taken)
      BY <3>1, SpawnOrdered
    <3> HIDE DEF taken
    <3>4. DOMAIN taken.queue = 1..1 /\ DOMAIN taken.cells = 1..1
      BY ZenonT(30), <3>2, ManagerSequences
    <3>5. DOMAIN m.cells = {}
      BY <1>1, <3>1
    <3>6. QED
      BY <2>1, <3>1, <3>2, <3>3, <3>4, <3>5
  <2>2. CASE m.queue # <<>>
    <3>1. /\ taken.queue = Tail(m.queue) /\ taken.cells = m.cells /\ c = Head(m.queue)
          /\ taken = [queue |-> Tail(m.queue), cells |-> m.cells]
      BY ZenonT(30), <2>2 DEF ManagersOf, NextCell
    <3> HIDE DEF taken
    <3>2. IsInjective(m.queue)
      BY DEF Ordered
    <3>3. /\ Tail(m.queue) \in Seq(Nat)
          /\ IsInjective(Tail(m.queue))
          /\ 1 \in DOMAIN m.queue /\ Head(m.queue) = m.queue[1]
          /\ \A i \in DOMAIN Tail(m.queue) : /\ Tail(m.queue)[i] # Head(m.queue)
                                             /\ i + 1 \in DOMAIN m.queue
                                             /\ Tail(m.queue)[i] = m.queue[i + 1]
      BY ZenonT(30), <1>1, <2>2, <3>2, TailShape
    <3>4. taken \in ManagersOf(T)
      BY ZenonT(30), <1>1, <3>1, <3>3 DEF ManagersOf
    <3>5. c \in DOMAIN m.cells
      BY ZenonT(30), <3>1, <3>3 DEF Ordered
    <3>6. \A i \in DOMAIN taken.queue : taken.queue[i] \in DOMAIN taken.cells
      BY ZenonT(30), <3>1, <3>3 DEF Ordered
    <3>7. Ordered(taken)
      BY ZenonT(30), <3>1, <3>3, <3>6 DEF Ordered
    <3>8. \A i \in DOMAIN taken.queue :
              taken.queue[i] # c /\ \E j \in DOMAIN m.queue : m.queue[j] = taken.queue[i]
      BY ZenonT(30), <3>1, <3>3
    <3>9. QED
      BY ZenonT(30), <2>2, <3>1, <3>3, <3>4, <3>5, <3>7, <3>8
  <2>3. QED
    BY ZenonT(30), <2>1, <2>2
<1>3. n = Spawn(x, 1)
  BY DEF Claim
<1> HIDE DEF taken
<1>4. /\ x \in ManagersOf(T)
      /\ Ordered(x)
      /\ x.queue = taken.queue
      /\ DOMAIN x.cells = DOMAIN taken.cells
      /\ x.cells[c] = ApplyClaim(q)
      /\ \A d \in DOMAIN taken.cells : d # c => x.cells[d] = taken.cells[d]
  <2>1. ApplyClaim(q) \in CellsOf(T) /\ ApplyClaim(q).frozen = None
    BY ApplyClaimType
  <2>2. x = [taken EXCEPT !.cells[c] = ApplyClaim(q)]
    OBVIOUS
  <2> DEFINE a == ApplyClaim(q)
  <2> HIDE DEF a, x
  <2>3. QED
    BY <1>2, <2>1, <2>2, PlaceShape DEF a
<1> HIDE DEF x
<1>5. /\ n \in ManagersOf(T)
      /\ Len(n.cells) = Len(x.cells) + 1
      /\ \A d \in 1..Len(x.cells) : n.cells[d] = x.cells[d]
      /\ n.cells[Len(x.cells) + 1] = ReadyCell
      /\ Len(n.queue) = Len(x.queue) + 1
      /\ \A i \in 1..Len(x.queue) : n.queue[i] = x.queue[i]
      /\ n.queue[Len(x.queue) + 1] = Len(x.cells) + 1
  BY ZenonT(30), <1>3, <1>4, SpawnOne
<1>6. Ordered(n)
  BY ZenonT(30), <1>3, <1>4, SpawnOrdered
<1>7. /\ Len(x.cells) \in Nat /\ Len(x.queue) \in Nat
      /\ DOMAIN x.cells = 1..Len(x.cells) /\ DOMAIN n.cells = 1..Len(x.cells) + 1
      /\ DOMAIN x.queue = 1..Len(x.queue) /\ DOMAIN n.queue = 1..Len(x.queue) + 1
  BY ZenonT(30), <1>4, <1>5, ManagerSequences
<1>8. \A d \in DOMAIN x.cells : d \in DOMAIN n.cells /\ n.cells[d] = x.cells[d]
  BY <1>5, <1>7
<1>9. n.queue # <<>>
  BY <1>7, EmptySeq
<1>10. ASSUME NEW i \in DOMAIN n.queue
       PROVE  \/ m.queue = <<>> /\ c = 1 /\ n.queue[i] = c
              \/ n.queue[i] # c /\ \E j \in DOMAIN m.queue : m.queue[j] = n.queue[i]
              \/ n.queue[i] # c /\ n.queue[i] \notin DOMAIN m.cells
                   /\ n.cells[n.queue[i]] = ReadyCell
  <2>1. CASE i \in 1..Len(x.queue)
    <3>1. n.queue[i] = taken.queue[i] /\ i \in DOMAIN taken.queue
      BY ZenonT(30), <1>4, <1>5, <1>7, <2>1
    <3>2. QED
      BY ZenonT(30), <1>2, <3>1
  <2>2. CASE i = Len(x.queue) + 1
    <3>1. n.queue[i] = Len(x.cells) + 1
      BY ZenonT(30), <1>5, <1>7, <2>2
    <3>2. n.cells[n.queue[i]] = ReadyCell
      BY ZenonT(30), <1>5, <1>7, <3>1
    <3>3. n.queue[i] \notin DOMAIN x.cells
      BY <1>7, <3>1
    <3>4. n.queue[i] # c /\ n.queue[i] \notin DOMAIN m.cells
      BY ZenonT(30), <1>2, <1>4, <3>3
    <3>5. QED
      BY ZenonT(30), <3>2, <3>4
  <2>3. QED
    BY <1>7, <2>1, <2>2
<1>11. QED
  BY <1>2, <1>4, <1>5, <1>6, <1>8, <1>9, <1>10

\* position and remove: what is left of a queue without repetition are the other
\* elements.
LEMMA WithoutShape ==
    ASSUME NEW s \in Seq(Nat), IsInjective(s), NEW e, NEW t, t = Without(s, e)
    PROVE  /\ t \in Seq(Nat)
           /\ IsInjective(t)
           /\ \A i \in DOMAIN t : \E j \in DOMAIN s : s[j] = t[i]
           /\ \A j \in DOMAIN s : s[j] # e => \E i \in DOMAIN t : t[i] = s[j]
<1>1. Len(s) \in Nat /\ DOMAIN s = 1..Len(s)
  BY LenProperties
<1>2. CASE ~\E i \in 1..Len(s) : s[i] = e
  <2>1. t = s
    BY <1>1, <1>2 DEF Without
  <2>2. QED
    BY <2>1
<1>3. ASSUME NEW k \in 1..Len(s), s[k] = e
      PROVE  /\ t \in Seq(Nat)
             /\ IsInjective(t)
             /\ \A i \in DOMAIN t : \E j \in DOMAIN s : s[j] = t[i]
             /\ \A j \in DOMAIN s : s[j] # e => \E i \in DOMAIN t : t[i] = s[j]
  <2> DEFINE a == SubSeq(s, 1, k - 1)
             b == SubSeq(s, k + 1, Len(s))
             first == CHOOSE i \in DOMAIN s : s[i] = e /\ \A j \in 1..i - 1 : s[j] # e
  <2>1. \A i \in DOMAIN s : s[i] = e => i = k
    BY ZenonT(30), <1>1, <1>3 DEF IsInjective
  <2>2. \A j \in 1..k - 1 : s[j] # e
    BY SMTT(20), <1>1, <2>1
  <2>3. first = k
    BY ZenonT(30), <1>1, <1>3, <2>1, <2>2
  <2>4. t = a \o b
    BY ZenonT(30), <1>1, <1>3, <2>3 DEF Without
  <2>5. \A i \in 1..Len(s) : s[i] \in Nat
    BY ElementOfSeq
  <2>6. /\ a \in Seq(Nat) /\ Len(a) = k - 1
        /\ \A i \in 1..k - 1 : a[i] = s[i]
    BY <1>1, <2>5, SubSeqProperties
  <2>7. /\ b \in Seq(Nat) /\ Len(b) = Len(s) - k
        /\ \A i \in 1..Len(s) - k : b[i] = s[k + i]
    <3>1. k + 1 \in Int /\ \A i \in k + 1..Len(s) : s[i] \in Nat
      BY <1>1, <2>5
    <3>2. /\ b \in Seq(Nat)
          /\ Len(b) = IF k + 1 <= Len(s) THEN Len(s) - (k + 1) + 1 ELSE 0
          /\ \A i \in 1..Len(s) - (k + 1) + 1 : b[i] = s[(k + 1) + i - 1]
      BY SMTT(20), <1>1, <3>1, SubSeqProperties
    <3> HIDE DEF b
    <3>3. Len(s) - (k + 1) + 1 = Len(s) - k /\ Len(b) = Len(s) - k
      <4>1. Len(s) - (k + 1) + 1 = Len(s) - k
        BY <1>1
      <4>2. k \in Int /\ k <= Len(s) /\ Len(s) \in Int
        BY <1>1
      <4>3. k + 1 <= Len(s) \/ Len(s) - k = 0
        BY <4>2
      <4>4. k + 1 <= Len(s) => Len(b) = Len(s) - k
        BY ZenonT(30), <3>2, <4>1
      <4>5. ~(k + 1 <= Len(s)) => Len(b) = 0
        BY <3>2
      <4>6. QED
        BY ZenonT(30), <4>1, <4>3, <4>4, <4>5
    <3>4. ASSUME NEW i \in 1..Len(s) - k
          PROVE  b[i] = s[k + i]
      <4>1. (k + 1) + i - 1 = k + i
        BY <1>1
      <4>2. b[i] = s[(k + 1) + i - 1]
        BY ZenonT(30), <3>2, <3>3
      <4>3. QED
        BY SMTT(20), <4>1, <4>2
    <3>5. QED
      BY ZenonT(30), <3>2, <3>3, <3>4
  <2> HIDE DEF a, b, first
  <2>8. /\ a \o b \in Seq(Nat)
        /\ Len(a \o b) = Len(a) + Len(b)
        /\ \A i \in 1..Len(a) + Len(b) : (a \o b)[i] = IF i <= Len(a) THEN a[i] ELSE b[i - Len(a)]
    BY ZenonT(30), <2>6, <2>7, ConcatProperties
  <2>9. t \in Seq(Nat) /\ Len(t) = Len(s) - 1 /\ DOMAIN t = 1..Len(s) - 1
    <3>1. t \in Seq(Nat) /\ Len(t) = Len(s) - 1
      BY <1>1, <2>4, <2>6, <2>7, <2>8
    <3>2. QED
      BY ZenonT(30), <3>1, LenProperties
  <2>10. \A i \in 1..k - 1 : t[i] = s[i]
    BY SMTT(20), <1>1, <2>4, <2>6, <2>7, <2>8
  <2>11. ASSUME NEW i \in k..Len(s) - 1
         PROVE  t[i] = s[i + 1]
    <3>1. /\ i - Len(a) \in 1..Len(s) - k /\ i \in 1..Len(a) + Len(b) /\ ~(i <= Len(a))
          /\ k + (i - Len(a)) = i + 1
      BY <1>1, <2>6, <2>7
    <3>2. t[i] = b[i - Len(a)]
      BY ZenonT(30), <2>4, <2>8, <3>1
    <3>3. b[i - Len(a)] = s[k + (i - Len(a))]
      BY ZenonT(30), <2>7, <3>1
    <3>4. QED
      BY SMTT(20), <3>1, <3>2, <3>3
  <2>12. \A i \in DOMAIN t : \/ i \in 1..k - 1 /\ i \in DOMAIN s /\ t[i] = s[i]
                             \/ i \in k..Len(s) - 1 /\ i + 1 \in DOMAIN s /\ t[i] = s[i + 1]
    <3>1. \A i \in 1..Len(s) - 1 : \/ i \in 1..k - 1 /\ i \in 1..Len(s)
                                   \/ i \in k..Len(s) - 1 /\ i + 1 \in 1..Len(s)
      BY <1>1
    <3>2. QED
      BY ZenonT(30), <1>1, <2>9, <2>10, <2>11, <3>1
  <2>13. IsInjective(t)
    <3>1. SUFFICES ASSUME NEW i \in DOMAIN t, NEW j \in DOMAIN t, t[i] = t[j]
                   PROVE  i = j
      BY DEF IsInjective
    <3>2. \A x, y \in DOMAIN s : s[x] = s[y] => x = y
      BY DEF IsInjective
    <3>3. QED
      BY <1>1, <2>12, <3>1, <3>2
  <2>14. \A i \in DOMAIN t : \E j \in DOMAIN s : s[j] = t[i]
    BY <2>12
  <2>15. ASSUME NEW j \in DOMAIN s, s[j] # e
         PROVE  \E i \in DOMAIN t : t[i] = s[j]
    <3>1. CASE j < k
      <4>1. j \in 1..k - 1 /\ j \in DOMAIN t
        BY <1>1, <2>9, <3>1
      <4>2. QED
        BY ZenonT(30), <2>10, <4>1
    <3>2. CASE j > k
      <4>1. j - 1 \in k..Len(s) - 1 /\ j - 1 \in DOMAIN t /\ (j - 1) + 1 = j
        BY SMTT(20), <1>1, <2>9, <3>2
      <4>2. t[j - 1] = s[(j - 1) + 1]
        BY ZenonT(30), <2>11, <4>1
      <4>3. QED
        BY ZenonT(30), <4>1, <4>2
    <3>3. QED
      BY <1>1, <1>3, <2>15, <3>1, <3>2
  <2>16. QED
    BY ZenonT(30), <2>9, <2>13, <2>14, <2>15
<1>4. QED
  BY ZenonT(30), <1>2, <1>3

\* with_warm_pool(n) makes n ready cells, queued in their order.
LEMMA WarmPoolShape ==
    ASSUME NEW T, None \in T, NEW n \in Nat, NEW m, m = WithWarmPool(n)
    PROVE  /\ m \in ManagersOf(T) /\ Ordered(m)
           /\ Len(m.queue) = n /\ Len(m.cells) = n
           /\ \A i \in 1..n : m.queue[i] = i /\ m.cells[i] = ReadyCell
<1> DEFINE e == [queue |-> <<>>, cells |-> <<>>]
<1>1. e \in ManagersOf(T) /\ Len(e.queue) = 0 /\ Len(e.cells) = 0 /\ DOMAIN e.queue = {}
      /\ DOMAIN e.cells = {}
  BY DEF ManagersOf
<1>2. m = Spawn(e, n)
  BY DEF WithWarmPool
<1> HIDE DEF e
<1>3. Ordered(e)
  BY <1>1 DEF Ordered, IsInjective
<1>4. Ordered(Spawn(e, n))
  BY SMTT(20), <1>1, <1>3, SpawnOrdered
<1>5. /\ Spawn(e, n) \in ManagersOf(T)
      /\ Len(Spawn(e, n).cells) = Len(e.cells) + n
      /\ \A c \in 1..Len(e.cells) : Spawn(e, n).cells[c] = e.cells[c]
      /\ \A c \in Len(e.cells) + 1..Len(e.cells) + n : Spawn(e, n).cells[c] = ReadyCell
      /\ Len(Spawn(e, n).queue) = Len(e.queue) + n
      /\ \A i \in 1..Len(e.queue) : Spawn(e, n).queue[i] = e.queue[i]
      /\ \A i \in Len(e.queue) + 1..Len(e.queue) + n :
             Spawn(e, n).queue[i] = Len(e.cells) + (i - Len(e.queue))
  <2>1. e \in ManagersOf(T)
    BY <1>1
  <2>2. QED
    BY ZenonT(30), <2>1, SpawnShape
<1>6. QED
  BY <1>1, <1>2, <1>4, <1>5

-----------------------------------------------------------------------------
(* The warm pool *)

\* A claim leaves what idles ready, whatever number of containers was started: it
\* hands out the first idle cell, and a cell idles once its container runs.
LEMMA PoolClaimInv ==
    ASSUME NEW T, None \in T, PoolTypeOK(T), Ordered(pool), Idle,
           NEW q \in RequestsOf(T), NEW k \in Nat, PoolClaim(q, k)
    PROVE  PoolTypeOK(T)' /\ Ordered(pool)' /\ Idle'
<1> DEFINE n == Len(pool.cells)
           asked == IF k < Wanted THEN k + 1 ELSE k
           new == [i \in 1..k |-> n + i]
           all == warm \o new
           m == Spawn(pool, asked)
           h == Head(all)
<1>1. /\ containers' = containers \cup Range(new)
      /\ all = <<>> => pool' = m /\ warm' = warm
      /\ all # <<>> => pool' = ClaimReady(m, h, q) /\ warm' = Tail(all)
      /\ k \in 0..Wanted
  BY ZenonT(30) DEF PoolClaim, Spawned
<1>2. asked \in Nat /\ k <= asked
  BY <1>1
<1>3. /\ pool \in ManagersOf(T) /\ None \in T
      /\ pool.queue \in Seq(Nat) /\ Len(pool.queue) \in Nat /\ n \in Nat
      /\ DOMAIN pool.queue = 1..Len(pool.queue) /\ DOMAIN pool.cells = 1..n
      /\ Len(warm) \in Nat /\ DOMAIN warm = 1..Len(warm)
  BY ZenonT(30), ManagerSequences, LenProperties DEF PoolTypeOK
<1>4. new \in [1..k -> Nat] /\ \A i \in 1..k : new[i] = n + i
  BY <1>3
<1> HIDE DEF n, asked, new
<1>5. /\ m \in ManagersOf(T)
      /\ Ordered(m)
      /\ Len(m.cells) = n + asked
      /\ \A c \in 1..n : m.cells[c] = pool.cells[c]
      /\ \A c \in n + 1..n + asked : m.cells[c] = ReadyCell
      /\ Len(m.queue) = Len(pool.queue) + asked
      /\ \A i \in 1..Len(pool.queue) : m.queue[i] = pool.queue[i]
      /\ \A i \in Len(pool.queue) + 1..Len(pool.queue) + asked :
             m.queue[i] = n + (i - Len(pool.queue))
  <2>1. Ordered(m)
    BY ZenonT(30), <1>2, <1>3, SpawnOrdered
  <2>2. /\ Spawn(pool, asked) \in ManagersOf(T)
        /\ Len(Spawn(pool, asked).cells) = Len(pool.cells) + asked
        /\ \A c \in 1..Len(pool.cells) : Spawn(pool, asked).cells[c] = pool.cells[c]
        /\ \A c \in Len(pool.cells) + 1..Len(pool.cells) + asked :
               Spawn(pool, asked).cells[c] = ReadyCell
        /\ Len(Spawn(pool, asked).queue) = Len(pool.queue) + asked
        /\ \A i \in 1..Len(pool.queue) : Spawn(pool, asked).queue[i] = pool.queue[i]
        /\ \A i \in Len(pool.queue) + 1..Len(pool.queue) + asked :
               Spawn(pool, asked).queue[i] = Len(pool.cells) + (i - Len(pool.queue))
    BY ZenonT(30), <1>2, <1>3, SpawnShape
  <2>3. QED
    BY ZenonT(30), <2>1, <2>2 DEF n
<1> HIDE DEF m
<1>6. /\ m.queue \in Seq(Nat) /\ DOMAIN m.cells = 1..n + asked
      /\ DOMAIN m.queue = 1..Len(pool.queue) + asked
  BY ZenonT(30), <1>5, ManagerSequences
<1>7. /\ all \in Seq(Nat)
      /\ Len(all) = Len(warm) + k
      /\ \A i \in 1..Len(warm) : all[i] = warm[i]
      /\ \A i \in Len(warm) + 1..Len(warm) + k : all[i] = n + (i - Len(warm))
  <2>1. new \in Seq(Nat) /\ Len(new) = k
    BY ZenonT(30), <1>4, FunctionIsSequence
  <2>2. /\ warm \o new \in Seq(Nat)
        /\ Len(warm \o new) = Len(warm) + Len(new)
        /\ \A i \in 1..Len(warm) + Len(new) : (warm \o new)[i] =
               IF i <= Len(warm) THEN warm[i] ELSE new[i - Len(warm)]
    BY ZenonT(30), <2>1, ConcatProperties DEF PoolTypeOK
  <2>3. \A i \in 1..Len(warm) : all[i] = warm[i]
    BY <1>3, <2>1, <2>2
  <2>4. ASSUME NEW i \in Len(warm) + 1..Len(warm) + k
        PROVE  all[i] = n + (i - Len(warm))
    <3>1. i - Len(warm) \in 1..k /\ i \in 1..Len(warm) + k /\ ~(i <= Len(warm))
      BY <1>3
    <3>2. all[i] = new[i - Len(warm)]
      BY ZenonT(30), <2>1, <2>2, <3>1
    <3>3. QED
      BY ZenonT(30), <1>4, <3>1, <3>2
  <2>5. QED
    BY ZenonT(30), <2>1, <2>2, <2>3, <2>4
<1> HIDE DEF all
<1>8. DOMAIN all = 1..Len(warm) + k
  BY ZenonT(30), <1>7, LenProperties
<1>9. IsInjective(all) /\ \A i \in DOMAIN all : all[i] \in 1..n + k
  <2>1. (\A i \in 1..Len(warm) : warm[i] \in 1..n) /\ IsInjective(warm)
    BY ZenonT(30), <1>3 DEF Idle
  <2>2. warm \in Seq(Nat)
    BY DEF PoolTypeOK
  <2>3. QED
    BY ZenonT(30), <1>3, <1>7, <1>8, <2>1, <2>2, QueueInjective
<1>10. ASSUME NEW i \in DOMAIN all
       PROVE  /\ all[i] \in containers'
              /\ all[i] \in DOMAIN m.cells
              /\ \E j \in DOMAIN m.queue : m.queue[j] = all[i]
              /\ m.cells[all[i]].state = "ready"
  <2>1. CASE i \in 1..Len(warm)
    <3>1. all[i] = warm[i] /\ i \in DOMAIN warm
      BY ZenonT(30), <1>3, <1>7, <2>1
    <3>2. /\ warm[i] \in containers
          /\ warm[i] \in 1..n
          /\ \E j \in 1..Len(pool.queue) : pool.queue[j] = warm[i]
          /\ pool.cells[warm[i]].state = "ready"
      BY ZenonT(30), <1>3, <3>1 DEF Idle
    <3>3. 1..n \subseteq DOMAIN m.cells /\ 1..Len(pool.queue) \subseteq DOMAIN m.queue
      BY <1>2, <1>3, <1>6
    <3>4. QED
      BY ZenonT(30), <1>1, <1>5, <3>1, <3>2, <3>3
  <2>2. CASE i \in Len(warm) + 1..Len(warm) + k
    <3> DEFINE d == i - Len(warm)
    <3>1. d \in 1..k /\ all[i] = n + d
      BY SMTT(20), <1>3, <1>7, <2>2
    <3> HIDE DEF d
    <3>2. all[i] \in Range(new)
      BY ZenonT(30), <1>4, <3>1 DEF Range
    <3>3. all[i] \in n + 1..n + asked
      BY <1>2, <1>3, <3>1
    <3>4. m.cells[all[i]] = ReadyCell /\ all[i] \in DOMAIN m.cells
      BY <1>3, <1>5, <1>6, <3>3
    <3>5. \E j \in DOMAIN m.queue : m.queue[j] = all[i]
      <4> DEFINE j == Len(pool.queue) + d
      <4>1. j \in Len(pool.queue) + 1..Len(pool.queue) + asked /\ j - Len(pool.queue) = d
        BY SMTT(20), <1>2, <1>3, <3>1
      <4>2. j \in DOMAIN m.queue
        BY <1>3, <1>6, <4>1
      <4> HIDE DEF j
      <4>3. m.queue[j] = n + d
        BY ZenonT(30), <1>5, <4>1
      <4>4. QED
        BY ZenonT(30), <3>1, <4>2, <4>3
    <3>6. QED
      BY <1>1, <3>2, <3>4, <3>5 DEF ReadyCell
  <2>3. QED
    BY <1>3, <1>8, <2>1, <2>2
<1>11. containers' \subseteq Nat
  BY ZenonT(30), <1>1, <1>4 DEF PoolTypeOK, Range
<1>12. CASE all = <<>>
  <2>1. DOMAIN warm = {}
    BY <1>3, <1>7, <1>12, EmptySeq
  <2>2. pool' = m /\ warm' = warm
    BY ZenonT(30), <1>1, <1>12
  <2>3. Idle'
    BY ZenonT(30), <2>1, <2>2 DEF Idle
  <2>4. PoolTypeOK(T)'
    BY ZenonT(30), <1>5, <1>11, <2>2 DEF PoolTypeOK
  <2>5. Ordered(pool)'
    BY ZenonT(30), <1>5, <2>2 DEF Ordered
  <2>6. QED
    BY ZenonT(30), <2>3, <2>4, <2>5
<1>13. CASE all # <<>>
  <2>1. /\ Tail(all) \in Seq(Nat)
        /\ IsInjective(Tail(all))
        /\ 1 \in DOMAIN all /\ h = all[1]
        /\ \A i \in DOMAIN Tail(all) : /\ Tail(all)[i] # h
                                       /\ i + 1 \in DOMAIN all
                                       /\ Tail(all)[i] = all[i + 1]
    BY SMTT(20), <1>7, <1>9, <1>13, TailShape
  <2> HIDE DEF h
  <2>2. /\ pool' = ClaimReady(m, h, q) /\ warm' = Tail(all)
        /\ h \in DOMAIN m.cells
    BY ZenonT(30), <1>1, <1>10, <1>13, <2>1
  <2>3. /\ pool'.queue = Without(m.queue, h)
        /\ pool'.cells = [m.cells EXCEPT ![h] = ApplyClaim(q)]
        /\ pool' = [queue |-> pool'.queue, cells |-> pool'.cells]
    BY ZenonT(30), <2>2 DEF ClaimReady
  <2>4. ApplyClaim(q) \in CellsOf(T) /\ ApplyClaim(q).frozen = None
    BY ApplyClaimType
  <2>5. /\ IsInjective(m.queue)
        /\ \A i \in DOMAIN m.queue : m.queue[i] \in DOMAIN m.cells
        /\ \A c \in DOMAIN m.cells :
               m.cells[c].frozen # None => m.cells[c].frozen.tree = m.cells[c].tree
    BY ZenonT(30), <1>5 DEF Ordered
  <2>6. /\ pool'.queue \in Seq(Nat)
        /\ IsInjective(pool'.queue)
        /\ \A i \in DOMAIN pool'.queue : \E j \in DOMAIN m.queue : m.queue[j] = pool'.queue[i]
        /\ \A j \in DOMAIN m.queue : m.queue[j] # h =>
               \E i \in DOMAIN pool'.queue : pool'.queue[i] = m.queue[j]
    <3> DEFINE s == m.queue
               t == pool'.queue
    <3>1. s \in Seq(Nat) /\ IsInjective(s) /\ t = Without(s, h)
      BY ZenonT(30), <1>6, <2>3, <2>5
    <3> HIDE DEF s, t
    <3>2. /\ t \in Seq(Nat)
          /\ IsInjective(t)
          /\ \A i \in DOMAIN t : \E j \in DOMAIN s : s[j] = t[i]
          /\ \A j \in DOMAIN s : s[j] # h => \E i \in DOMAIN t : t[i] = s[j]
      BY <3>1, WithoutShape
    <3>3. QED
      BY ZenonT(30), <3>2 DEF s, t
  <2>7. pool'.cells \in Seq(CellsOf(T))
    <3>1. m.cells \in Seq(CellsOf(T)) /\ h \in 1..Len(m.cells)
      BY ZenonT(30), <1>5, <2>2, ManagerSequences
    <3>2. QED
      BY <2>3, <2>4, <3>1, ExceptSeq
  <2>8. /\ DOMAIN pool'.cells = DOMAIN m.cells
        /\ pool'.cells[h] = ApplyClaim(q)
        /\ \A c \in DOMAIN m.cells : c # h => pool'.cells[c] = m.cells[c]
    BY ZenonT(30), <2>2, <2>3
  <2>9. PoolTypeOK(T)'
    BY ZenonT(30), <1>11, <2>1, <2>2, <2>3, <2>6, <2>7 DEF PoolTypeOK, ManagersOf
  <2>10. Ordered(pool)'
    <3>1. \A i \in DOMAIN pool'.queue : pool'.queue[i] \in DOMAIN pool'.cells
      BY ZenonT(30), <2>5, <2>6, <2>8
    <3>2. \A c \in DOMAIN pool'.cells :
              pool'.cells[c].frozen # None => pool'.cells[c].frozen.tree = pool'.cells[c].tree
      BY ZenonT(30), <2>4, <2>5, <2>8
    <3>3. QED
      BY ZenonT(30), <2>6, <3>1, <3>2 DEF Ordered
  <2>11. ASSUME NEW i \in DOMAIN warm'
         PROVE  /\ warm'[i] \in containers'
                /\ warm'[i] \in DOMAIN pool'.cells
                /\ \E j \in DOMAIN pool'.queue : pool'.queue[j] = warm'[i]
                /\ pool'.cells[warm'[i]].state = "ready"
    <3>1. i + 1 \in DOMAIN all /\ warm'[i] = all[i + 1] /\ warm'[i] # h
      BY ZenonT(30), <2>1, <2>2
    <3>2. /\ warm'[i] \in containers'
          /\ warm'[i] \in DOMAIN m.cells
          /\ \E j \in DOMAIN m.queue : m.queue[j] = warm'[i]
          /\ m.cells[warm'[i]].state = "ready"
      BY ZenonT(30), <1>10, <3>1
    <3>3. QED
      BY <2>6, <2>8, <3>1, <3>2
  <2>12. Idle'
    BY ZenonT(30), <2>1, <2>2, <2>11 DEF Idle
  <2>13. QED
    BY ZenonT(30), <2>9, <2>10, <2>12
<1>14. QED
  BY ZenonT(30), <1>12, <1>13

-----------------------------------------------------------------------------
(* The web server's manager *)

\* A claim of the manager, after which the claimed cell may be changed as long as
\* its snapshot is of its own tree: what was kept is kept.
LEMMA WebClaimInv ==
    ASSUME web \in ManagersOf(WebTrees), LedgerInv, NEW q \in RequestsOf(WebTrees),
           NEW n, n = Claim(web, q), NEW c, c = NextCell(web),
           NEW w \in ManagersOf(WebTrees), Ordered(w),
           w.queue = n.queue,
           DOMAIN w.cells = DOMAIN n.cells,
           \A d \in DOMAIN n.cells : d # c => w.cells[d] = n.cells[d]
    PROVE  Waits(w) /\ KeptBy(w)
<1>1. /\ Ordered(web) /\ Waits(web)
      /\ web.queue = <<>> => web.cells = <<>> /\ Warm = 0
  BY ZenonT(30) DEF LedgerInv, Waits
<1>2. /\ n.queue # <<>>
      /\ \A d \in DOMAIN web.cells : d \in DOMAIN n.cells /\ (d # c => n.cells[d] = web.cells[d])
      /\ \A i \in DOMAIN n.queue :
             \/ web.queue = <<>> /\ c = 1 /\ n.queue[i] = c
             \/ n.queue[i] # c /\ \E j \in DOMAIN web.queue : web.queue[j] = n.queue[i]
             \/ n.queue[i] # c /\ n.queue[i] \notin DOMAIN web.cells
                  /\ n.cells[n.queue[i]] = ReadyCell
      /\ web.queue # <<>> => \E j \in DOMAIN web.queue : web.queue[j] = c
  <2>1. None \in WebTrees
    BY DEF WebTrees
  <2>2. QED
    BY <1>1, <2>1, ClaimShape
<1>3. \A j \in DOMAIN web.queue : web.queue[j] \in DOMAIN web.cells
  BY SMTT(20), <1>1 DEF Ordered
<1>4. ASSUME NEW i \in DOMAIN w.queue
      PROVE  TwiceClaimed(w.queue[i]) \/ w.cells[w.queue[i]].state \notin {"held", "repairing"}
  <2>1. w.queue[i] \in DOMAIN n.cells /\ i \in DOMAIN n.queue
    BY ZenonT(30) DEF Ordered
  <2>2. CASE web.queue = <<>> /\ c = 1 /\ n.queue[i] = c
    BY ZenonT(30), <1>1, <2>2 DEF TwiceClaimed
  <2>3. ASSUME n.queue[i] # c, NEW j \in DOMAIN web.queue, web.queue[j] = n.queue[i]
        PROVE  TwiceClaimed(w.queue[i]) \/ w.cells[w.queue[i]].state \notin {"held", "repairing"}
    <3>1. w.cells[w.queue[i]] = web.cells[web.queue[j]]
      BY <1>2, <1>3, <2>1, <2>3
    <3>2. QED
      BY ZenonT(30), <1>1, <2>3, <3>1 DEF Waits
  <2>4. CASE n.queue[i] # c /\ n.cells[n.queue[i]] = ReadyCell
    <3>1. w.cells[w.queue[i]] = ReadyCell
      BY SMTT(20), <2>1, <2>4
    <3>2. QED
      BY <3>1 DEF ReadyCell
  <2>5. QED
    BY ZenonT(30), <1>2, <2>1, <2>2, <2>3, <2>4
<1>5. Waits(w)
  BY ZenonT(30), <1>2, <1>4 DEF Waits
<1>6. ASSUME NEW d, NEW t, Keeps(web, d, t)
      PROVE  Keeps(w, d, t)
  <2>1. /\ d \in DOMAIN web.cells
        /\ \/ TwiceClaimed(d)
           \/ /\ \A i \in DOMAIN web.queue : web.queue[i] # d
              /\ web.cells[d].tree = t
    BY ZenonT(30), <1>6 DEF Keeps
  <2>2. d \in DOMAIN w.cells
    BY ZenonT(30), <1>2, <2>1
  <2>3. CASE ~TwiceClaimed(d)
    <3>1. web.queue # <<>>
      <4>1. web.cells # <<>>
        BY SMTT(20), <2>1
      <4>2. QED
        BY ZenonT(30), <1>1, <4>1
    <3>2. d # c
      BY SMTT(20), <1>2, <2>1, <2>3, <3>1
    <3>3. w.cells[d] = web.cells[d]
      BY SMTT(20), <1>2, <2>1, <3>2
    <3>4. \A i \in DOMAIN w.queue : w.queue[i] # d
      BY <1>2, <2>1, <2>3, <3>1
    <3>5. QED
      BY ZenonT(30), <2>1, <2>2, <2>3, <3>3, <3>4 DEF Keeps
  <2>4. QED
    BY ZenonT(30), <2>2, <2>3 DEF Keeps
<1>7. QED
  BY ZenonT(30), <1>5, <1>6 DEF KeptBy

\* The claims of the routes ask for trees of the web workcells.
LEMMA RequestsType == Requests \subseteq RequestsOf(WebTrees)
BY ZenonT(30), EpochsAssumption, BudgetsAssumption DEF Requests, RequestsOf, WebTrees

\* claim, as far as the changes to the claimed cell need it
LEMMA WebClaimed ==
    ASSUME web \in ManagersOf(WebTrees), LedgerInv, NEW q \in RequestsOf(WebTrees),
           NEW n, n = Claim(web, q), NEW c, c = NextCell(web)
    PROVE  n \in ManagersOf(WebTrees) /\ Ordered(n) /\ c \in DOMAIN n.cells
             /\ n.cells[c] = ApplyClaim(q)
<1>1. None \in WebTrees /\ Ordered(web) /\ (web.queue = <<>> => web.cells = <<>>)
  BY ZenonT(30) DEF WebTrees, LedgerInv, Waits
<1>2. QED
  BY <1>1, ClaimShape

Placed(m, c, a) == [m EXCEPT !.cells[c] = a]

\* A claim and a change to the claimed cell
LEMMA WebClaimPlace ==
    ASSUME web \in ManagersOf(WebTrees), LedgerInv, NEW q \in RequestsOf(WebTrees),
           NEW n, n = Claim(web, q), NEW c, c = NextCell(web),
           NEW a \in CellsOf(WebTrees), a.frozen # None => a.frozen.tree = a.tree,
           NEW w, w = Placed(n, c, a)
    PROVE  w \in ManagersOf(WebTrees) /\ Ordered(w) /\ Waits(w) /\ KeptBy(w)
<1>1. n \in ManagersOf(WebTrees) /\ Ordered(n) /\ c \in DOMAIN n.cells
  BY ZenonT(30), WebClaimed
<1>2. /\ w \in ManagersOf(WebTrees)
      /\ Ordered(w)
      /\ w.queue = n.queue
      /\ DOMAIN w.cells = DOMAIN n.cells
      /\ \A d \in DOMAIN n.cells : d # c => w.cells[d] = n.cells[d]
  BY <1>1, PlaceShape DEF Placed
<1>3. QED
  BY <1>2, WebClaimInv

\* A change to a cell that leaves its tree, its snapshot and, unless it was held
\* already, its not being held
LEMMA WebPlace ==
    ASSUME web \in ManagersOf(WebTrees), LedgerInv, NEW c \in DOMAIN web.cells,
           NEW a \in CellsOf(WebTrees),
           a.frozen = web.cells[c].frozen, a.tree = web.cells[c].tree,
           a.state \in {"held", "repairing"} => web.cells[c].state \in {"held", "repairing"},
           NEW w, w = [web EXCEPT !.cells[c] = a]
    PROVE  w \in ManagersOf(WebTrees) /\ Ordered(w) /\ Waits(w) /\ KeptBy(w)
<1>1. Ordered(web) /\ Waits(web)
  BY DEF LedgerInv
<1>2. a.frozen # None => a.frozen.tree = a.tree
  BY ZenonT(30), <1>1 DEF Ordered
<1>3. /\ w \in ManagersOf(WebTrees)
      /\ Ordered(w)
      /\ w.queue = web.queue
      /\ DOMAIN w.cells = DOMAIN web.cells
      /\ w.cells[c] = a
      /\ \A d \in DOMAIN web.cells : d # c => w.cells[d] = web.cells[d]
  BY <1>1, <1>2, PlaceShape
<1>4. \A d \in DOMAIN web.cells :
          /\ w.cells[d].tree = web.cells[d].tree
          /\ w.cells[d].state \in {"held", "repairing"} =>
                 web.cells[d].state \in {"held", "repairing"}
  BY ZenonT(30), <1>3
<1>5. \A i \in DOMAIN web.queue : web.queue[i] \in DOMAIN web.cells
  BY ZenonT(30), <1>1 DEF Ordered
<1>6. w.queue = <<>> => w.cells = <<>> /\ Warm = 0
  <2>1. c \in DOMAIN <<>> => FALSE
    OBVIOUS
  <2>2. QED
    BY ZenonT(30), <1>1, <1>3, <2>1 DEF Waits
<1>7. Waits(w)
  BY ZenonT(30), <1>1, <1>3, <1>4, <1>5, <1>6 DEF Waits
<1>8. KeptBy(w)
  BY ZenonT(30), <1>1, <1>3, <1>4 DEF KeptBy, Keeps
<1>9. QED
  BY ZenonT(30), <1>3, <1>7, <1>8

\* A snapshot has the tree of the cell it is made of.
LEMMA FreezeType ==
    ASSUME NEW T, NEW m \in ManagersOf(T), NEW c \in DOMAIN m.cells
    PROVE  Freeze(m, c) \in FrozenOf(T) /\ Freeze(m, c).tree = m.cells[c].tree
<1>1. m.cells[c] \in CellsOf(T)
  BY SMTT(20), ManagerSequences, ElementOfSeq
<1>2. QED
  BY ZenonT(30), <1>1 DEF Freeze, FrozenOf, CellsOf

\* The workcell routes keep the invariant of the web server's manager.
LEMMA ClaimCellInv ==
    ASSUME WebType, LedgerInv, NEW q \in Requests, ClaimCell(q)
    PROVE  WebType' /\ LedgerInv' /\ KeptBy(web')
<1> DEFINE n == Claim(web, q)
           c == NextCell(web)
<1>1. q \in RequestsOf(WebTrees)
  BY RequestsType
<1>2. web \in ManagersOf(WebTrees)
  BY DEF WebType
<1>3. n = Claim(web, q) /\ c = NextCell(web)
  OBVIOUS
<1>4. web' = n
  BY SMTT(20) DEF ClaimCell
<1> HIDE DEF n, c
<1>5. n \in ManagersOf(WebTrees) /\ Ordered(n)
  BY ZenonT(30), <1>1, <1>2, <1>3, WebClaimed
<1>6. Waits(n) /\ KeptBy(n)
  BY ZenonT(30), <1>1, <1>2, <1>3, <1>5, WebClaimInv
<1>7. QED
  BY ZenonT(30), <1>4, <1>5, <1>6 DEF WebType, LedgerInv, Ordered, Waits

\* A repair in the live cell preserves the invariant and the cells' trees.
LEMMA RepairLiveInv ==
    ASSUME WebType, LedgerInv, NEW q \in Requests, RepairLive(q)
    PROVE  WebType' /\ LedgerInv' /\ KeptBy(web')
<1> DEFINE n == Claim(web, q)
           c == NextCell(web)
           f == Freeze(n, c)
           l == ApplyClaim(q)
           b == [l EXCEPT !.state = "held", !.frozen = f]
           a == [b EXCEPT !.state = "repairing"]
<1>1. q \in RequestsOf(WebTrees)
  BY RequestsType
<1>2. web \in ManagersOf(WebTrees)
  BY DEF WebType
<1>3. n = Claim(web, q) /\ c = NextCell(web)
  BY SMTT(20)
<1>4. /\ ~q.rebased => web' = n
      /\ q.rebased => web' = [[n EXCEPT !.cells[c].state = "held", !.cells[c].frozen = f]
                                EXCEPT !.cells[c].state = "repairing"]
  BY ZenonT(30) DEF RepairLive, HoldFailedTree
<1>5. l \in CellsOf(WebTrees)
  BY ZenonT(30), <1>1, ApplyClaimType
<1> HIDE DEF n, c, l
<1>6. n \in ManagersOf(WebTrees) /\ Ordered(n) /\ c \in DOMAIN n.cells /\ n.cells[c] = l
  BY ZenonT(30), <1>1, <1>2, <1>3, WebClaimed DEF l
<1>7. f \in FrozenOf(WebTrees) /\ f.tree = l.tree
  BY ZenonT(30), <1>6, FreezeType
<1> HIDE DEF f
<1>8. b \in CellsOf(WebTrees) /\ b.frozen = f /\ b.tree = l.tree
  BY ZenonT(30), <1>5, <1>7 DEF CellsOf, CellStates
<1>9. CASE q.rebased
  <2>1. [n EXCEPT !.cells[c].state = "held", !.cells[c].frozen = f] = [n EXCEPT !.cells[c] = b]
    BY ZenonT(30), <1>6 DEF ManagersOf
  <2> HIDE DEF b
  <2>2. a \in CellsOf(WebTrees) /\ a.frozen = f /\ a.tree = l.tree
    BY <1>8 DEF CellsOf, CellStates
  <2>3. web' = [n EXCEPT !.cells[c] = a]
    <3>1. web' = [[n EXCEPT !.cells[c] = b] EXCEPT !.cells[c].state = "repairing"]
      BY ZenonT(30), <1>4, <1>9, <2>1
    <3>2. [[n EXCEPT !.cells[c] = b] EXCEPT !.cells[c].state = "repairing"] = [n EXCEPT !.cells[c] = a]
      BY ZenonT(30), <1>6 DEF ManagersOf
    <3>3. QED
      BY ZenonT(30), <3>1, <3>2
  <2> HIDE DEF a
  <2>4. web' = Placed(n, c, a)
    BY <2>3 DEF Placed
  <2>5. a.frozen # None => a.frozen.tree = a.tree
    BY ZenonT(30), <1>7, <2>2
  <2> DEFINE w == web'
  <2> HIDE DEF w
  <2>6. w = Placed(n, c, a)
    BY <2>4 DEF w
  <2>7. w \in ManagersOf(WebTrees) /\ Ordered(w) /\ Waits(w) /\ KeptBy(w)
    BY ZenonT(30), <1>1, <1>2, <1>3, <2>2, <2>5, <2>6, WebClaimPlace
  <2>8. QED
    BY ZenonT(30), <2>7 DEF w, WebType, LedgerInv, Ordered, Waits
<1>10. CASE ~q.rebased
  <2>1. Waits(n) /\ KeptBy(n)
    BY ZenonT(30), <1>1, <1>2, <1>3, <1>6, WebClaimInv
  <2>2. QED
    BY ZenonT(30), <1>4, <1>6, <1>10, <2>1 DEF WebType, LedgerInv, Ordered, Waits
<1>11. QED
  BY ZenonT(30), <1>9, <1>10

\* A repair from a snapshot preserves the invariant and the trees of the
\* cells there are.
LEMMA RepairFromSnapshotInv ==
    ASSUME WebType, LedgerInv, NEW d \in DOMAIN web.cells, NEW f \in Snapshots(d),
           NEW rebased \in BOOLEAN, RepairFromSnapshot(f, rebased)
    PROVE  WebType' /\ LedgerInv' /\ KeptBy(web')
<1> DEFINE q == [agent |-> f.agent, tree |-> f.tree, epoch |-> f.epoch + 1,
                 budget |-> f.max, rebased |-> rebased]
           n == Claim(web, q)
           c == NextCell(web)
           l == ApplyClaim(q)
           a == [l EXCEPT !.state = "held", !.frozen = f, !.max = f.max, !.open = f.open]
<1>1. q \in RequestsOf(WebTrees) /\ q.tree = f.tree
  BY ZenonT(30), RequestsType DEF RepairFromSnapshot
<1>2. web \in ManagersOf(WebTrees)
  BY DEF WebType
<1>3. n = Claim(web, q) /\ c = NextCell(web)
  OBVIOUS
<1>4. /\ ~rebased => web' = n
      /\ rebased => web' = [n EXCEPT !.cells[c] = [@ EXCEPT !.state = "held", !.frozen = f,
                                                            !.max = f.max, !.open = f.open]]
  BY ZenonT(30) DEF RepairFromSnapshot
<1> HIDE DEF q
<1>5. l \in CellsOf(WebTrees) /\ l.tree = f.tree
  BY ZenonT(30), <1>1, ApplyClaimType
<1> HIDE DEF n, c, l
<1>6. n \in ManagersOf(WebTrees) /\ Ordered(n) /\ c \in DOMAIN n.cells /\ n.cells[c] = l
  BY ZenonT(30), <1>1, <1>2, <1>3, WebClaimed DEF l
<1>7. f \in FrozenOf(WebTrees)
  <2>1. Freeze(web, d) \in FrozenOf(WebTrees)
    BY ZenonT(30), <1>2, FreezeType
  <2>2. web.cells[d] \in CellsOf(WebTrees)
    BY ZenonT(30), <1>2, ManagerSequences, ElementOfSeq
  <2>3. web.cells[d].frozen \in FrozenOf(WebTrees) \cup {None}
    BY ZenonT(30), <2>2 DEF CellsOf
  <2>4. QED
    BY ZenonT(30), <2>1, <2>3 DEF Snapshots
<1>8. a \in CellsOf(WebTrees) /\ a.frozen = f /\ a.tree = f.tree
  BY ZenonT(30), <1>5, <1>7 DEF CellsOf, CellStates, FrozenOf
<1>9. CASE rebased
  <2>1. web' = [n EXCEPT !.cells[c] = a]
    BY ZenonT(30), <1>4, <1>6, <1>9 DEF ManagersOf
  <2> HIDE DEF a
  <2> DEFINE w == web'
  <2> HIDE DEF w
  <2>2. w = Placed(n, c, a)
    BY SMTT(20), <2>1 DEF w, Placed
  <2>3. w \in ManagersOf(WebTrees) /\ Ordered(w) /\ Waits(w) /\ KeptBy(w)
    BY ZenonT(30), <1>1, <1>2, <1>3, <1>8, <2>2, WebClaimPlace
  <2>4. QED
    BY ZenonT(30), <2>3 DEF w, WebType, LedgerInv, Ordered, Waits
<1>10. CASE ~rebased
  <2>1. Waits(n) /\ KeptBy(n)
    BY ZenonT(30), <1>1, <1>2, <1>3, <1>6, WebClaimInv
  <2>2. QED
    BY ZenonT(30), <1>4, <1>6, <1>10, <2>1 DEF WebType, LedgerInv, Ordered, Waits
<1>11. QED
  BY ZenonT(30), <1>9, <1>10

\* begin_live_repair, release and block change the state of a cell.
LEMMA CellStateInv ==
    ASSUME WebType, LedgerInv, NEW c \in DOMAIN web.cells,
           NEW s \in CellStates,
           s \in {"held", "repairing"} => web.cells[c].state \in {"held", "repairing"},
           web' = [web EXCEPT !.cells[c].state = s]
    PROVE  WebType' /\ LedgerInv' /\ KeptBy(web')
<1> DEFINE a == [web.cells[c] EXCEPT !.state = s]
           w == web'
<1>1. web \in ManagersOf(WebTrees)
  BY DEF WebType
<1>2. web.cells[c] \in CellsOf(WebTrees)
  BY ZenonT(30), <1>1, ManagerSequences, ElementOfSeq
<1>3. /\ a \in CellsOf(WebTrees)
      /\ a.frozen = web.cells[c].frozen /\ a.tree = web.cells[c].tree /\ a.state = s
  BY ZenonT(30), <1>2 DEF CellsOf
<1>4. w = [web EXCEPT !.cells[c] = a]
  BY <1>1 DEF ManagersOf
<1> HIDE DEF a, w
<1>5. w \in ManagersOf(WebTrees) /\ Ordered(w) /\ Waits(w) /\ KeptBy(w)
  BY SMTT(20), <1>1, <1>3, <1>4, WebPlace
<1>6. QED
  BY ZenonT(30), <1>5 DEF w, WebType, LedgerInv, Ordered, Waits

\* export_repair_branch opens a branch of a cell.
LEMMA OpenBranchInv ==
    ASSUME WebType, LedgerInv, NEW c \in DOMAIN web.cells, NEW e, NEW s \in BranchNames,
           ExportRepairBranch(c, e, s)
    PROVE  WebType' /\ LedgerInv' /\ KeptBy(web')
<1> DEFINE l == web.cells[c]
           a == OpenBranch(l, c, s)
           w == web'
<1>1. web \in ManagersOf(WebTrees)
  BY SMTT(20) DEF WebType
<1>2. l \in CellsOf(WebTrees) /\ c \in Nat
  BY <1>1, ManagerSequences, ElementOfSeq
<1>3. w = [web EXCEPT !.cells[c] = a]
  BY <1>1 DEF ExportRepairBranch, ManagersOf
<1>4. a \in CellsOf(WebTrees) /\ a.frozen = l.frozen /\ a.tree = l.tree /\ a.state = l.state
  <2> HIDE DEF l
  <2>1. <<l.agent, c, s>> \in BranchIds /\ l.open \subseteq BranchIds
    BY <1>2 DEF CellsOf, BranchIds
  <2>2. QED
    BY ZenonT(30), <1>2, <2>1 DEF OpenBranch, CellsOf
<1> HIDE DEF a, w
<1>5. w \in ManagersOf(WebTrees) /\ Ordered(w) /\ Waits(w) /\ KeptBy(w)
  BY ZenonT(30), <1>1, <1>3, <1>4, WebPlace
<1>6. QED
  BY ZenonT(30), <1>5 DEF w, WebType, LedgerInv, Ordered, Waits

\* Every step of the workcell routes preserves the invariant and leaves the
\* pool alone.
LEMMA WebNextInv ==
    ASSUME WebType, LedgerInv, WebNext
    PROVE  WebType' /\ LedgerInv' /\ KeptBy(web') /\ UNCHANGED poolVars
<1>1. ASSUME NEW q \in Requests, ClaimCell(q) \/ RepairLive(q)
      PROVE  WebType' /\ LedgerInv' /\ KeptBy(web') /\ UNCHANGED poolVars
  <2>1. UNCHANGED poolVars
    BY ZenonT(30), <1>1 DEF ClaimCell, RepairLive
  <2>2. QED
    BY ZenonT(30), <1>1, <2>1, ClaimCellInv, RepairLiveInv
<1>2. ASSUME NEW c \in DOMAIN web.cells, NEW f \in Snapshots(c), NEW rebased \in BOOLEAN,
             RepairFromSnapshot(f, rebased)
      PROVE  WebType' /\ LedgerInv' /\ KeptBy(web') /\ UNCHANGED poolVars
  <2>1. UNCHANGED poolVars
    BY ZenonT(30), <1>2 DEF RepairFromSnapshot
  <2>2. QED
    BY ZenonT(30), <1>2, <2>1, RepairFromSnapshotInv
<1>3. ASSUME NEW c \in DOMAIN web.cells, NEW e, BeginLiveRepair(c, e)
      PROVE  WebType' /\ LedgerInv' /\ KeptBy(web') /\ UNCHANGED poolVars
  <2>1. /\ web' = [web EXCEPT !.cells[c].state = "repairing"]
        /\ web.cells[c].state = "held" /\ UNCHANGED poolVars
    BY <1>3 DEF BeginLiveRepair
  <2>2. QED
    BY ZenonT(30), <2>1, CellStateInv DEF CellStates
<1>4. ASSUME NEW c \in DOMAIN web.cells, NEW e, Release(c, e)
      PROVE  WebType' /\ LedgerInv' /\ KeptBy(web') /\ UNCHANGED poolVars
  <2>1. web' = [web EXCEPT !.cells[c].state = "released"] /\ UNCHANGED poolVars
    BY <1>4 DEF Release
  <2>2. QED
    BY ZenonT(30), <2>1, CellStateInv DEF CellStates
<1>5. ASSUME NEW c \in DOMAIN web.cells, NEW e, Block(c, e)
      PROVE  WebType' /\ LedgerInv' /\ KeptBy(web') /\ UNCHANGED poolVars
  <2>1. web' = [web EXCEPT !.cells[c].state = "blocked"] /\ UNCHANGED poolVars
    BY <1>5 DEF Block
  <2>2. QED
    BY ZenonT(30), <2>1, CellStateInv DEF CellStates
<1>6. QED
  BY ZenonT(30), <1>1, <1>2, <1>3, <1>4, <1>5 DEF WebNext

-----------------------------------------------------------------------------
(* Steps that leave a manager alone *)

LEMMA LedgerFrame ==
    ASSUME WebType, LedgerInv, UNCHANGED web
    PROVE  WebType' /\ LedgerInv'
BY SMTT(20) DEF WebType, LedgerInv, Ordered, Waits

\* A step that leaves the pool alone keeps its order, and its idle cells
\* warm.
LEMMA IdleFrame ==
    ASSUME NEW T, PoolTypeOK(T), Ordered(pool), Idle, UNCHANGED <<pool, warm, containers>>
    PROVE  PoolTypeOK(T)' /\ Ordered(pool)' /\ Idle'
BY SMTT(20) DEF PoolTypeOK, Ordered, Idle

=============================================================================
