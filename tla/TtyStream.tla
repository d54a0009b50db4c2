------------------------------ MODULE TtyStream ------------------------------
(***************************************************************************)
(* The terminal output of an agent run on its way to a browser.            *)
(*                                                                         *)
(* The run's driver publishes events (jeryu-api, web/agent_runs/store.rs): *)
(* each goes into a ring that keeps the last RingCap of them, and then     *)
(* into a broadcast channel that keeps the last ChanCap for its receivers. *)
(* The stream route replays what the ring has after the client's cursor    *)
(* and goes on with the channel; a receiver that falls behind the channel  *)
(* is answered with a resync frame.  The browser's terminal                *)
(* (jeryu-web, agentTtyTransport.ts) reconnects with its cursor when the   *)
(* connection breaks, and shows what the data frames bring.                *)
(*                                                                         *)
(* Events are numbered in the order of their publication, so the ring and  *)
(* the channel are intervals of numbers and a frame is a number.           *)
(***************************************************************************)
EXTENDS Integers

CONSTANTS
  RingCap,    \* TTY_RING_CAP
  ChanCap,    \* TTY_BROADCAST_CAP
  MaxSeq,     \* bound on the events
  MaxDrops    \* bound on the broken connections

\* The ring is deeper than the channel, as 4096 and 1024 are.
ASSUME CapsAssumption ==
  /\ RingCap \in Nat
  /\ ChanCap \in Nat \ {0}
  /\ ChanCap < RingCap
ASSUME BoundsAssumption == MaxSeq \in Nat /\ MaxDrops \in Nat

VARIABLES
  pushed,     \* AgentRunRecord.events.len(): the last event in the ring
  oldest,     \* TtyRing.oldest_retained_seq
  sent,       \* the last event in the channel
  conn,       \* the connection: "closed", "lagged" (the replay has yet to say that it
              \* begins behind a gap), "told" (a resync frame was the last frame), "open"
  next, upto, \* the events of the replay that were not handed out yet
  pos,        \* the channel's receiver: the next event it reads
  cursor,     \* the last event of the replay or handed out after it
  lastSeq,    \* connectTtyStream's cursor
  drops       \* how often the connection broke

ringVars == <<pushed, oldest, sent>>
streamVars == <<conn, next, upto, pos, cursor>>
ttyVars == <<ringVars, streamVars, lastSeq, drops>>

StreamInit ==
  /\ pushed = 0 /\ oldest = 0 /\ sent = 0
  /\ conn = "closed" /\ next = 1 /\ upto = 0 /\ pos = 1 /\ cursor = 0
  /\ lastSeq = 0 /\ drops = 0

\* The publisher is between the ring and the channel, and holds the store's lock.
Locked == pushed # sent

-----------------------------------------------------------------------------
(* append_event *)

\* Mutant: the event is broadcast before it is in the ring.
PushLate ==
  /\ ~Locked
  /\ pushed < MaxSeq
  /\ sent' = pushed + 1
  /\ UNCHANGED <<pushed, oldest, streamVars, lastSeq, drops>>

\* TtyRing.push drops the oldest event of a full ring.
Push ==
  /\ ~Locked
  /\ pushed < MaxSeq
  /\ pushed' = pushed + 1
  /\ oldest' = IF pushed = 0 THEN 1
               ELSE IF (pushed + 1) - oldest >= RingCap THEN oldest + 1 ELSE oldest
  /\ UNCHANGED <<sent, streamVars, lastSeq, drops>>

\* publish_tty's send; receivers read the channel without the store's lock.
Send ==
  /\ Locked
  /\ sent' = pushed
  /\ UNCHANGED <<pushed, oldest, streamVars, lastSeq, drops>>

\* What the channel keeps for a receiver.
ChanOldest == IF sent < ChanCap THEN 1 ELSE (sent + 1) - ChanCap

-----------------------------------------------------------------------------
(* The stream route *)

\* TtyRing.lagged
Lagged(after) == after + 1 < oldest

\* Mutant: the replay begins with the event that the client has.
TailFromAgain(after) == IF after < oldest THEN oldest ELSE after

\* TtyRing.tail: the events of the ring after the cursor.
TailFrom(after) == IF after < oldest THEN oldest ELSE after + 1

\* tty_stream_start, with the store locked: the channel is subscribed to and the
\* ring is read; the route then answers with the replay.  The record of the run is
\* the one the browser came from: a record that replaces it is another stream.
Open ==
  /\ conn = "closed"
  /\ ~Locked
  /\ conn' = IF Lagged(lastSeq) THEN "lagged" ELSE "open"
  /\ next' = TailFrom(lastSeq)
  /\ upto' = pushed
  /\ cursor' = IF TailFrom(lastSeq) <= pushed THEN pushed ELSE lastSeq
  /\ pos' = sent + 1
  /\ UNCHANGED <<ringVars, lastSeq, drops>>

\* source.onmessage; a resync frame is a named event, which it does not receive.
Receive(s) ==
  /\ lastSeq' = IF s > lastSeq THEN s ELSE lastSeq
  /\ conn' = "open"

\* The replay: the resync frame first, if there is one, then the events.
ReplayMark ==
  /\ conn = "lagged"
  /\ conn' = "told"
  /\ UNCHANGED <<ringVars, next, upto, pos, cursor, lastSeq, drops>>

Serving == conn \in {"told", "open"}

Replay ==
  /\ Serving
  /\ next <= upto
  /\ Receive(next)
  /\ next' = next + 1
  /\ UNCHANGED <<ringVars, upto, pos, cursor, drops>>

Replayed == Serving /\ next > upto

\* The live tail: recv hands out the next event, which is skipped if the replay
\* had it, ...
Live ==
  /\ Replayed
  /\ ChanOldest <= pos
  /\ pos <= sent
  /\ pos' = pos + 1
  /\ IF pos <= cursor
       THEN UNCHANGED <<cursor, lastSeq, conn>>
       ELSE cursor' = pos /\ Receive(pos)
  /\ UNCHANGED <<ringVars, next, upto, drops>>

\* Mutant: a receiver that fell behind reads on with the oldest event there is.
OverflowUnmarked ==
  /\ Replayed
  /\ pos < ChanOldest
  /\ pos' = ChanOldest
  /\ UNCHANGED <<ringVars, conn, next, upto, cursor, lastSeq, drops>>

\* Mutant: the receiver stays behind, and answers the same again.
OverflowForEver ==
  /\ Replayed
  /\ pos < ChanOldest
  /\ conn' = "told"
  /\ UNCHANGED <<ringVars, next, upto, pos, cursor, lastSeq, drops>>

\* ... or answers that it fell behind; it then stands at the oldest event there is.
Overflow ==
  /\ Replayed
  /\ pos < ChanOldest
  /\ pos' = ChanOldest
  /\ conn' = "told"
  /\ UNCHANGED <<ringVars, next, upto, cursor, lastSeq, drops>>

\* source.onerror: the connection is closed and reopened later.
Drop ==
  /\ conn # "closed"
  /\ drops < MaxDrops
  /\ drops' = drops + 1
  /\ conn' = "closed"
  /\ UNCHANGED <<ringVars, next, upto, pos, cursor, lastSeq>>

StreamNext ==
  \/ Push
  \/ Send
  \/ Open
  \/ ReplayMark
  \/ Replay
  \/ Live
  \/ Overflow
  \/ Drop

StreamSpec == StreamInit /\ [][StreamNext]_ttyVars

\* The publisher releases the store, the server serves the stream, and the timer
\* of onerror reopens it.
StreamFairness ==
  /\ WF_ttyVars(Send)
  /\ WF_ttyVars(Open)
  /\ WF_ttyVars(ReplayMark \/ Replay \/ Live \/ Overflow)

FairStreamSpec == StreamSpec /\ StreamFairness

-----------------------------------------------------------------------------

\* Types; the client knows no event that was not published.
StreamTypeOK ==
  /\ pushed \in Nat /\ oldest \in Nat /\ sent \in Nat
  /\ conn \in {"closed", "lagged", "told", "open"}
  /\ next \in Nat /\ upto \in Nat /\ pos \in Nat /\ cursor \in Nat
  /\ lastSeq \in Nat /\ drops \in Nat
  /\ lastSeq <= pushed

\* The event that the stream hands to the client next.
Frame(s) ==
  /\ Serving
  /\ \/ s = next /\ next <= upto
     \/ s = pos /\ next > upto /\ ChanOldest <= pos /\ pos <= sent /\ pos > cursor

\* "The ring push happens first so a subscriber that resyncs after a broadcast
\* overflow always finds the event in the retained byte history": whatever a
\* receiver of the channel can read is in the ring, also between the two steps
\* of publish_tty.
ChannelIsRetained ==
  /\ sent <= pushed
  /\ sent > 0 => oldest <= ChanOldest

\* The terminal shows no event twice and none after a later one, on one
\* connection and across reconnects: onmessage shows whatever it receives, so
\* the replay and the live tail must fit together and with the client's cursor.
ShownOnceInOrder ==
  \A s \in 1..MaxSeq : Frame(s) => s > lastSeq

\* Between the events that a client receives none is missing, unless a resync
\* frame came in between: the replay begins where the client's cursor is or says
\* so, nothing is lost between the replay and the live tail, and the receiver
\* that fell behind says so before it goes on.
GapsAreMarked ==
  \A s \in 1..MaxSeq : Frame(s) => s <= lastSeq + 1 \/ conn = "told"

\* The terminal catches up with the run, whatever the connection loses.
CatchesUp ==
  \A n \in 1..MaxSeq : pushed >= n ~> lastSeq >= n

=============================================================================
