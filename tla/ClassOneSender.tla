---------------------------- MODULE ClassOneSender ----------------------------
(***************************************************************************)
(* mesh/reliable.py, the sender side of class 1, with the transmit path of *)
(* mesh/link.py and the routing hooks that act on it (mesh/routing.py): a  *)
(* node, its upward class 1 messages, and next hops that receive its       *)
(* frames or not and acknowledge them whenever they want.                  *)
(*                                                                         *)
(* A step of the core is an event, then timers and route changes, then the *)
(* transmit path: `stepping` is true from the event to the transmit path.  *)
(* Timers fire in any order: durations are left out, and so are the p_ack  *)
(* window (only the samples given to it are counted), the retry range and  *)
(* the class 0 traffic.  Which messages a frame takes, of those ready for  *)
(* one next hop, is left open (module TxQueue), and so is the choice of    *)
(* the preferred parent.                                                   *)
(***************************************************************************)
EXTENDS Integers, FiniteSets, Sequences

CONSTANTS
  Messages,       \* upward class 1 messages
  Own,            \* those of the node itself; the others are forwarded
  Hops,           \* next hops
  Root,           \* the root, one of them
  NoHop,          \* without route
  ATTEMPTS,       \* transmissions per next hop (3)
  COUNTER_LIMIT   \* frames the board may send (mesh/counter.py)

\* Messages is finite: a property of safety fails in a finite run, of finitely many messages.
ASSUME ClassOneAssumption ==
  /\ IsFiniteSet(Messages)
  /\ Own \subseteq Messages
  /\ Root \in Hops
  /\ NoHop \notin Hops
  /\ ATTEMPTS \in Nat \ {0}
  /\ COUNTER_LIMIT \in Nat

VARIABLES
  parent,     \* preferred parent
  changed,    \* a timer has changed it: to be applied in this step
  copy,       \* queue entry of each message
  slot,       \* class 1 state of its queue slot
  poll,       \* timer: the held messages query the route
  undecided,  \* frames to the root timed out, failure undecided
  access,     \* state of the transmit path
  sel,        \* frame packed: next hop and messages
  dirty,      \* the transmit path runs at the next step
  wake,       \* timer: the transmit path runs
  stepping,   \* a step runs its timers
  frames,     \* history: the frames sent; the counter of a frame is its index
  outcome     \* history: what became of each message

route == <<parent, changed>>
reliable == <<copy, slot, poll, undecided>>
path == <<access, sel, dirty, wake>>
vars == <<route, reliable, path, stepping, frames, outcome>>

NoCopy == [in |-> FALSE, wait |-> FALSE, hop |-> NoHop, attempts |-> 0]
Cleared == [state |-> "IDLE", hop |-> NoHop, ctr |-> 0, sampled |-> FALSE,
            due |-> FALSE, key |-> FALSE, late |-> {}]
NoFrame == [dest |-> NoHop, messages |-> {}]

Init ==
  /\ parent = NoHop
  /\ changed = FALSE
  /\ copy = [m \in Messages |-> NoCopy]
  /\ slot = [m \in Messages |-> Cleared]
  /\ poll = FALSE
  /\ undecided = {}
  /\ access = "IDLE"
  /\ sel = NoFrame
  /\ dirty = FALSE
  /\ wake = FALSE
  /\ stepping = FALSE
  /\ frames = <<>>
  /\ outcome = [m \in Messages |-> "none"]

------------------------------------------------------------------------------
Queued == {m \in Messages : copy[m].in}
Ready == {m \in Queued : ~copy[m].wait}
Held == {m \in Queued : slot[m].state = "HELD"}

\* access_at: a transmit path that runs already goes on as it does.
AccessAt == wake' = (wake \/ access = "IDLE")

\* Reliable.hold of the slot s.
HeldSlot(s) == [s EXCEPT !.state = "HELD", !.due = FALSE, !.key = FALSE]

\* Event: the board steps because time has passed, or received something else.
Step ==
  /\ ~stepping
  /\ stepping' = TRUE
  /\ UNCHANGED <<route, reliable, path, frames, outcome>>

\* The entry of a message queued towards the preferred parent with fresh attempts.
Queueing == [in |-> TRUE, wait |-> parent = NoHop, hop |-> parent, attempts |-> 0]

\* submit (own messages, outside a step) and forward: a message without next
\* hop is held.
Submit(m) ==
  /\ ~stepping
  /\ outcome[m] = "none"
  /\ outcome' = [outcome EXCEPT ![m] = "queued"]
  /\ copy' = [copy EXCEPT ![m] = Queueing]
  /\ IF parent = NoHop THEN slot' = [slot EXCEPT ![m] = HeldSlot(Cleared)] /\ poll' = TRUE
                       ELSE UNCHANGED <<slot, poll>>
  /\ IF m \in Own THEN dirty' = TRUE /\ UNCHANGED <<wake, stepping>>
                  ELSE stepping' = TRUE /\ AccessAt /\ UNCHANGED dirty
  /\ UNCHANGED <<route, undecided, access, sel, frames>>

------------------------------------------------------------------------------
(* Acknowledgements *)

\* A sample of frame c, acknowledged or not, in the frames f.
Success(f, c, n) == [f EXCEPT ![c].acked = @ + n]
Failure(f, c) == [f EXCEPT ![c].failed = @ + 1]

\* The other pending messages of the frame of m, not yet sampled.
SameFrame(m) ==
  {k \in Messages \ {m} : /\ slot[k].state = "PENDING"
                          /\ ~slot[k].sampled
                          /\ slot[k].hop = slot[m].hop
                          /\ slot[k].ctr = slot[m].ctr}

\* Samples the messages A, acknowledged by frame c one after the other, may
\* give: the first one spares the pending ones theirs, and only those.
Samples(A, c) ==
  LET unsampled == {m \in A : slot[m].ctr = c /\ ~slot[m].sampled}
      pending == {m \in unsampled : slot[m].state = "PENDING"}
      others == Cardinality(unsampled \ pending)
  IN  IF pending = {} THEN {others} ELSE IF others = 0 THEN {1} ELSE {others, others + 1}

\* Mutant: the frame's other messages are not marked as sampled.
AcknowledgedAlone(A, c, late) ==
  /\ \E n \in Samples(A, c) :
       frames' = Success(frames, c, n + (IF late /\ c \in undecided THEN 1 ELSE 0))
  /\ undecided' = IF late THEN undecided \ {c} ELSE undecided
  /\ copy' = [m \in Messages |-> IF m \in A THEN NoCopy ELSE copy[m]]
  /\ slot' = [m \in Messages |-> IF m \in A THEN Cleared ELSE slot[m]]
  /\ outcome' = [m \in Messages |-> IF m \in A \cap Queued THEN "acked" ELSE outcome[m]]
  /\ stepping' = TRUE
  /\ UNCHANGED <<route, poll, path>>

\* The messages A, acknowledged by frame c, leave the queue; a root frame whose
\* failure was undecided gives a success.
Acknowledged(A, c, late) ==
  LET spared == UNION {SameFrame(m) : m \in {k \in A : slot[k].ctr = c /\ ~slot[k].sampled}}
  IN
  /\ \E n \in Samples(A, c) :
       frames' = Success(frames, c, n + (IF late /\ c \in undecided THEN 1 ELSE 0))
  /\ undecided' = IF late THEN undecided \ {c} ELSE undecided
  /\ copy' = [m \in Messages |-> IF m \in A THEN NoCopy ELSE copy[m]]
  /\ slot' = [m \in Messages |-> IF m \in A THEN Cleared
                                 ELSE IF m \in spared THEN [slot[m] EXCEPT !.sampled = TRUE]
                                 ELSE slot[m]]
  /\ outcome' = [m \in Messages |-> IF m \in A \cap Queued THEN "acked" ELSE outcome[m]]
  /\ stepping' = TRUE
  /\ UNCHANGED <<route, poll, path>>

\* on_ack: an entry of the next hop for frame c, which it received.  The root's
\* acknowledges every message one of whose kept transmissions was in the frame,
\* whatever its state; a relay's, the messages pending since that frame.
OnAck(c) ==
  /\ ~stepping
  /\ LET A == IF frames[c].dest = Root THEN {m \in Queued : c \in slot[m].late}
              ELSE {m \in Messages : slot[m].state = "PENDING" /\ slot[m].ctr = c
                                     /\ slot[m].hop = frames[c].dest}
     IN  Acknowledged(A, c, frames[c].dest = Root)

\* overheard: the next hop of the last transmission forwards m.
Overheard(m) ==
  /\ ~stepping
  /\ slot[m].key
  /\ Acknowledged({m}, slot[m].ctr, slot[m].hop = Root)

------------------------------------------------------------------------------
(* Timers and route changes of a step *)

\* _apply and _changed: the ready messages follow the new preferred parent p;
\* after a detach all are held.
Routed(p) ==
  /\ copy' = [m \in Messages |->
                IF ~copy[m].in THEN copy[m]
                ELSE IF p = NoHop THEN [copy[m] EXCEPT !.wait = TRUE]
                ELSE IF ~copy[m].wait /\ copy[m].hop # p
                THEN [copy[m] EXCEPT !.hop = p, !.attempts = 0] ELSE copy[m]]
  /\ slot' = [m \in Messages |-> IF p = NoHop /\ m \in Queued THEN HeldSlot(slot[m]) ELSE slot[m]]
  /\ poll' = TRUE

\* A selection of parents changes the preferred one, and is applied.
NewParent(p) ==
  /\ stepping
  /\ ~changed /\ p # parent
  /\ parent' = p
  /\ Routed(p)
  /\ UNCHANGED <<changed, undecided, path, stepping, frames, outcome>>

\* The change of parent made by a timer (reroute) is applied at their end.
Apply ==
  /\ stepping
  /\ changed
  /\ changed' = FALSE
  /\ Routed(parent)
  /\ UNCHANGED <<parent, undecided, path, stepping, frames, outcome>>

\* _retry of m, its slot being s: at once, or after a delay it waits for.
Retry(m, s, fresh) ==
  \E delayed \in BOOLEAN :
    /\ copy' = [copy EXCEPT ![m].wait = delayed,
                            ![m].attempts = IF fresh THEN 0 ELSE @]
    /\ IF delayed THEN slot' = [slot EXCEPT ![m] = [s EXCEPT !.state = "DELAY", !.due = TRUE]]
                       /\ UNCHANGED wake
                  ELSE slot' = [slot EXCEPT ![m] = s] /\ AccessAt
    /\ UNCHANGED <<route, poll>>

\* _exhausted and reroute: the hop is kept (the root, or the last candidate), or
\* dropped and the parent selected again, which may detach the node.
Exhausted(m, s) ==
  \/ /\ s.hop \in {Root, parent}
     /\ Retry(m, s, TRUE)
  \/ \E p \in (Hops \cup {NoHop}) \ {s.hop} :
       /\ parent' = p
       /\ changed' = (changed \/ p # parent)
       /\ IF p = NoHop
          THEN /\ copy' = [copy EXCEPT ![m].wait = TRUE]
               /\ slot' = [slot EXCEPT ![m] = HeldSlot(s)]
               /\ poll' = TRUE
               /\ UNCHANGED wake
          ELSE /\ copy' = [copy EXCEPT ![m].wait = FALSE, ![m].hop = p,
                                       ![m].attempts = IF copy[m].hop = p THEN @ ELSE 0]
               /\ slot' = [slot EXCEPT ![m] = s]
               /\ AccessAt
               /\ UNCHANGED poll

\* _timeout of a retry's delay.
DelayOver(m) ==
  /\ stepping /\ slot[m].due /\ slot[m].state = "DELAY"
  /\ copy' = [copy EXCEPT ![m].wait = FALSE]
  /\ slot' = [slot EXCEPT ![m].state = "IDLE", ![m].due = FALSE]
  /\ AccessAt
  /\ UNCHANGED <<route, poll, undecided, access, sel, dirty, stepping, frames, outcome>>

\* _timeout of the wait for a late root acknowledgement.
LateOver(m) ==
  /\ stepping /\ slot[m].due /\ slot[m].state = "LATE"
  /\ Exhausted(m, [slot[m] EXCEPT !.state = "IDLE", !.due = FALSE])
  /\ UNCHANGED <<undecided, access, sel, dirty, stepping, frames, outcome>>

\* _timeout of an acknowledgement: the frame fails with its last pending message
\* (towards the root, later); then a retry, or the next hop after failure.
AckTimeout(m) ==
  /\ stepping /\ slot[m].due /\ slot[m].state = "PENDING"
  /\ LET hop == slot[m].hop
         failed == ~slot[m].sampled /\ SameFrame(m) = {}
         s == [slot[m] EXCEPT !.state = "IDLE", !.due = FALSE,
                              !.sampled = @ \/ hop = Root]
     IN  /\ undecided' = IF failed /\ hop = Root THEN undecided \cup {slot[m].ctr} ELSE undecided
         /\ frames' = IF failed /\ hop # Root THEN Failure(frames, slot[m].ctr) ELSE frames
         /\ \/ copy[m].attempts < ATTEMPTS /\ Retry(m, s, FALSE)
            \/ /\ copy[m].attempts >= ATTEMPTS /\ hop = Root
               /\ slot' = [slot EXCEPT ![m] = [s EXCEPT !.state = "LATE", !.due = TRUE]]
               /\ UNCHANGED <<route, copy, poll, wake>>
            \/ copy[m].attempts >= ATTEMPTS /\ hop # Root /\ Exhausted(m, s)
  /\ UNCHANGED <<access, sel, dirty, stepping, outcome>>

\* _decide: the failure of a root frame gives a sample, unless the last one that
\* did is less than a batching delay older.
Decide(c) ==
  /\ stepping
  /\ c \in undecided
  /\ undecided' = undecided \ {c}
  /\ frames' \in {frames, Failure(frames, c)}
  /\ UNCHANGED <<route, copy, slot, poll, path, stepping, outcome>>

\* _resume_held: the messages held for too long fail, the others go to the
\* preferred parent with fresh attempts, or wait for the next poll.  A forwarded
\* message that fails makes an error, a message of the node, if the queue takes it.
ResumeHeld ==
  /\ stepping /\ poll
  /\ \E expired \in SUBSET Held, errors \in SUBSET {m \in Own : outcome[m] = "none"} :
       LET resumed == IF parent = NoHop THEN {} ELSE Held \ expired IN
       /\ Cardinality(errors) <= Cardinality(expired \ Own)
       /\ copy' = [m \in Messages |->
                     IF m \in expired THEN NoCopy
                     ELSE IF m \in resumed \cup errors THEN Queueing
                     ELSE copy[m]]
       /\ slot' = [m \in Messages |->
                     IF m \in expired THEN Cleared
                     ELSE IF m \in resumed THEN [slot[m] EXCEPT !.state = "IDLE"]
                     ELSE IF m \in errors /\ parent = NoHop THEN HeldSlot(slot[m])
                     ELSE slot[m]]
       /\ poll' = (parent = NoHop /\ (Held # expired \/ errors # {}))
       /\ outcome' = [m \in Messages |-> IF m \in expired THEN "failed"
                                         ELSE IF m \in errors THEN "queued" ELSE outcome[m]]
       /\ dirty' = (dirty \/ errors # {})
       /\ IF resumed = {} THEN UNCHANGED wake ELSE AccessAt
  /\ UNCHANGED <<route, undecided, access, sel, stepping, frames>>

\* tick: the slot of a message no more in the queue is forgotten.
Forget(m) ==
  /\ stepping
  /\ m \notin Queued
  /\ slot[m] # Cleared
  /\ slot' = [slot EXCEPT ![m] = Cleared]
  /\ UNCHANGED <<route, copy, poll, undecided, path, stepping, frames, outcome>>

------------------------------------------------------------------------------
(* Transmit path *)

\* _service: nothing to do.
Rest ==
  /\ stepping
  /\ ~changed
  /\ access = "IDLE" => ~dirty
  /\ stepping' = FALSE
  /\ UNCHANGED <<route, reliable, path, frames, outcome>>

\* _access: the counter is exhausted, everything is given up; or a frame is
\* packed and the channel sensed; or nothing fits a frame now.
Access ==
  /\ stepping /\ ~changed
  /\ (access = "IDLE" /\ (dirty \/ wake)) \/ access = "BACKOFF"
  /\ stepping' = FALSE
  /\ dirty' = FALSE
  /\ IF Len(frames) >= COUNTER_LIMIT
     THEN /\ access' = "IDLE" /\ wake' = FALSE /\ sel' = NoFrame
          /\ copy' = [m \in Messages |-> NoCopy]
          /\ outcome' = [m \in Messages |->
                           IF m \in Queued THEN IF m \in Own THEN "failed" ELSE "dropped"
                           ELSE outcome[m]]
     ELSE /\ UNCHANGED <<copy, outcome>>
          /\ \/ access' = "IDLE" /\ wake' = (Ready # {}) /\ sel' = NoFrame
             \/ \E S \in SUBSET Ready \ {{}}, hop \in Hops :
                  /\ \A m \in S : copy[m].hop = hop
                  /\ access' = "SENSING" /\ wake' = FALSE
                  /\ sel' = [dest |-> hop, messages |-> S]
  /\ UNCHANGED <<route, slot, poll, undecided, frames>>

\* _channel, busy: backoff (the frame will be packed anew).
ChannelBusy ==
  /\ ~stepping
  /\ access = "SENSING"
  /\ access' = "BACKOFF"
  /\ wake' = TRUE
  /\ sel' = NoFrame
  /\ stepping' = TRUE
  /\ UNCHANGED <<route, reliable, dirty, frames, outcome>>

\* The counters of the last ATTEMPTS transmissions, c being the last one.
Recorded(late, c) ==
  LET all == late \cup {c} IN {k \in all : Cardinality({j \in all : j > k}) < ATTEMPTS}

\* Reliable.sent and TxQueue.commit: the frame c goes on air as it was packed.
\* Its messages still queued wait for an acknowledgement; those that do not wait
\* already count an attempt.
Sent(c) ==
  LET on == sel.messages \cap Queued IN
  /\ slot' = [m \in Messages |->
                IF m \notin on THEN slot[m]
                ELSE [state |-> "PENDING", hop |-> sel.dest, ctr |-> c, sampled |-> FALSE,
                      due |-> TRUE, key |-> TRUE,
                      late |-> IF sel.dest = Root THEN Recorded(slot[m].late, c)
                               ELSE slot[m].late]]
  /\ copy' = [m \in Messages |->
                IF m \in on \cap Ready
                THEN [copy[m] EXCEPT !.wait = TRUE, !.attempts = @ + 1] ELSE copy[m]]

\* _channel, free: _transmit.
Transmit ==
  /\ ~stepping
  /\ access = "SENSING"
  /\ Sent(Len(frames) + 1)
  /\ frames' = Append(frames, [dest |-> sel.dest, messages |-> sel.messages,
                               acked |-> 0, failed |-> 0])
  /\ access' = "TRANSMITTING"
  /\ sel' = NoFrame
  /\ stepping' = TRUE
  /\ UNCHANGED <<route, poll, undecided, dirty, wake, outcome>>

\* Mutant: the end of a frame does not run the transmit path.
TxDoneIdle ==
  /\ ~stepping
  /\ access = "TRANSMITTING"
  /\ access' = "IDLE"
  /\ stepping' = TRUE
  /\ UNCHANGED <<route, reliable, sel, dirty, wake, frames, outcome>>

\* _tx_done: the transmit path goes on in this step.
TxDone ==
  /\ ~stepping
  /\ access = "TRANSMITTING"
  /\ access' = "IDLE"
  /\ dirty' = TRUE
  /\ stepping' = TRUE
  /\ UNCHANGED <<route, reliable, sel, wake, frames, outcome>>

Event ==
  \/ Step
  \/ \E m \in Messages : Submit(m) \/ Overheard(m)
  \/ \E c \in DOMAIN frames : OnAck(c)
  \/ ChannelBusy
  \/ Transmit
  \/ TxDone

Timers ==
  \/ \E p \in Hops \cup {NoHop} : NewParent(p)
  \/ \E m \in Messages : DelayOver(m) \/ LateOver(m) \/ AckTimeout(m) \/ Forget(m)
  \/ \E c \in undecided : Decide(c)
  \/ ResumeHeld
  \/ Apply

Next == Event \/ Timers \/ Rest \/ Access

Spec == Init /\ [][Next]_vars

------------------------------------------------------------------------------
\* No message is forgotten in the queue: one that waits has a timer, for an
\* acknowledgement, its retry or the route; one that is ready has a transmit path
\* that runs or will, whatever happened between its packing, the sense of the
\* channel and the transmission.
NothingForgotten ==
  /\ \A m \in Queued : copy[m].wait =>
       \/ slot[m].state \in {"PENDING", "LATE", "DELAY"} /\ slot[m].due
       \/ slot[m].state = "HELD" /\ poll
  /\ Ready # {} => access # "IDLE" \/ dirty \/ wake
  /\ access = "BACKOFF" => wake

\* A frame fails at most once, and not once acknowledged, although each of its
\* messages times out, is held or retried on its own (reliable.py 23-28 and 61-65).
FailsOnce ==
  [][\A c \in DOMAIN frames :
       frames'[c].failed # frames[c].failed =>
         frames[c].failed = 0 /\ frames[c].acked = 0 /\ frames'[c].failed = 1]_vars

\* After a detach no upward message is retried towards the former parent
\* (routing.py 17-20).  It does not hold: a detach between the sense of the channel and
\* its answer does not take back the frame packed (README, Divergences).
NotRetriedWhileDetached == ~stepping /\ parent = NoHop => Ready = {}

\* p_ack gets one sample per frame (reliable.py 23-28).  It does not hold: a frame to a
\* relay that timed out and is overheard before its retry gives two.
OneSamplePerFrame == \A c \in DOMAIN frames : frames[c].acked + frames[c].failed <= 1
==============================================================================
