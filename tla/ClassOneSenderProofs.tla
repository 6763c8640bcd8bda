-------------------------- MODULE ClassOneSenderProofs --------------------------
(***************************************************************************)
(* Proofs about module ClassOneSender, for any messages, next hops and     *)
(* numbers of attempts and frames: no message is forgotten in the queue,   *)
(* and a frame fails at most once, never after it was acknowledged.        *)
(*                                                                         *)
(* The first holds because whoever makes a message wait arms what ends the *)
(* wait, and whoever makes one ready wakes the transmit path.  The second  *)
(* rests on the messages that may still charge a failure to their frame:   *)
(* as long as there is one, the frame has no sample.                       *)
(***************************************************************************)
EXTENDS ClassOneSender, FiniteSetTheorems, SequenceTheorems, TLAPS

States == {"IDLE", "PENDING", "DELAY", "LATE", "HELD"}

\* The queue entries, the class 1 states of the slots, and the frames.
Copies == [in : BOOLEAN, wait : BOOLEAN, hop : Hops \cup {NoHop}, attempts : Nat]

Slots ==
  [state : States, hop : Hops \cup {NoHop}, ctr : Nat, sampled : BOOLEAN, due : BOOLEAN,
   key : BOOLEAN, late : SUBSET Nat]

Frames == [dest : Hops \cup {NoHop}, messages : SUBSET Messages, acked : Nat, failed : Nat]

TypeInv ==
  /\ parent \in Hops \cup {NoHop} /\ changed \in BOOLEAN
  /\ copy \in [Messages -> Copies] /\ slot \in [Messages -> Slots]
  /\ poll \in BOOLEAN /\ undecided \in SUBSET Nat
  /\ access \in {"IDLE", "SENSING", "BACKOFF", "TRANSMITTING"}
  /\ sel \in [dest : Hops \cup {NoHop}, messages : SUBSET Messages]
  /\ dirty \in BOOLEAN /\ wake \in BOOLEAN /\ stepping \in BOOLEAN
  /\ frames \in Seq(Frames)
  /\ outcome \in [Messages -> {"none", "queued", "acked", "failed", "dropped"}]

\* A message not submitted has no copy: an error message never takes one over.
Fresh == \A m \in Messages : outcome[m] = "none" => ~copy[m].in

------------------------------------------------------------------------------
(* What the operations make of entries and slots. *)

\* The constants of the module are of their types.
LEMMA ConstantTypes == NoCopy \in Copies /\ Cleared \in Slots
BY DEF NoCopy, Cleared, Copies, Slots, States

\* A slot held keeps what it knows of its frame.
LEMMA HeldSlotType ==
  ASSUME NEW s \in Slots
  PROVE  /\ HeldSlot(s) \in Slots
         /\ HeldSlot(s).state = "HELD" /\ HeldSlot(s).key = FALSE
         /\ HeldSlot(s).ctr = s.ctr /\ HeldSlot(s).hop = s.hop /\ HeldSlot(s).sampled = s.sampled
BY DEF HeldSlot, Slots, States

\* What a step may leave of a slot: cleared, or of the same frame, with no more to say
\* about it than before.
Follows(s, t) ==
  \/ t.ctr = 0 /\ t.key = FALSE /\ t.state # "PENDING"
  \/ /\ t.ctr = s.ctr /\ t.hop = s.hop
     /\ t.key => s.key
     /\ t.state = "PENDING" => s.state = "PENDING" /\ (~t.sampled => ~s.sampled)

\* A timer has moved the message m on, its slot having been s: it waits for a delay, a
\* late acknowledgement or a route, or the transmit path is woken.
Rescheduled(m, s) ==
  \E t \in Slots, d \in Copies :
    /\ slot' = [slot EXCEPT ![m] = t] /\ copy' = [copy EXCEPT ![m] = d]
    /\ d.in = copy[m].in
    /\ t.ctr = s.ctr /\ t.hop = s.hop /\ t.sampled = s.sampled /\ (t.key => s.key)
    /\ t.state # "PENDING"
    /\ d.wait => (t.state \in {"DELAY", "LATE"} /\ t.due) \/ (t.state = "HELD" /\ poll')
    /\ wake' = wake \/ AccessAt
    /\ ~d.wait => AccessAt \/ ~copy[m].wait
    /\ poll' = poll \/ poll' = TRUE
    /\ parent' \in Hops \cup {NoHop} /\ changed' \in BOOLEAN

\* _retry reschedules the message.
LEMMA RetryReschedules ==
  ASSUME TypeInv, NEW m \in Messages, NEW s \in Slots, s.state # "PENDING", NEW fresh \in BOOLEAN,
         Retry(m, s, fresh)
  PROVE  Rescheduled(m, s)
<1>1. PICK delayed \in BOOLEAN :
        /\ copy' = [copy EXCEPT ![m].wait = delayed, ![m].attempts = IF fresh THEN 0 ELSE @]
        /\ IF delayed THEN slot' = [slot EXCEPT ![m] = [s EXCEPT !.state = "DELAY", !.due = TRUE]]
                           /\ UNCHANGED wake
                      ELSE slot' = [slot EXCEPT ![m] = s] /\ AccessAt
        /\ UNCHANGED <<route, poll>>
  BY DEF Retry
<1> DEFINE d == [copy[m] EXCEPT !.wait = delayed, !.attempts = IF fresh THEN 0 ELSE @]
           t == IF delayed THEN [s EXCEPT !.state = "DELAY", !.due = TRUE] ELSE s
<1>2. copy[m] \in Copies /\ copy \in [Messages -> Copies]
  BY DEF TypeInv
<1>3. d \in Copies /\ d.in = copy[m].in /\ d.wait = delayed
  BY <1>2 DEF Copies
<1>4. copy' = [copy EXCEPT ![m] = d]
  BY <1>1, <1>2 DEF Copies
<1>5. /\ t \in Slots /\ t.ctr = s.ctr /\ t.hop = s.hop /\ t.sampled = s.sampled /\ t.key = s.key
      /\ t.state # "PENDING" /\ (delayed => t.state = "DELAY" /\ t.due)
  BY DEF Slots, States
<1>6. slot' = [slot EXCEPT ![m] = t]
  BY <1>1
<1>7. parent' \in Hops \cup {NoHop} /\ changed' \in BOOLEAN /\ poll' = poll
  BY <1>1 DEF TypeInv, route
<1>8. /\ wake' = wake \/ AccessAt
      /\ ~delayed => AccessAt
  BY <1>1
<1> HIDE DEF d, t
<1>9. QED
  BY <1>3, <1>4, <1>5, <1>6, <1>7, <1>8 DEF Rescheduled

\* _exhausted reschedules it too, on the same hop, on another one or held.
LEMMA ExhaustedReschedules ==
  ASSUME TypeInv, NEW m \in Messages, NEW s \in Slots, s.state # "PENDING", Exhausted(m, s)
  PROVE  Rescheduled(m, s)
<1>0. copy[m] \in Copies /\ copy \in [Messages -> Copies] /\ changed \in BOOLEAN
  BY DEF TypeInv
<1>1. CASE Retry(m, s, TRUE)
  BY <1>1, RetryReschedules
<1>2. ASSUME NEW p \in (Hops \cup {NoHop}) \ {s.hop},
             parent' = p, changed' = (changed \/ p # parent), p = NoHop,
             copy' = [copy EXCEPT ![m].wait = TRUE], slot' = [slot EXCEPT ![m] = HeldSlot(s)],
             poll' = TRUE, UNCHANGED wake
      PROVE  Rescheduled(m, s)
  <2> DEFINE d == [copy[m] EXCEPT !.wait = TRUE]
             t == HeldSlot(s)
  <2>1. d \in Copies /\ d.in = copy[m].in /\ d.wait = TRUE
    BY <1>0 DEF Copies
  <2>2. copy' = [copy EXCEPT ![m] = d]
    BY <1>0, <1>2 DEF Copies
  <2>3. /\ t \in Slots /\ t.ctr = s.ctr /\ t.hop = s.hop /\ t.sampled = s.sampled /\ t.key = FALSE
        /\ t.state = "HELD"
    BY HeldSlotType
  <2>4. slot' = [slot EXCEPT ![m] = t] /\ changed' \in BOOLEAN
    BY <1>0, <1>2
  <2> HIDE DEF d, t
  <2> QED BY <1>2, <2>1, <2>2, <2>3, <2>4 DEF Rescheduled
<1>3. ASSUME NEW p \in (Hops \cup {NoHop}) \ {s.hop},
             parent' = p, changed' = (changed \/ p # parent),
             copy' = [copy EXCEPT ![m].wait = FALSE, ![m].hop = p,
                                  ![m].attempts = IF copy[m].hop = p THEN @ ELSE 0],
             slot' = [slot EXCEPT ![m] = s], AccessAt, UNCHANGED poll
      PROVE  Rescheduled(m, s)
  <2> DEFINE d == [copy[m] EXCEPT !.wait = FALSE, !.hop = p,
                                  !.attempts = IF copy[m].hop = p THEN @ ELSE 0]
  <2>1. d \in Copies /\ d.in = copy[m].in /\ d.wait = FALSE
    BY <1>0 DEF Copies
  <2>2. copy' = [copy EXCEPT ![m] = d]
    BY <1>0, <1>3 DEF Copies
  <2>3. changed' \in BOOLEAN
    BY <1>0, <1>3
  <2> HIDE DEF d
  <2> QED BY <1>3, <2>1, <2>2, <2>3 DEF Rescheduled
<1>4. QED
  BY <1>1, <1>2, <1>3 DEF Exhausted

------------------------------------------------------------------------------
(* The inductive invariant. *)

\* The message may still charge a failure to the frame of its last transmission.
Open(m) == slot[m].state = "PENDING" /\ ~slot[m].sampled

Unsampled(c) == frames[c].failed = 0 /\ frames[c].acked = 0

\* The slots and the undecided frames agree with the frames sent: as long as a message
\* may charge a failure, or one is undecided, the frame has no sample, and both never
\* stand for the same frame.
SamplesInv ==
  /\ \A m \in Messages :
       /\ slot[m].ctr <= Len(frames)
       /\ slot[m].ctr # 0 => frames[slot[m].ctr].dest = slot[m].hop
       /\ slot[m].state = "PENDING" \/ slot[m].key => slot[m].ctr # 0
       /\ Open(m) => Unsampled(slot[m].ctr)
  /\ \A c \in undecided :
       /\ c \in DOMAIN frames /\ frames[c].dest = Root /\ Unsampled(c)
       /\ \A m \in Messages : Open(m) => slot[m].ctr # c

\* What ends the wait of a message.
Timed(m) ==
  \/ slot[m].state \in {"PENDING", "LATE", "DELAY"} /\ slot[m].due
  \/ slot[m].state = "HELD" /\ poll

IInv == TypeInv /\ Fresh /\ NothingForgotten /\ SamplesInv

\* A step charges a failure to no frame that has a sample.
FailsStep ==
  \A c \in DOMAIN frames :
    frames'[c].failed # frames[c].failed =>
      frames[c].failed = 0 /\ frames[c].acked = 0 /\ frames'[c].failed = 1

\* A step that sends no frame and decides no sample keeps the agreement, if it only
\* clears slots or moves them on.
LEMMA SlotsFollow ==
  ASSUME TypeInv, SamplesInv, slot' \in [Messages -> Slots],
         \A m \in Messages : Follows(slot[m], slot'[m]),
         UNCHANGED frames, undecided' \subseteq undecided
  PROVE  SamplesInv' /\ FailsStep
<1>1. ASSUME NEW m \in Messages
      PROVE  /\ slot'[m].ctr <= Len(frames')
             /\ slot'[m].ctr # 0 => frames'[slot'[m].ctr].dest = slot'[m].hop
             /\ slot'[m].state = "PENDING" \/ slot'[m].key => slot'[m].ctr # 0
             /\ Open(m)' => Unsampled(slot[m].ctr)' /\ Open(m) /\ slot'[m].ctr = slot[m].ctr
  <2>1. slot[m] \in Slots /\ slot'[m] \in Slots /\ Follows(slot[m], slot'[m]) /\ Len(frames) \in Nat
    BY DEF TypeInv
  <2>2. /\ slot[m].ctr <= Len(frames)
        /\ slot[m].ctr # 0 => frames[slot[m].ctr].dest = slot[m].hop
        /\ slot[m].state = "PENDING" \/ slot[m].key => slot[m].ctr # 0
        /\ Open(m) => Unsampled(slot[m].ctr)
    BY DEF SamplesInv
  <2>3. CASE slot'[m].ctr = 0 /\ slot'[m].key = FALSE /\ slot'[m].state # "PENDING"
    BY <2>1, <2>3 DEF Open
  <2>4. CASE /\ slot'[m].ctr = slot[m].ctr /\ slot'[m].hop = slot[m].hop
             /\ slot'[m].key => slot[m].key
             /\ slot'[m].state = "PENDING" => slot[m].state = "PENDING"
                                            /\ (~slot'[m].sampled => ~slot[m].sampled)
    <3>1. Open(m)' => Open(m)
      BY <2>4 DEF Open
    <3>2. slot'[m].state = "PENDING" \/ slot'[m].key => slot'[m].ctr # 0
      BY <2>2, <2>4
    <3>3. Open(m)' => Unsampled(slot[m].ctr)'
      BY <2>2, <2>4, <3>1 DEF Unsampled
    <3> QED BY <2>2, <2>4, <3>1, <3>2, <3>3
  <2> QED BY <2>1, <2>3, <2>4 DEF Follows
<1>2. FailsStep
  BY DEF FailsStep
<1>3. \A c \in undecided' :
        /\ c \in DOMAIN frames' /\ frames'[c].dest = Root /\ Unsampled(c)'
        /\ \A m \in Messages : Open(m)' => slot'[m].ctr # c
  BY <1>1 DEF SamplesInv, Unsampled
<1>4. \A m \in Messages :
        /\ slot'[m].ctr <= Len(frames')
        /\ slot'[m].ctr # 0 => frames'[slot'[m].ctr].dest = slot'[m].hop
        /\ slot'[m].state = "PENDING" \/ slot'[m].key => slot'[m].ctr # 0
        /\ Open(m)' => Unsampled(slot[m].ctr)'
  BY <1>1
<1> HIDE DEF Follows
<1>5. SamplesInv'
  BY <1>3, <1>4 DEF SamplesInv
<1>6. QED
  BY <1>2, <1>5

\* A step that keeps the transmit path awake forgets no message, if what it makes wait
\* is timed and what it makes ready finds the path awake.
LEMMA Remembered ==
  ASSUME TypeInv, NothingForgotten, copy' \in [Messages -> Copies],
         \A m \in Messages : copy'[m].in /\ copy'[m].wait => Timed(m)',
         \A m \in Messages : copy'[m].in /\ ~copy'[m].wait =>
           (copy[m].in /\ ~copy[m].wait) \/ access' # "IDLE" \/ dirty' \/ wake',
         UNCHANGED access, dirty => dirty', wake => wake'
  PROVE  NothingForgotten'
<1>1. \A m \in Queued' : copy'[m].wait => Timed(m)'
  BY DEF Queued
<1>2. Ready' # {} => access' # "IDLE" \/ dirty' \/ wake'
  <2> SUFFICES ASSUME NEW m \in Ready' PROVE access' # "IDLE" \/ dirty' \/ wake'
    OBVIOUS
  <2>1. m \in Messages /\ copy'[m].in /\ ~copy'[m].wait
    BY DEF Ready, Queued
  <2>2. CASE copy[m].in /\ ~copy[m].wait
    BY <2>1, <2>2 DEF NothingForgotten, Ready, Queued
  <2> QED BY <2>1, <2>2
<1>3. access' = "BACKOFF" => wake'
  BY DEF NothingForgotten
<1>4. QED
  BY <1>1, <1>2, <1>3 DEF NothingForgotten, Timed

\* A message moved on by a timer is not forgotten.
LEMMA RescheduledKeeps ==
  ASSUME IInv, NEW m \in Messages, NEW s \in Slots,
         s.ctr = slot[m].ctr, s.hop = slot[m].hop, s.key => slot[m].key,
         Rescheduled(m, s), UNCHANGED <<access, dirty, outcome>>
  PROVE  /\ parent' \in Hops \cup {NoHop} /\ changed' \in BOOLEAN
         /\ copy' \in [Messages -> Copies] /\ slot' \in [Messages -> Slots]
         /\ poll' \in BOOLEAN /\ wake' \in BOOLEAN
         /\ Fresh' /\ NothingForgotten'
         /\ \A k \in Messages : Follows(slot[k], slot'[k])
         /\ \A k \in Messages : slot'[k].state = "PENDING" => k # m /\ slot'[k] = slot[k]
<1>1. PICK t \in Slots, d \in Copies :
        /\ slot' = [slot EXCEPT ![m] = t] /\ copy' = [copy EXCEPT ![m] = d]
        /\ d.in = copy[m].in
        /\ t.ctr = s.ctr /\ t.hop = s.hop /\ t.sampled = s.sampled /\ (t.key => s.key)
        /\ t.state # "PENDING"
        /\ d.wait => (t.state \in {"DELAY", "LATE"} /\ t.due) \/ (t.state = "HELD" /\ poll')
        /\ wake' = wake \/ AccessAt
        /\ ~d.wait => AccessAt \/ ~copy[m].wait
        /\ poll' = poll \/ poll' = TRUE
        /\ parent' \in Hops \cup {NoHop} /\ changed' \in BOOLEAN
  BY DEF Rescheduled
<1>2. /\ copy \in [Messages -> Copies] /\ slot \in [Messages -> Slots]
      /\ poll \in BOOLEAN /\ wake \in BOOLEAN /\ TypeInv /\ NothingForgotten /\ Fresh
  BY DEF IInv, TypeInv
<1>3. /\ copy' \in [Messages -> Copies] /\ slot' \in [Messages -> Slots]
      /\ \A k \in Messages : copy'[k] = IF k = m THEN d ELSE copy[k]
      /\ \A k \in Messages : slot'[k] = IF k = m THEN t ELSE slot[k]
  BY <1>1, <1>2
<1>4. /\ wake' \in BOOLEAN /\ poll' \in BOOLEAN /\ (wake => wake')
      /\ AccessAt => wake' \/ access # "IDLE"
  BY <1>1, <1>2 DEF AccessAt
<1>5. Fresh'
  BY <1>1, <1>2, <1>3 DEF Fresh
<1>6. ASSUME NEW k \in Messages PROVE copy'[k].in /\ copy'[k].wait => Timed(k)'
  <2>1. CASE k = m
    BY <1>1, <1>3, <2>1 DEF Timed
  <2>2. CASE k # m
    <3>1. copy'[k] = copy[k] /\ slot'[k] = slot[k] /\ (poll => poll')
      BY <1>1, <1>3, <2>2
    <3>2. copy[k].in /\ copy[k].wait => Timed(k)
      BY <1>2 DEF NothingForgotten, Queued, Timed
    <3> QED BY <3>1, <3>2 DEF Timed
  <2> QED BY <2>1, <2>2
<1>7. ASSUME NEW k \in Messages, copy'[k].in, ~copy'[k].wait
      PROVE  (copy[k].in /\ ~copy[k].wait) \/ access' # "IDLE" \/ dirty' \/ wake'
  <2>1. CASE k = m
    BY <1>1, <1>3, <1>4, <1>7, <2>1
  <2>2. CASE k # m
    BY <1>3, <1>7, <2>2
  <2> QED BY <2>1, <2>2
<1>8. NothingForgotten'
  BY <1>2, <1>3, <1>4, <1>6, <1>7, Remembered
<1>9. \A k \in Messages : Follows(slot[k], slot'[k])
  BY <1>1, <1>3 DEF Follows
<1>10. QED
  BY <1>1, <1>3, <1>4, <1>5, <1>8, <1>9

\* A success changes the frame it is of, and only its count of acknowledgements.
LEMMA SuccessAt ==
  ASSUME NEW f \in Seq(Frames), NEW c \in DOMAIN f, NEW n \in Nat
  PROVE  /\ Success(f, c, n) \in Seq(Frames) /\ DOMAIN Success(f, c, n) = DOMAIN f
         /\ Len(Success(f, c, n)) = Len(f)
         /\ \A k \in DOMAIN f : /\ Success(f, c, n)[k].dest = f[k].dest
                                /\ Success(f, c, n)[k].failed = f[k].failed
                                /\ Success(f, c, n)[k].acked = f[k].acked + IF k = c THEN n ELSE 0
<1>1. f[c] \in Frames /\ DOMAIN f = 1 .. Len(f) /\ \A k \in DOMAIN f : f[k] \in Frames
  OBVIOUS
<1> DEFINE g == [f[c] EXCEPT !.acked = @ + n]
<1>2. f[c].acked + n \in Nat
  BY <1>1 DEF Frames
<1>3. g \in Frames /\ g.dest = f[c].dest /\ g.failed = f[c].failed /\ g.acked = f[c].acked + n
  BY <1>1, <1>2 DEF Frames
<1>4. Success(f, c, n) = [f EXCEPT ![c] = g]
  BY DEF Success
<1>5. \A k \in DOMAIN f : f[k].acked \in Nat
  BY <1>1 DEF Frames
<1> HIDE DEF g
<1>6. /\ [f EXCEPT ![c] = g] \in Seq(Frames) /\ DOMAIN [f EXCEPT ![c] = g] = DOMAIN f
      /\ Len([f EXCEPT ![c] = g]) = Len(f)
      /\ \A k \in DOMAIN f : [f EXCEPT ![c] = g][k] = IF k = c THEN g ELSE f[k]
  BY <1>1, <1>3
<1>7. QED
  BY <1>3, <1>4, <1>5, <1>6

\* A failure changes the frame it is of, and only its count of failures.
LEMMA FailureAt ==
  ASSUME NEW f \in Seq(Frames), NEW c \in DOMAIN f
  PROVE  /\ Failure(f, c) \in Seq(Frames) /\ DOMAIN Failure(f, c) = DOMAIN f
         /\ Len(Failure(f, c)) = Len(f)
         /\ \A k \in DOMAIN f : /\ Failure(f, c)[k].dest = f[k].dest
                                /\ Failure(f, c)[k].acked = f[k].acked
                                /\ Failure(f, c)[k].failed = f[k].failed + IF k = c THEN 1 ELSE 0
<1>1. f[c] \in Frames /\ DOMAIN f = 1 .. Len(f) /\ \A k \in DOMAIN f : f[k] \in Frames
  OBVIOUS
<1> DEFINE h == [f[c] EXCEPT !.failed = @ + 1]
<1>2. f[c].failed + 1 \in Nat
  BY <1>1 DEF Frames
<1>3. h \in Frames /\ h.dest = f[c].dest /\ h.acked = f[c].acked /\ h.failed = f[c].failed + 1
  BY <1>1, <1>2 DEF Frames
<1>4. Failure(f, c) = [f EXCEPT ![c] = h]
  BY DEF Failure
<1>5. \A k \in DOMAIN f : f[k].failed \in Nat
  BY <1>1 DEF Frames
<1> HIDE DEF h
<1>6. /\ [f EXCEPT ![c] = h] \in Seq(Frames) /\ DOMAIN [f EXCEPT ![c] = h] = DOMAIN f
      /\ Len([f EXCEPT ![c] = h]) = Len(f)
      /\ \A k \in DOMAIN f : [f EXCEPT ![c] = h][k] = IF k = c THEN h ELSE f[k]
  BY <1>1, <1>3
<1>7. QED
  BY <1>3, <1>4, <1>5, <1>6

------------------------------------------------------------------------------
(* Steps of the transmit path that leave the queue alone. *)

\* What every step has to show.
Kept == IInv' /\ FailsStep

\* A slot that does not change follows itself.
LEMMA FollowsItself ==
  ASSUME NEW s PROVE Follows(s, s)
BY DEF Follows

\* A step that leaves queue, slots and frames alone only has to keep the transmit path
\* awake.
LEMMA QueueUntouched ==
  ASSUME IInv, TypeInv', UNCHANGED <<reliable, frames, outcome>>,
         Ready # {} => access' # "IDLE" \/ dirty' \/ wake', access' = "BACKOFF" => wake'
  PROVE  Kept
<1>1. copy' = copy /\ slot' = slot /\ poll' = poll /\ undecided' = undecided /\ frames' = frames
      /\ outcome' = outcome
  BY DEF reliable
<1>2. Fresh'
  BY <1>1 DEF IInv, Fresh
<1>3. NothingForgotten'
  BY <1>1 DEF IInv, NothingForgotten, Queued, Ready
<1>4. SamplesInv' /\ FailsStep
  BY <1>1, FollowsItself, SlotsFollow DEF IInv, TypeInv
<1>5. QED
  BY <1>2, <1>3, <1>4 DEF Kept, IInv

\* An event, the rest of the transmit path, a busy channel and the end of a frame keep
\* the invariant.
LEMMA IdleKeeps ==
  ASSUME IInv, Step \/ Rest \/ ChannelBusy \/ TxDone
  PROVE  Kept
<1>1. TypeInv /\ NothingForgotten
  BY DEF IInv
<1>2. CASE Step
  <2>1. TypeInv'
    BY <1>1, <1>2 DEF TypeInv, Step, route, reliable, path
  <2> QED BY <1>1, <1>2, <2>1, QueueUntouched DEF Step, path, NothingForgotten
<1>3. CASE Rest
  <2>1. TypeInv'
    BY <1>1, <1>3 DEF TypeInv, Rest, route, reliable, path
  <2> QED BY <1>1, <1>3, <2>1, QueueUntouched DEF Rest, path, NothingForgotten
<1>4. CASE ChannelBusy
  <2>1. NoFrame \in [dest : Hops \cup {NoHop}, messages : SUBSET Messages]
    BY DEF NoFrame
  <2>2. TypeInv'
    BY <1>1, <1>4, <2>1 DEF TypeInv, ChannelBusy, route, reliable
  <2> QED BY <1>1, <1>4, <2>2, QueueUntouched DEF ChannelBusy
<1>5. CASE TxDone
  <2>1. TypeInv'
    BY <1>1, <1>5 DEF TypeInv, TxDone, route, reliable
  <2> QED BY <1>1, <1>5, <2>1, QueueUntouched DEF TxDone
<1>6. QED
  BY <1>2, <1>3, <1>4, <1>5

\* Packing a frame, or giving everything up, keeps the invariant.
LEMMA AccessKeeps ==
  ASSUME IInv, Access
  PROVE  Kept
<1>1. TypeInv /\ Fresh /\ NothingForgotten /\ SamplesInv
  BY DEF IInv
<1>2. NoFrame \in [dest : Hops \cup {NoHop}, messages : SUBSET Messages]
  BY DEF NoFrame
<1>3. /\ parent' = parent /\ changed' = changed /\ slot' = slot /\ poll' = poll
      /\ undecided' = undecided /\ frames' = frames /\ stepping' = FALSE /\ dirty' = FALSE
  BY DEF Access, route
<1>4. CASE Len(frames) >= COUNTER_LIMIT
  <2>1. /\ access' = "IDLE" /\ wake' = FALSE /\ sel' = NoFrame
        /\ copy' = [m \in Messages |-> NoCopy]
        /\ outcome' = [m \in Messages |->
                         IF m \in Queued THEN IF m \in Own THEN "failed" ELSE "dropped"
                         ELSE outcome[m]]
    BY <1>4 DEF Access
  <2>2. copy' \in [Messages -> Copies]
    BY <2>1, ConstantTypes
  <2>3. outcome' \in [Messages -> {"none", "queued", "acked", "failed", "dropped"}]
    BY <1>1, <2>1 DEF TypeInv
  <2>4. TypeInv'
    BY <1>1, <1>2, <1>3, <2>1, <2>2, <2>3 DEF TypeInv
  <2>5. \A m \in Messages : ~copy'[m].in
    BY <2>1 DEF NoCopy
  <2>6. Fresh' /\ NothingForgotten'
    BY <2>1, <2>5 DEF Fresh, NothingForgotten, Queued, Ready
  <2>7. SamplesInv' /\ FailsStep
    BY <1>1, <1>3, FollowsItself, SlotsFollow DEF TypeInv
  <2> QED BY <2>4, <2>6, <2>7 DEF Kept, IInv
<1>5. CASE ~(Len(frames) >= COUNTER_LIMIT)
  <2>1. /\ copy' = copy /\ outcome' = outcome
        /\ \/ access' = "IDLE" /\ wake' = (Ready # {}) /\ sel' = NoFrame
           \/ \E S \in SUBSET Ready \ {{}}, hop \in Hops :
                /\ access' = "SENSING" /\ wake' = FALSE
                /\ sel' = [dest |-> hop, messages |-> S]
    BY <1>5 DEF Access
  <2>2. Ready \subseteq Messages
    BY DEF Ready, Queued
  <2>3. /\ access' \in {"IDLE", "SENSING"} /\ wake' \in BOOLEAN
        /\ sel' \in [dest : Hops \cup {NoHop}, messages : SUBSET Messages]
        /\ access' = "IDLE" => (Ready # {} => wake')
    <3>1. CASE access' = "IDLE" /\ wake' = (Ready # {}) /\ sel' = NoFrame
      BY <1>2, <3>1
    <3>2. ASSUME NEW S \in SUBSET Ready \ {{}}, NEW hop \in Hops, access' = "SENSING",
                 wake' = FALSE, sel' = [dest |-> hop, messages |-> S]
          PROVE  /\ access' = "SENSING" /\ wake' = FALSE
                 /\ sel' \in [dest : Hops \cup {NoHop}, messages : SUBSET Messages]
      <4>1. S \in SUBSET Messages
        BY <2>2
      <4> QED BY <3>2, <4>1
    <3> QED BY <2>1, <3>1, <3>2
  <2>4. TypeInv'
    BY <1>1, <1>3, <2>1, <2>3 DEF TypeInv
  <2> QED BY <1>3, <2>1, <2>3, <2>4, QueueUntouched DEF reliable
<1>6. QED
  BY <1>4, <1>5

------------------------------------------------------------------------------
(* Submissions, timers and route changes. *)

\* A message submitted is queued, or held until there is a route.
LEMMA SubmitKeeps ==
  ASSUME IInv, NEW m \in Messages, Submit(m)
  PROVE  Kept
<1>1. TypeInv /\ Fresh /\ NothingForgotten /\ SamplesInv
  BY DEF IInv
<1> DEFINE d == Queueing
           t == IF parent = NoHop THEN HeldSlot(Cleared) ELSE slot[m]
<1>2. d \in Copies /\ d.in = TRUE /\ d.wait = (parent = NoHop)
  BY <1>1 DEF TypeInv, Queueing, Copies
<1>3. /\ t \in Slots /\ Follows(slot[m], t)
      /\ parent = NoHop => t.state = "HELD"
  <2>1. slot[m] \in Slots /\ Cleared \in Slots /\ Cleared.ctr = 0
    BY <1>1, ConstantTypes DEF TypeInv, Cleared
  <2> QED BY <2>1, HeldSlotType DEF Follows
<1>4. /\ outcome' = [outcome EXCEPT ![m] = "queued"] /\ copy' = [copy EXCEPT ![m] = d]
      /\ slot' = [slot EXCEPT ![m] = t] /\ (parent = NoHop => poll' = TRUE)
      /\ poll' = poll \/ poll' = TRUE
      /\ parent' = parent /\ changed' = changed /\ undecided' = undecided /\ access' = access
      /\ sel' = sel /\ frames' = frames /\ stepping' \in BOOLEAN
      /\ dirty' \in BOOLEAN /\ wake' \in BOOLEAN /\ (dirty => dirty') /\ (wake => wake')
      /\ dirty' \/ wake' \/ access # "IDLE"
  BY <1>1 DEF Submit, TypeInv, route, AccessAt
<1> HIDE DEF d, t
<1>5. /\ copy' \in [Messages -> Copies] /\ slot' \in [Messages -> Slots]
      /\ \A k \in Messages : copy'[k] = IF k = m THEN d ELSE copy[k]
      /\ \A k \in Messages : slot'[k] = IF k = m THEN t ELSE slot[k]
      /\ outcome' \in [Messages -> {"none", "queued", "acked", "failed", "dropped"}]
      /\ \A k \in Messages : outcome'[k] = IF k = m THEN "queued" ELSE outcome[k]
  BY <1>1, <1>2, <1>3, <1>4 DEF TypeInv
<1>6. TypeInv'
  BY <1>1, <1>4, <1>5 DEF TypeInv
<1>7. Fresh'
  BY <1>1, <1>5 DEF Fresh
<1>8. ASSUME NEW k \in Messages PROVE copy'[k].in /\ copy'[k].wait => Timed(k)'
  <2>1. CASE k = m
    BY <1>2, <1>3, <1>4, <1>5, <2>1 DEF Timed
  <2>2. CASE k # m
    <3>1. copy[k].in /\ copy[k].wait => Timed(k)
      BY <1>1 DEF NothingForgotten, Queued, Timed
    <3> QED BY <1>4, <1>5, <2>2, <3>1 DEF Timed
  <2> QED BY <2>1, <2>2
<1>9. NothingForgotten'
  BY <1>1, <1>4, <1>5, <1>8, Remembered
<1>10. \A k \in Messages : Follows(slot[k], slot'[k])
  BY <1>3, <1>5, FollowsItself
<1>11. SamplesInv' /\ FailsStep
  BY <1>1, <1>4, <1>5, <1>10, SlotsFollow
<1>12. QED
  BY <1>6, <1>7, <1>9, <1>11 DEF Kept, IInv

\* The delay of a retry ends: the message is ready and the transmit path woken.
LEMMA DelayOverKeeps ==
  ASSUME IInv, NEW m \in Messages, DelayOver(m)
  PROVE  Kept
<1>1. TypeInv /\ Fresh /\ NothingForgotten /\ SamplesInv
  BY DEF IInv
<1> DEFINE s == [slot[m] EXCEPT !.state = "IDLE", !.due = FALSE]
           d == [copy[m] EXCEPT !.wait = FALSE]
<1>2. slot[m] \in Slots /\ copy[m] \in Copies
  BY <1>1 DEF TypeInv
<1>3. /\ s \in Slots /\ s.ctr = slot[m].ctr /\ s.hop = slot[m].hop /\ s.key = slot[m].key
      /\ s.sampled = slot[m].sampled /\ s.state # "PENDING"
  BY <1>2 DEF Slots, States
<1>4. d \in Copies /\ d.in = copy[m].in /\ d.wait = FALSE
  BY <1>2 DEF Copies
<1>5. slot' = [slot EXCEPT ![m] = s] /\ copy' = [copy EXCEPT ![m] = d] /\ AccessAt
  BY <1>1 DEF DelayOver, TypeInv, Slots, Copies
<1>6. /\ parent' \in Hops \cup {NoHop} /\ changed' \in BOOLEAN /\ poll' = poll
      /\ UNCHANGED <<undecided, access, sel, dirty, stepping, frames, outcome>>
  BY <1>1 DEF DelayOver, route, TypeInv
<1> HIDE DEF s, d
<1>7. Rescheduled(m, s)
  BY <1>3, <1>4, <1>5, <1>6 DEF Rescheduled
<1>8. /\ parent' \in Hops \cup {NoHop} /\ changed' \in BOOLEAN
      /\ copy' \in [Messages -> Copies] /\ slot' \in [Messages -> Slots]
      /\ poll' \in BOOLEAN /\ wake' \in BOOLEAN
      /\ Fresh' /\ NothingForgotten'
      /\ \A k \in Messages : Follows(slot[k], slot'[k])
  BY <1>3, <1>6, <1>7, RescheduledKeeps
<1>9. TypeInv'
  BY <1>1, <1>6, <1>8 DEF TypeInv
<1>10. SamplesInv' /\ FailsStep
  BY <1>1, <1>6, <1>8, SlotsFollow
<1>11. QED
  BY <1>8, <1>9, <1>10 DEF Kept, IInv

\* The wait for a late root acknowledgement ends: the message is given other chances.
LEMMA LateOverKeeps ==
  ASSUME IInv, NEW m \in Messages, LateOver(m)
  PROVE  Kept
<1>1. TypeInv /\ Fresh /\ NothingForgotten /\ SamplesInv
  BY DEF IInv
<1> DEFINE s == [slot[m] EXCEPT !.state = "IDLE", !.due = FALSE]
<1>2. slot[m] \in Slots
  BY <1>1 DEF TypeInv
<1>3. /\ s \in Slots /\ s.ctr = slot[m].ctr /\ s.hop = slot[m].hop /\ s.key = slot[m].key
      /\ s.sampled = slot[m].sampled /\ s.state # "PENDING"
  BY <1>2 DEF Slots, States
<1>4. Exhausted(m, s) /\ UNCHANGED <<undecided, access, sel, dirty, stepping, frames, outcome>>
  BY DEF LateOver
<1> HIDE DEF s
<1>5. Rescheduled(m, s)
  BY <1>1, <1>3, <1>4, ExhaustedReschedules
<1>6. /\ parent' \in Hops \cup {NoHop} /\ changed' \in BOOLEAN
      /\ copy' \in [Messages -> Copies] /\ slot' \in [Messages -> Slots]
      /\ poll' \in BOOLEAN /\ wake' \in BOOLEAN
      /\ Fresh' /\ NothingForgotten'
      /\ \A k \in Messages : Follows(slot[k], slot'[k])
  BY <1>3, <1>4, <1>5, RescheduledKeeps
<1>7. TypeInv'
  BY <1>1, <1>4, <1>6 DEF TypeInv
<1>8. SamplesInv' /\ FailsStep
  BY <1>1, <1>4, <1>6, SlotsFollow
<1>9. QED
  BY <1>6, <1>7, <1>8 DEF Kept, IInv

\* The slot of a message no more in the queue is forgotten.
LEMMA ForgetKeeps ==
  ASSUME IInv, NEW m \in Messages, Forget(m)
  PROVE  Kept
<1>1. TypeInv /\ Fresh /\ NothingForgotten /\ SamplesInv
  BY DEF IInv
<1>2. /\ m \notin Queued /\ slot' = [slot EXCEPT ![m] = Cleared]
      /\ UNCHANGED <<route, copy, poll, undecided, path, stepping, frames, outcome>>
  BY DEF Forget
<1>3. /\ slot' \in [Messages -> Slots]
      /\ \A k \in Messages : slot'[k] = IF k = m THEN Cleared ELSE slot[k]
  BY <1>1, <1>2, ConstantTypes DEF TypeInv
<1>4. TypeInv'
  BY <1>1, <1>2, <1>3 DEF TypeInv, route, path
<1>5. Fresh'
  BY <1>1, <1>2 DEF Fresh
<1>6. NothingForgotten'
  BY <1>1, <1>2, <1>3 DEF NothingForgotten, Queued, Ready, path
<1>7. Follows(slot[m], Cleared)
  BY DEF Follows, Cleared
<1>8. \A k \in Messages : Follows(slot[k], slot'[k])
  BY <1>3, <1>7, FollowsItself
<1>9. SamplesInv' /\ FailsStep
  BY <1>1, <1>2, <1>3, <1>8, SlotsFollow
<1>10. QED
  BY <1>4, <1>5, <1>6, <1>9 DEF Kept, IInv

\* The ready messages follow the preferred parent, or are held after a detach.
LEMMA RoutedKeeps ==
  ASSUME IInv, NEW p \in Hops \cup {NoHop}, Routed(p), parent' \in Hops \cup {NoHop},
         changed' \in BOOLEAN, UNCHANGED <<undecided, path, stepping, frames, outcome>>
  PROVE  Kept
<1>1. TypeInv /\ Fresh /\ NothingForgotten /\ SamplesInv
  BY DEF IInv
<1>2. /\ copy' = [m \in Messages |->
                IF ~copy[m].in THEN copy[m]
                ELSE IF p = NoHop THEN [copy[m] EXCEPT !.wait = TRUE]
                ELSE IF ~copy[m].wait /\ copy[m].hop # p
                THEN [copy[m] EXCEPT !.hop = p, !.attempts = 0] ELSE copy[m]]
      /\ slot' = [m \in Messages |->
                IF p = NoHop /\ m \in Queued THEN HeldSlot(slot[m]) ELSE slot[m]]
      /\ poll' = TRUE
  BY DEF Routed
<1>3. ASSUME NEW m \in Messages
      PROVE  /\ copy'[m] \in Copies /\ copy'[m].in = copy[m].in
             /\ copy[m].in => copy'[m].wait = (p = NoHop \/ copy[m].wait)
  <2>1. copy[m] \in Copies
    BY <1>1 DEF TypeInv
  <2> QED BY <1>2, <2>1 DEF Copies
<1>4. ASSUME NEW m \in Messages
      PROVE  /\ slot'[m] \in Slots /\ Follows(slot[m], slot'[m])
             /\ p = NoHop /\ copy[m].in => slot'[m].state = "HELD"
             /\ p # NoHop => slot'[m] = slot[m]
  <2>1. slot[m] \in Slots
    BY <1>1 DEF TypeInv
  <2>2. HeldSlot(slot[m]) \in Slots /\ Follows(slot[m], HeldSlot(slot[m]))
        /\ HeldSlot(slot[m]).state = "HELD"
    BY <2>1, HeldSlotType DEF Follows
  <2> QED BY <1>2, <2>1, <2>2, FollowsItself DEF Queued
<1>5. copy' \in [Messages -> Copies] /\ slot' \in [Messages -> Slots]
  BY <1>2, <1>3, <1>4
<1>6. TypeInv'
  BY <1>1, <1>2, <1>5 DEF TypeInv, path
<1>7. Fresh'
  BY <1>1, <1>3 DEF Fresh
<1>8. ASSUME NEW m \in Messages PROVE copy'[m].in /\ copy'[m].wait => Timed(m)'
  <2>1. CASE p = NoHop
    BY <1>2, <1>3, <1>4, <2>1 DEF Timed
  <2>2. CASE p # NoHop
    <3>1. copy[m].in /\ copy[m].wait => Timed(m)
      BY <1>1 DEF NothingForgotten, Queued, Timed
    <3> QED BY <1>2, <1>3, <1>4, <2>2, <3>1 DEF Timed
  <2> QED BY <2>1, <2>2
<1>9. \A m \in Messages : copy'[m].in /\ ~copy'[m].wait => copy[m].in /\ ~copy[m].wait
  <2>1. \A m \in Messages : copy[m].wait \in BOOLEAN
    BY <1>1 DEF TypeInv, Copies
  <2> QED BY <1>3, <2>1
<1>10. UNCHANGED access /\ (dirty => dirty') /\ (wake => wake')
  BY DEF path
<1>11. NothingForgotten'
  BY <1>1, <1>5, <1>8, <1>9, <1>10, Remembered
<1>12. SamplesInv' /\ FailsStep
  BY <1>1, <1>4, <1>5, SlotsFollow
<1>13. QED
  BY <1>6, <1>7, <1>11, <1>12 DEF Kept, IInv

\* A new preferred parent is applied at once, or at the end of the timers.
LEMMA ParentKeeps ==
  ASSUME IInv, Apply \/ \E p \in Hops \cup {NoHop} : NewParent(p)
  PROVE  Kept
<1>1. parent \in Hops \cup {NoHop} /\ changed \in BOOLEAN
  BY DEF IInv, TypeInv
<1>2. CASE Apply
  BY <1>1, <1>2, RoutedKeeps DEF Apply
<1>3. ASSUME NEW p \in Hops \cup {NoHop}, NewParent(p) PROVE Kept
  BY <1>1, <1>3, RoutedKeeps DEF NewParent
<1>4. QED
  BY <1>2, <1>3

------------------------------------------------------------------------------
(* Failures. *)

\* A step that charges a failure to frame c at most keeps the agreement, if c had no
\* sample, and neither a message open afterwards nor an undecided frame stands for it.
LEMMA FailureAgrees ==
  ASSUME TypeInv, SamplesInv, NEW c \in DOMAIN frames, Unsampled(c),
         frames' = Failure(frames, c), slot' \in [Messages -> Slots],
         \A m \in Messages : Follows(slot[m], slot'[m]),
         \A m \in Messages : Open(m)' => slot'[m].ctr # c,
         undecided' \subseteq undecided \ {c}
  PROVE  SamplesInv' /\ FailsStep
<1>1. frames \in Seq(Frames) /\ DOMAIN frames = 1 .. Len(frames) /\ 0 \in Nat
  BY DEF TypeInv
<1>2. /\ DOMAIN frames' = DOMAIN frames /\ Len(frames') = Len(frames)
      /\ \A k \in DOMAIN frames :
           /\ frames'[k].dest = frames[k].dest /\ frames'[k].acked = frames[k].acked
           /\ frames'[k].failed = frames[k].failed + IF k = c THEN 1 ELSE 0
  <2>1. LET h == Failure(frames, c) IN
        /\ DOMAIN h = DOMAIN frames /\ Len(h) = Len(frames)
        /\ \A k \in DOMAIN frames :
             /\ h[k].dest = frames[k].dest /\ h[k].acked = frames[k].acked
             /\ h[k].failed = frames[k].failed + IF k = c THEN 1 ELSE 0
    <3>1. frames \in Seq(Frames) /\ c \in DOMAIN frames
      BY <1>1
    <3> QED BY <3>1, FailureAt
  <2>2. frames' = Failure(frames, c)
    OBVIOUS
  <2> QED BY <2>1, <2>2
<1>3. ASSUME NEW k \in DOMAIN frames
      PROVE  /\ frames'[k].failed = IF k = c THEN frames[k].failed + 1 ELSE frames[k].failed
             /\ frames'[k].acked = frames[k].acked
  <2>1. frames[k] \in Frames
    BY <1>1
  <2>2. frames[k].failed \in Nat
    BY <2>1 DEF Frames
  <2> QED BY <1>2, <2>2
<1>4. FailsStep
  BY <1>2, <1>3 DEF FailsStep, Unsampled
<1>5. \A k \in DOMAIN frames : k # c /\ Unsampled(k) => Unsampled(k)'
  BY <1>3 DEF Unsampled
<1>6. ASSUME NEW m \in Messages
      PROVE  /\ slot'[m].ctr <= Len(frames')
             /\ slot'[m].ctr # 0 => frames'[slot'[m].ctr].dest = slot'[m].hop
             /\ slot'[m].state = "PENDING" \/ slot'[m].key => slot'[m].ctr # 0
             /\ Open(m)' => Unsampled(slot[m].ctr)'
  <2>1. /\ slot[m] \in Slots /\ slot'[m] \in Slots /\ Follows(slot[m], slot'[m])
        /\ Len(frames) \in Nat
    BY <1>1 DEF TypeInv
  <2>2. /\ slot[m].ctr <= Len(frames)
        /\ slot[m].ctr # 0 => frames[slot[m].ctr].dest = slot[m].hop
        /\ slot[m].state = "PENDING" \/ slot[m].key => slot[m].ctr # 0
        /\ Open(m) => Unsampled(slot[m].ctr)
    BY DEF SamplesInv
  <2>3. slot[m].ctr \in Nat
    BY <2>1 DEF Slots
  <2>4. CASE slot'[m].ctr = 0 /\ slot'[m].key = FALSE /\ slot'[m].state # "PENDING"
    BY <1>2, <2>1, <2>4 DEF Open
  <2>5. CASE /\ slot'[m].ctr = slot[m].ctr /\ slot'[m].hop = slot[m].hop
             /\ slot'[m].key => slot[m].key
             /\ slot'[m].state = "PENDING" => slot[m].state = "PENDING"
                                            /\ (~slot'[m].sampled => ~slot[m].sampled)
    <3>1. Open(m)' => Open(m)
      BY <2>5 DEF Open
    <3>2. slot[m].ctr # 0 => slot[m].ctr \in DOMAIN frames
      BY <1>1, <2>1, <2>2, <2>3
    <3>3. slot'[m].ctr # 0 => frames'[slot'[m].ctr].dest = slot'[m].hop
      BY <1>2, <2>2, <2>5, <3>2
    <3>4. slot'[m].state = "PENDING" \/ slot'[m].key => slot'[m].ctr # 0
      BY <2>2, <2>5
    <3>5. ASSUME Open(m)' PROVE Unsampled(slot[m].ctr)'
      <4>1. Unsampled(slot[m].ctr) /\ slot[m].ctr # c /\ slot[m].ctr \in DOMAIN frames
        BY <2>2, <2>5, <3>1, <3>2, <3>5 DEF Open
      <4>2. frames'[slot[m].ctr].failed = 0 /\ frames'[slot[m].ctr].acked = 0
        BY <1>3, <4>1 DEF Unsampled
      <4> QED BY <2>5, <4>2 DEF Unsampled
    <3> QED BY <1>2, <2>2, <2>5, <3>3, <3>4, <3>5
  <2> QED BY <2>1, <2>4, <2>5 DEF Follows
<1>7. ASSUME NEW k \in undecided'
      PROVE  /\ k \in DOMAIN frames' /\ frames'[k].dest = Root /\ Unsampled(k)'
             /\ \A m \in Messages : Open(m)' => slot'[m].ctr # k
  <2>1. k \in undecided /\ k # c
    OBVIOUS
  <2>2. /\ k \in DOMAIN frames /\ frames[k].dest = Root /\ Unsampled(k)
        /\ \A m \in Messages : Open(m) => slot[m].ctr # k
    BY <2>1 DEF SamplesInv
  <2>3. ASSUME NEW m \in Messages, Open(m)' PROVE slot'[m].ctr # k
    <3>1. Open(m) /\ slot'[m].ctr = slot[m].ctr
      BY <2>3 DEF Follows, Open
    <3> QED BY <2>2, <3>1
  <2> QED BY <1>2, <1>5, <2>1, <2>2, <2>3
<1>8. QED
  BY <1>4, <1>6, <1>7 DEF SamplesInv

\* The decision on a root frame's failure gives a sample or none.
LEMMA DecideKeeps ==
  ASSUME IInv, NEW c \in undecided, Decide(c)
  PROVE  Kept
<1>1. TypeInv /\ Fresh /\ NothingForgotten /\ SamplesInv
  BY DEF IInv
<1>2. /\ undecided' = undecided \ {c} /\ frames' \in {frames, Failure(frames, c)}
      /\ UNCHANGED <<route, copy, slot, poll, path, stepping, outcome>>
  BY DEF Decide
<1>3. c \in DOMAIN frames /\ Unsampled(c) /\ \A m \in Messages : Open(m) => slot[m].ctr # c
  BY <1>1 DEF SamplesInv
<1>4. frames \in Seq(Frames) /\ Failure(frames, c) \in Seq(Frames)
  <2>1. frames \in Seq(Frames) /\ 0 \in Nat
    BY <1>1 DEF TypeInv
  <2> QED BY <1>3, <2>1, FailureAt
<1>5. TypeInv'
  BY <1>1, <1>2, <1>4 DEF TypeInv, route, path
<1>6. Fresh' /\ NothingForgotten'
  BY <1>1, <1>2 DEF Fresh, NothingForgotten, Queued, Ready, path
<1>7. /\ slot' = slot /\ slot' \in [Messages -> Slots]
      /\ \A m \in Messages : Follows(slot[m], slot'[m])
  BY <1>1, <1>2, FollowsItself DEF TypeInv
<1>8. CASE frames' = frames
  BY <1>1, <1>2, <1>5, <1>6, <1>7, <1>8, SlotsFollow DEF Kept, IInv
<1>9. CASE frames' = Failure(frames, c)
  <2>1. \A m \in Messages : Open(m)' => slot'[m].ctr # c
    BY <1>3, <1>7 DEF Open
  <2>2. SamplesInv' /\ FailsStep
    BY <1>1, <1>2, <1>3, <1>7, <1>9, <2>1, FailureAgrees
  <2> QED BY <1>5, <1>6, <2>2 DEF Kept, IInv
<1>10. QED
  BY <1>2, <1>8, <1>9

\* An acknowledgement that does not come charges a failure to the frame with the last
\* message that waits for it, and moves the message on.
LEMMA AckTimeoutKeeps ==
  ASSUME IInv, NEW m \in Messages, AckTimeout(m)
  PROVE  Kept
<1>1. TypeInv /\ Fresh /\ NothingForgotten /\ SamplesInv
  BY DEF IInv
<1> DEFINE hop == slot[m].hop
           failed == ~slot[m].sampled /\ SameFrame(m) = {}
           s == [slot[m] EXCEPT !.state = "IDLE", !.due = FALSE, !.sampled = @ \/ hop = Root]
<1>2. /\ slot[m].state = "PENDING"
      /\ undecided' = IF failed /\ hop = Root THEN undecided \cup {slot[m].ctr} ELSE undecided
      /\ frames' = IF failed /\ hop # Root THEN Failure(frames, slot[m].ctr) ELSE frames
      /\ \/ Retry(m, s, FALSE)
         \/ /\ slot' = [slot EXCEPT ![m] = [s EXCEPT !.state = "LATE", !.due = TRUE]]
            /\ UNCHANGED <<route, copy, poll, wake>>
         \/ Exhausted(m, s)
      /\ UNCHANGED <<access, sel, dirty, stepping, outcome>>
  BY DEF AckTimeout
<1>3. /\ slot[m] \in Slots /\ copy[m] \in Copies /\ slot \in [Messages -> Slots]
      /\ copy \in [Messages -> Copies]
  BY <1>1 DEF TypeInv
<1>4. /\ s \in Slots /\ s.ctr = slot[m].ctr /\ s.hop = slot[m].hop /\ s.key = slot[m].key
      /\ s.state = "IDLE"
  BY <1>3 DEF Slots, States
<1>5. /\ [s EXCEPT !.state = "LATE", !.due = TRUE] \in Slots
      /\ [s EXCEPT !.state = "LATE", !.due = TRUE].ctr = s.ctr
      /\ [s EXCEPT !.state = "LATE", !.due = TRUE].hop = s.hop
      /\ [s EXCEPT !.state = "LATE", !.due = TRUE].sampled = s.sampled
      /\ [s EXCEPT !.state = "LATE", !.due = TRUE].key = s.key
      /\ [s EXCEPT !.state = "LATE", !.due = TRUE].state = "LATE"
      /\ [s EXCEPT !.state = "LATE", !.due = TRUE].due = TRUE
  <2> HIDE DEF s
  <2> QED BY <1>4 DEF Slots, States
<1>6. slot[m].ctr \in DOMAIN frames /\ frames[slot[m].ctr].dest = hop
  <2>1. slot[m].ctr \in Nat /\ slot[m].ctr # 0 /\ slot[m].ctr <= Len(frames)
        /\ frames[slot[m].ctr].dest = hop
    BY <1>1, <1>2, <1>3 DEF SamplesInv, Slots
  <2>2. DOMAIN frames = 1 .. Len(frames) /\ Len(frames) \in Nat
    BY <1>1 DEF TypeInv
  <2> QED BY <2>1, <2>2
<1> HIDE DEF s
<1>7. Rescheduled(m, s)
  <2>1. CASE Retry(m, s, FALSE)
    BY <1>1, <1>4, <2>1, RetryReschedules
  <2>2. CASE Exhausted(m, s)
    BY <1>1, <1>4, <2>2, ExhaustedReschedules
  <2>3. CASE /\ slot' = [slot EXCEPT ![m] = [s EXCEPT !.state = "LATE", !.due = TRUE]]
             /\ UNCHANGED <<route, copy, poll, wake>>
    <3> DEFINE t == [s EXCEPT !.state = "LATE", !.due = TRUE]
    <3>1. /\ t \in Slots /\ t.ctr = s.ctr /\ t.hop = s.hop /\ t.sampled = s.sampled
          /\ t.key = s.key /\ t.state = "LATE" /\ t.due
      BY <1>5
    <3>2. slot' = [slot EXCEPT ![m] = t]
      BY <2>3
    <3>3. copy' = [copy EXCEPT ![m] = copy[m]]
      BY <1>3, <2>3
    <3>4. parent' \in Hops \cup {NoHop} /\ changed' \in BOOLEAN /\ poll' = poll /\ wake' = wake
      BY <1>1, <2>3 DEF TypeInv, route
    <3> HIDE DEF t
    <3> QED BY <1>3, <3>1, <3>2, <3>3, <3>4 DEF Rescheduled
  <2> QED BY <1>2, <2>1, <2>2, <2>3
<1>8. /\ parent' \in Hops \cup {NoHop} /\ changed' \in BOOLEAN
      /\ copy' \in [Messages -> Copies] /\ slot' \in [Messages -> Slots]
      /\ poll' \in BOOLEAN /\ wake' \in BOOLEAN
      /\ Fresh' /\ NothingForgotten'
      /\ \A k \in Messages : Follows(slot[k], slot'[k])
      /\ \A k \in Messages : slot'[k].state = "PENDING" => k # m /\ slot'[k] = slot[k]
  BY <1>2, <1>4, <1>7, RescheduledKeeps
<1>9. ASSUME failed, NEW k \in Messages, Open(k)'
      PROVE  slot'[k].ctr # slot[m].ctr /\ Open(k) /\ slot'[k] = slot[k]
  <2>1. k # m /\ slot'[k] = slot[k] /\ Open(k)
    BY <1>8, <1>9 DEF Open
  <2>2. ASSUME slot[k].ctr = slot[m].ctr PROVE FALSE
    <3>1. slot[k].hop = slot[m].hop
      <4>1. slot[k].ctr # 0 => frames[slot[k].ctr].dest = slot[k].hop
        BY <1>1 DEF SamplesInv
      <4>2. slot[k].ctr # 0
        BY <1>1, <2>1 DEF SamplesInv, Open
      <4> QED BY <1>6, <2>2, <4>1, <4>2
    <3>2. k \in SameFrame(m)
      BY <2>1, <2>2, <3>1 DEF SameFrame, Open
    <3> QED BY <1>9, <3>2
  <2> QED BY <2>1, <2>2
<1>10. failed => Unsampled(slot[m].ctr)
  BY <1>1, <1>2 DEF SamplesInv, Open
<1>11. frames \in Seq(Frames) /\ Failure(frames, slot[m].ctr) \in Seq(Frames)
  <2>1. frames \in Seq(Frames) /\ 0 \in Nat
    BY <1>1 DEF TypeInv
  <2> QED BY <1>6, <2>1, FailureAt
<1>12. TypeInv'
  <2>1. frames' \in Seq(Frames)
    BY <1>2, <1>11
  <2>2. undecided' \in SUBSET Nat
    BY <1>1, <1>2, <1>3 DEF TypeInv, Slots
  <2> QED BY <1>1, <1>2, <1>8, <2>1, <2>2 DEF TypeInv
<1>13. SamplesInv' /\ FailsStep
  <2>1. CASE ~failed
    BY <1>1, <1>2, <1>8, <2>1, SlotsFollow
  <2>2. CASE failed /\ hop # Root
    <3>1. slot[m].ctr \notin undecided
      BY <1>1, <1>6, <2>2 DEF SamplesInv
    <3>2. undecided' \subseteq undecided \ {slot[m].ctr} /\ frames' = Failure(frames, slot[m].ctr)
      BY <1>2, <2>2, <3>1
    <3>3. \A k \in Messages : Open(k)' => slot'[k].ctr # slot[m].ctr
      BY <1>9, <2>2
    <3> QED BY <1>1, <1>6, <1>8, <1>10, <2>2, <3>2, <3>3, FailureAgrees
  <2>3. CASE failed /\ hop = Root
    <3>1. frames' = frames /\ undecided' = undecided \cup {slot[m].ctr}
      BY <1>2, <2>3
    <3>2. FailsStep
      BY <3>1 DEF FailsStep
    <3>3. ASSUME NEW c \in undecided'
          PROVE  /\ c \in DOMAIN frames' /\ frames'[c].dest = Root /\ Unsampled(c)'
                 /\ \A k \in Messages : Open(k)' => slot'[k].ctr # c
      <4>1. CASE c = slot[m].ctr
        BY <1>6, <1>9, <1>10, <2>3, <3>1, <4>1 DEF Unsampled
      <4>2. CASE c \in undecided
        <5>1. /\ c \in DOMAIN frames /\ frames[c].dest = Root /\ Unsampled(c)
              /\ \A k \in Messages : Open(k) => slot[k].ctr # c
          BY <1>1, <4>2 DEF SamplesInv
        <5>2. \A k \in Messages : Open(k)' => slot'[k].ctr # c
          BY <1>9, <2>3, <5>1
        <5> QED BY <3>1, <5>1, <5>2 DEF Unsampled
      <4> QED BY <3>1, <4>1, <4>2
    <3>4. ASSUME NEW k \in Messages
          PROVE  /\ slot'[k].ctr <= Len(frames')
                 /\ slot'[k].ctr # 0 => frames'[slot'[k].ctr].dest = slot'[k].hop
                 /\ slot'[k].state = "PENDING" \/ slot'[k].key => slot'[k].ctr # 0
                 /\ Open(k)' => Unsampled(slot[k].ctr)'
      <4>1. Follows(slot[k], slot'[k])
        BY <1>8
      <4>2. /\ slot[k].ctr <= Len(frames) /\ Len(frames) \in Nat
            /\ slot[k].ctr # 0 => frames[slot[k].ctr].dest = slot[k].hop
            /\ slot[k].state = "PENDING" \/ slot[k].key => slot[k].ctr # 0
            /\ Open(k) => Unsampled(slot[k].ctr)
        BY <1>1 DEF SamplesInv, TypeInv
      <4>3. Open(k)' => Unsampled(slot[k].ctr)'
        BY <1>9, <2>3, <3>1, <4>2 DEF Unsampled
      <4>4. slot'[k].ctr <= Len(frames')
        BY <3>1, <4>1, <4>2 DEF Follows
      <4>5. slot'[k].ctr # 0 => frames'[slot'[k].ctr].dest = slot'[k].hop
        BY <3>1, <4>1, <4>2 DEF Follows
      <4>6. slot'[k].state = "PENDING" \/ slot'[k].key => slot'[k].ctr # 0
        BY <4>1, <4>2 DEF Follows
      <4> QED BY <4>3, <4>4, <4>5, <4>6
    <3>5. SamplesInv'
      BY <3>3, <3>4 DEF SamplesInv
    <3> QED BY <3>2, <3>5
  <2> QED BY <2>1, <2>2, <2>3
<1>14. QED
  BY <1>8, <1>12, <1>13 DEF Kept, IInv

\* The held messages fail, leave for the preferred parent or wait for the next poll, and
\* the errors they make wait with them or find the transmit path woken.
LEMMA ResumeHeldKeeps ==
  ASSUME IInv, ResumeHeld
  PROVE  Kept
<1>1. TypeInv /\ Fresh /\ NothingForgotten /\ SamplesInv
  BY DEF IInv
<1>2. PICK expired \in SUBSET Held, errors \in SUBSET {m \in Own : outcome[m] = "none"} :
       LET resumed == IF parent = NoHop THEN {} ELSE Held \ expired IN
       /\ Cardinality(errors) <= Cardinality(expired \ Own)
       /\ copy' = [m \in Messages |->
                     IF m \in expired THEN NoCopy
                     ELSE IF m \in resumed \cup errors THEN Queueing
                     ELSE copy[m]]
       /\ slot' = [m \in Messages |->
                     IF m \in expired THEN Cleared
                     ELSE IF m \in resumed THEN [slot[m] EXCEPT !.state = "IDLE"]
                     ELSE IF m \in errors /\ parent = NoHop THEN HeldSlot(slot[m])
                     ELSE slot[m]]
       /\ poll' = (parent = NoHop /\ (Held # expired \/ errors # {}))
       /\ outcome' = [m \in Messages |-> IF m \in expired THEN "failed"
                                         ELSE IF m \in errors THEN "queued" ELSE outcome[m]]
       /\ dirty' = (dirty \/ errors # {})
       /\ IF resumed = {} THEN UNCHANGED wake ELSE AccessAt
  BY DEF ResumeHeld
<1> DEFINE resumed == IF parent = NoHop THEN {} ELSE Held \ expired
<1>3. /\ resumed \subseteq Held /\ (parent = NoHop => resumed = {})
      /\ parent # NoHop => resumed = Held \ expired
  OBVIOUS
<1>4. /\ copy' = [m \in Messages |->
                     IF m \in expired THEN NoCopy
                     ELSE IF m \in resumed \cup errors THEN Queueing
                     ELSE copy[m]]
      /\ slot' = [m \in Messages |->
                     IF m \in expired THEN Cleared
                     ELSE IF m \in resumed THEN [slot[m] EXCEPT !.state = "IDLE"]
                     ELSE IF m \in errors /\ parent = NoHop THEN HeldSlot(slot[m])
                     ELSE slot[m]]
      /\ poll' = (parent = NoHop /\ (Held # expired \/ errors # {}))
      /\ outcome' = [m \in Messages |-> IF m \in expired THEN "failed"
                                         ELSE IF m \in errors THEN "queued" ELSE outcome[m]]
      /\ dirty' = (dirty \/ errors # {})
      /\ IF resumed = {} THEN UNCHANGED wake ELSE AccessAt
  BY <1>2
<1> HIDE DEF resumed
<1>5. UNCHANGED <<route, undecided, access, sel, stepping, frames>>
  BY DEF ResumeHeld
<1>6. Queueing \in Copies /\ Queueing.in = TRUE /\ Queueing.wait = (parent = NoHop)
  BY <1>1 DEF TypeInv, Queueing, Copies
<1>7. /\ Held \subseteq Messages /\ \A m \in Held : copy[m].in /\ slot[m].state = "HELD"
      /\ \A m \in Messages : copy[m].in /\ slot[m].state = "HELD" => m \in Held
      /\ errors \cap Held = {} /\ errors \subseteq Messages
  BY <1>1, ClassOneAssumption DEF Held, Queued, Fresh
<1>8. ASSUME NEW m \in Messages
      PROVE  /\ copy'[m] = IF m \in expired THEN NoCopy
                           ELSE IF m \in resumed \/ m \in errors THEN Queueing ELSE copy[m]
             /\ copy'[m] \in Copies
  <2>1. copy[m] \in Copies
    BY <1>1 DEF TypeInv
  <2> QED BY <1>4, <1>6, <2>1, ConstantTypes
<1>9. ASSUME NEW m \in Messages
      PROVE  /\ slot'[m] \in Slots /\ Follows(slot[m], slot'[m])
             /\ m \in errors /\ parent = NoHop => slot'[m].state = "HELD"
             /\ m \notin expired /\ m \notin resumed /\ m \notin errors => slot'[m] = slot[m]
  <2>1. slot[m] \in Slots
    BY <1>1 DEF TypeInv
  <2>2. HeldSlot(slot[m]) \in Slots /\ Follows(slot[m], HeldSlot(slot[m]))
        /\ HeldSlot(slot[m]).state = "HELD"
    BY <2>1, HeldSlotType DEF Follows
  <2> DEFINE i == [slot[m] EXCEPT !.state = "IDLE"]
  <2>3. i \in Slots /\ Follows(slot[m], i)
    <3>1. i \in Slots /\ i.ctr = slot[m].ctr /\ i.hop = slot[m].hop /\ i.key = slot[m].key
          /\ i.state = "IDLE"
      BY <2>1 DEF Slots, States
    <3> QED BY <3>1 DEF Follows
  <2>4. Cleared \in Slots /\ Follows(slot[m], Cleared)
    BY ConstantTypes DEF Follows, Cleared
  <2>5. slot'[m] = IF m \in expired THEN Cleared ELSE IF m \in resumed THEN i
                   ELSE IF m \in errors /\ parent = NoHop THEN HeldSlot(slot[m]) ELSE slot[m]
    BY <1>4
  <2>6. m \in errors => m \notin expired /\ m \notin resumed
    BY <1>3, <1>7
  <2> HIDE DEF i
  <2> QED BY <2>1, <2>2, <2>3, <2>4, <2>5, <2>6, FollowsItself
<1>10. /\ copy' \in [Messages -> Copies] /\ slot' \in [Messages -> Slots]
       /\ outcome' \in [Messages -> {"none", "queued", "acked", "failed", "dropped"}]
  <2>1. copy' \in [Messages -> Copies]
    BY <1>4, <1>8
  <2>2. slot' \in [Messages -> Slots]
    BY <1>4, <1>9
  <2>3. outcome' \in [Messages -> {"none", "queued", "acked", "failed", "dropped"}]
    BY <1>1, <1>4 DEF TypeInv
  <2> QED BY <2>1, <2>2, <2>3
<1>11. /\ dirty' \in BOOLEAN /\ wake' \in BOOLEAN /\ poll' \in BOOLEAN
       /\ dirty => dirty'
       /\ wake => wake'
       /\ resumed # {} => wake' \/ access # "IDLE"
  BY <1>1, <1>4 DEF TypeInv, AccessAt
<1>12. TypeInv'
  BY <1>1, <1>5, <1>10, <1>11 DEF TypeInv, route
<1>13. Fresh'
  <2> SUFFICES ASSUME NEW m \in Messages, outcome'[m] = "none" PROVE ~copy'[m].in
    BY DEF Fresh
  <2>1. m \notin expired /\ m \notin errors /\ outcome[m] = "none"
    BY <1>4
  <2>2. ~copy[m].in /\ m \notin resumed
    BY <1>1, <1>3, <1>7, <2>1 DEF Fresh
  <2> QED BY <1>8, <2>1, <2>2
<1>14. ASSUME NEW m \in Messages, copy'[m].in, copy'[m].wait
       PROVE  Timed(m)'
  <2>1. m \notin expired
    BY <1>8, <1>14 DEF NoCopy
  <2>2. m \notin resumed
    <3> SUFFICES ASSUME m \in resumed PROVE FALSE
      OBVIOUS
    <3> QED BY <1>3, <1>6, <1>8, <1>14, <2>1
  <2>3. CASE m \in errors
    <3>1. parent = NoHop
      BY <1>6, <1>8, <1>14, <2>1, <2>3
    <3> QED BY <1>4, <1>9, <2>3, <3>1 DEF Timed
  <2>4. CASE m \notin errors
    <3>1. copy'[m] = copy[m] /\ slot'[m] = slot[m]
      BY <1>8, <1>9, <2>1, <2>2, <2>4
    <3>2. Timed(m)
      BY <1>1, <1>14, <3>1 DEF NothingForgotten, Queued, Timed
    <3>3. CASE slot[m].state = "HELD"
      <4>1. m \in Held /\ Held # expired
        BY <1>7, <1>14, <2>1, <3>1, <3>3
      <4>2. parent = NoHop
        BY <1>3, <2>1, <2>2, <4>1
      <4> QED BY <1>4, <3>1, <3>3, <4>1, <4>2 DEF Timed
    <3>4. CASE slot[m].state # "HELD"
      BY <3>1, <3>2, <3>4 DEF Timed
    <3> QED BY <3>3, <3>4
  <2> QED BY <2>3, <2>4
<1>15. ASSUME NEW m \in Messages, copy'[m].in, ~copy'[m].wait
       PROVE  (copy[m].in /\ ~copy[m].wait) \/ access' # "IDLE" \/ dirty' \/ wake'
  <2>1. m \notin expired
    BY <1>8, <1>15 DEF NoCopy
  <2>2. CASE m \in resumed
    BY <1>5, <1>11, <2>2
  <2>3. CASE m \in errors
    BY <1>4, <2>3
  <2>4. CASE m \notin resumed /\ m \notin errors
    BY <1>8, <1>15, <2>1, <2>4
  <2> QED BY <2>2, <2>3, <2>4
<1>16. NothingForgotten'
  BY <1>1, <1>5, <1>10, <1>11, <1>14, <1>15, Remembered
<1>17. SamplesInv' /\ FailsStep
  BY <1>1, <1>5, <1>9, <1>10, SlotsFollow
<1>18. QED
  BY <1>12, <1>13, <1>16, <1>17 DEF Kept, IInv

------------------------------------------------------------------------------
(* Acknowledgements. *)

\* The samples the messages A may give are a number, and none when each was sampled.
LEMMA SamplesType ==
  ASSUME NEW A \in SUBSET Messages, NEW c, NEW n \in Samples(A, c)
  PROVE  /\ n \in Nat
         /\ {m \in A : slot[m].ctr = c /\ ~slot[m].sampled} = {} => n = 0
<1> DEFINE unsampled == {m \in A : slot[m].ctr = c /\ ~slot[m].sampled}
           pending == {m \in unsampled : slot[m].state = "PENDING"}
           others == Cardinality(unsampled \ pending)
<1>1. n \in IF pending = {} THEN {others} ELSE IF others = 0 THEN {1} ELSE {others, others + 1}
  BY DEF Samples
<1>2. others \in Nat
  <2>1. unsampled \ pending \subseteq Messages
    OBVIOUS
  <2>2. IsFiniteSet(unsampled \ pending)
    BY <2>1, ClassOneAssumption, FS_Subset
  <2> QED BY <2>2, FS_CardinalityType
<1>3. unsampled = {} => pending = {} /\ others = 0
  BY FS_EmptySet
<1> HIDE DEF others, pending
<1>4. QED
  BY <1>1, <1>2, <1>3

\* The messages acknowledged leave the queue with their samples, and the others of the
\* frame may charge it with no failure any more.
LEMMA AcknowledgedKeeps ==
  ASSUME IInv, NEW A \in SUBSET Messages, NEW c \in DOMAIN frames,
         Acknowledged(A, c, frames[c].dest = Root)
  PROVE  Kept
<1>1. TypeInv /\ Fresh /\ NothingForgotten /\ SamplesInv
  BY DEF IInv
<1> DEFINE late == frames[c].dest = Root
           decided == IF late /\ c \in undecided THEN 1 ELSE 0
           spared == UNION {SameFrame(m) : m \in {k \in A : slot[k].ctr = c /\ ~slot[k].sampled}}
<1>2. PICK n \in Samples(A, c) : frames' = Success(frames, c, n + decided)
  BY DEF Acknowledged
<1>3. /\ undecided' = IF late THEN undecided \ {c} ELSE undecided
      /\ copy' = [m \in Messages |-> IF m \in A THEN NoCopy ELSE copy[m]]
      /\ slot' = [m \in Messages |-> IF m \in A THEN Cleared
                                     ELSE IF m \in spared THEN [slot[m] EXCEPT !.sampled = TRUE]
                                     ELSE slot[m]]
      /\ outcome' = [m \in Messages |-> IF m \in A \cap Queued THEN "acked" ELSE outcome[m]]
      /\ stepping' = TRUE
      /\ UNCHANGED <<route, poll, path>>
  BY DEF Acknowledged
<1>4. n + decided \in Nat
  BY SamplesType
<1>5. frames \in Seq(Frames) /\ DOMAIN frames = 1 .. Len(frames) /\ Len(frames) \in Nat
  BY <1>1 DEF TypeInv
<1>6. /\ frames' \in Seq(Frames) /\ DOMAIN frames' = DOMAIN frames /\ Len(frames') = Len(frames)
      /\ \A k \in DOMAIN frames :
           /\ frames'[k].dest = frames[k].dest /\ frames'[k].failed = frames[k].failed
           /\ frames'[k].acked = frames[k].acked + IF k = c THEN n + decided ELSE 0
  <2> HIDE DEF decided
  <2>1. ASSUME NEW x \in Nat
        PROVE  LET g == Success(frames, c, x) IN
               /\ g \in Seq(Frames) /\ DOMAIN g = DOMAIN frames /\ Len(g) = Len(frames)
               /\ \A k \in DOMAIN frames :
                    /\ g[k].dest = frames[k].dest /\ g[k].failed = frames[k].failed
                    /\ g[k].acked = frames[k].acked + IF k = c THEN x ELSE 0
    <3>1. frames \in Seq(Frames) /\ c \in DOMAIN frames
      BY <1>5
    <3> HIDE <1>5
    <3> QED BY <3>1, SuccessAt
  <2> QED BY <1>2, <1>4, <2>1
<1>7. ASSUME NEW m \in Messages
      PROVE  /\ slot'[m] \in Slots /\ Follows(slot[m], slot'[m])
             /\ m \notin A => slot'[m].state = slot[m].state /\ slot'[m].due = slot[m].due
             /\ m \in A => slot'[m].state = "IDLE"
             /\ m \in spared => slot'[m].state = "IDLE" \/ slot'[m].sampled
  <2>1. slot[m] \in Slots
    BY <1>1 DEF TypeInv
  <2> DEFINE i == [slot[m] EXCEPT !.sampled = TRUE]
  <2>2. /\ i \in Slots /\ i.ctr = slot[m].ctr /\ i.hop = slot[m].hop /\ i.key = slot[m].key
        /\ i.state = slot[m].state /\ i.due = slot[m].due /\ i.sampled
    BY <2>1 DEF Slots
  <2>3. Follows(slot[m], i)
    BY <2>2 DEF Follows
  <2>4. Cleared \in Slots /\ Follows(slot[m], Cleared) /\ Cleared.state = "IDLE"
    BY ConstantTypes DEF Follows, Cleared
  <2>5. slot'[m] = IF m \in A THEN Cleared ELSE IF m \in spared THEN i ELSE slot[m]
    BY <1>3
  <2> HIDE DEF i, spared
  <2> QED BY <2>1, <2>2, <2>3, <2>4, <2>5, FollowsItself
<1>8. copy' \in [Messages -> Copies] /\ slot' \in [Messages -> Slots]
  <2>1. copy' \in [Messages -> Copies]
    BY <1>1, <1>3, ConstantTypes DEF TypeInv
  <2>2. slot' \in [Messages -> Slots]
    BY <1>3, <1>7
  <2> QED BY <2>1, <2>2
<1>9. outcome' \in [Messages -> {"none", "queued", "acked", "failed", "dropped"}]
  BY <1>1, <1>3 DEF TypeInv
<1>10. TypeInv'
  <2>1. undecided' \in SUBSET Nat
    BY <1>1, <1>3 DEF TypeInv
  <2> QED BY <1>1, <1>3, <1>6, <1>8, <1>9, <2>1 DEF TypeInv, route, path
<1>11. \A m \in Messages : copy'[m] = IF m \in A THEN NoCopy ELSE copy[m]
  BY <1>3
<1>12. Fresh'
  <2> SUFFICES ASSUME NEW m \in Messages, outcome'[m] = "none" PROVE ~copy'[m].in
    BY DEF Fresh
  <2>1. outcome[m] = "none"
    BY <1>3
  <2> QED BY <1>1, <1>11, <2>1 DEF Fresh, NoCopy
<1>13. ASSUME NEW m \in Messages PROVE copy'[m].in /\ copy'[m].wait => Timed(m)'
  <2>1. CASE m \in A
    BY <1>11, <2>1 DEF NoCopy
  <2>2. CASE m \notin A
    <3>1. copy[m].in /\ copy[m].wait => Timed(m)
      BY <1>1 DEF NothingForgotten, Queued, Timed
    <3> QED BY <1>3, <1>7, <1>11, <2>2, <3>1 DEF Timed
  <2> QED BY <2>1, <2>2
<1>14. \A m \in Messages : copy'[m].in /\ ~copy'[m].wait => copy[m].in /\ ~copy[m].wait
  BY <1>11 DEF NoCopy
<1>15. NothingForgotten'
  BY <1>1, <1>3, <1>8, <1>13, <1>14, Remembered DEF path
<1>16. FailsStep
  BY <1>6 DEF FailsStep
<1>17. ASSUME NEW k \in Messages, Open(k)'
       PROVE  /\ Open(k) /\ slot'[k].ctr = slot[k].ctr
              /\ slot[k].ctr = c => n + decided = 0
  <2>1. k \notin A /\ k \notin spared
    BY <1>7, <1>17 DEF Open
  <2>2. Open(k) /\ slot'[k].ctr = slot[k].ctr
    BY <1>3, <2>1, <1>17 DEF Open
  <2>3. ASSUME slot[k].ctr = c PROVE n + decided = 0
    <3>1. c \notin undecided
      BY <1>1, <2>2, <2>3 DEF SamplesInv
    <3>2. ASSUME NEW m \in A, slot[m].ctr = c, ~slot[m].sampled PROVE FALSE
      <4>1. slot[m].hop = slot[k].hop
        <5>1. c # 0 /\ m \in Messages
          BY <1>5
        <5> QED BY <1>1, <2>3, <3>2, <5>1 DEF SamplesInv
      <4>2. k \in SameFrame(m)
        BY <2>1, <2>2, <2>3, <3>2, <4>1 DEF SameFrame, Open
      <4> QED BY <2>1, <3>2, <4>2
    <3>3. {m \in A : slot[m].ctr = c /\ ~slot[m].sampled} = {}
      BY <3>2
    <3>4. n = 0
      BY <3>3, SamplesType
    <3> QED BY <3>1, <3>4
  <2> QED BY <2>2, <2>3
<1> HIDE DEF decided, spared
<1>18. ASSUME NEW k \in DOMAIN frames, Unsampled(k), k = c => n + decided = 0
       PROVE  Unsampled(k)'
  BY <1>6, <1>18 DEF Unsampled
<1>19. ASSUME NEW m \in Messages
       PROVE  /\ slot'[m].ctr <= Len(frames')
              /\ slot'[m].ctr # 0 => frames'[slot'[m].ctr].dest = slot'[m].hop
              /\ slot'[m].state = "PENDING" \/ slot'[m].key => slot'[m].ctr # 0
              /\ Open(m)' => Unsampled(slot[m].ctr)'
  <2>1. Follows(slot[m], slot'[m])
    BY <1>7
  <2>2. /\ slot[m].ctr <= Len(frames)
        /\ slot[m].ctr # 0 => frames[slot[m].ctr].dest = slot[m].hop
        /\ slot[m].state = "PENDING" \/ slot[m].key => slot[m].ctr # 0
        /\ Open(m) => Unsampled(slot[m].ctr)
    BY <1>1 DEF SamplesInv
  <2>3. slot[m].ctr \in Nat
    BY <1>1 DEF TypeInv, Slots
  <2>4. slot[m].ctr # 0 => slot[m].ctr \in DOMAIN frames
    BY <1>5, <2>2, <2>3
  <2>5. slot'[m].ctr <= Len(frames')
    BY <1>5, <1>6, <2>1, <2>2 DEF Follows
  <2>6. slot'[m].ctr # 0 => frames'[slot'[m].ctr].dest = slot'[m].hop
    BY <1>6, <2>1, <2>2, <2>4 DEF Follows
  <2>7. slot'[m].state = "PENDING" \/ slot'[m].key => slot'[m].ctr # 0
    BY <2>1, <2>2 DEF Follows
  <2>8. ASSUME Open(m)' PROVE Unsampled(slot[m].ctr)'
    <3>1. /\ Unsampled(slot[m].ctr) /\ slot[m].ctr \in DOMAIN frames
          /\ slot[m].ctr = c => n + decided = 0
          /\ slot'[m].ctr = slot[m].ctr
      BY <1>17, <2>2, <2>4, <2>8 DEF Open
    <3>2. frames'[slot[m].ctr].failed = 0 /\ frames'[slot[m].ctr].acked = 0
      BY <1>18, <3>1 DEF Unsampled
    <3> QED BY <3>1, <3>2 DEF Unsampled
  <2> QED BY <2>5, <2>6, <2>7, <2>8
<1>20. ASSUME NEW k \in undecided'
       PROVE  /\ k \in DOMAIN frames' /\ frames'[k].dest = Root /\ Unsampled(k)'
              /\ \A m \in Messages : Open(m)' => slot'[m].ctr # k
  <2>1. k \in undecided
    BY <1>3
  <2>2. /\ k \in DOMAIN frames /\ frames[k].dest = Root /\ Unsampled(k)
        /\ \A m \in Messages : Open(m) => slot[m].ctr # k
    BY <1>1, <2>1 DEF SamplesInv
  <2>3. k # c
    BY <1>3, <2>2
  <2>4. \A m \in Messages : Open(m)' => slot'[m].ctr # k
    BY <1>17, <2>2
  <2> QED BY <1>6, <1>18, <2>2, <2>3, <2>4
<1>21. SamplesInv'
  BY <1>19, <1>20 DEF SamplesInv
<1>22. QED
  BY <1>10, <1>12, <1>15, <1>16, <1>21 DEF Kept, IInv

\* The acknowledgement of a next hop is of one of the frames sent, and so is what is
\* overheard of a message.
LEMMA AckKeeps ==
  ASSUME IInv,
         (\E c \in DOMAIN frames : OnAck(c)) \/ (\E m \in Messages : Overheard(m))
  PROVE  Kept
<1>1. ASSUME NEW c \in DOMAIN frames, OnAck(c) PROVE Kept
  <2> DEFINE A == IF frames[c].dest = Root THEN {m \in Queued : c \in slot[m].late}
                  ELSE {m \in Messages : slot[m].state = "PENDING" /\ slot[m].ctr = c
                                         /\ slot[m].hop = frames[c].dest}
  <2>1. A \in SUBSET Messages
    BY DEF Queued
  <2>2. Acknowledged(A, c, frames[c].dest = Root)
    BY <1>1 DEF OnAck
  <2> HIDE DEF A
  <2> QED BY <2>1, <2>2, AcknowledgedKeeps
<1>2. ASSUME NEW m \in Messages, Overheard(m) PROVE Kept
  <2>1. slot[m].key /\ Acknowledged({m}, slot[m].ctr, slot[m].hop = Root)
    BY <1>2 DEF Overheard
  <2>2. /\ slot[m].ctr <= Len(frames) /\ slot[m].ctr \in Nat /\ Len(frames) \in Nat
        /\ slot[m].ctr # 0 /\ frames[slot[m].ctr].dest = slot[m].hop
        /\ DOMAIN frames = 1 .. Len(frames)
    BY <2>1 DEF IInv, SamplesInv, TypeInv, Slots
  <2>3. slot[m].ctr \in DOMAIN frames
    BY <2>2
  <2>4. Acknowledged({m}, slot[m].ctr, frames[slot[m].ctr].dest = Root)
    BY <2>1, <2>2
  <2> QED BY <2>3, <2>4, AcknowledgedKeeps
<1>3. QED
  BY <1>1, <1>2

------------------------------------------------------------------------------
(* Transmissions. *)

\* The frame goes on air: its messages still queued wait for its acknowledgement, and it
\* has no sample yet.
LEMMA TransmitKeeps ==
  ASSUME IInv, Transmit
  PROVE  Kept
<1>1. TypeInv /\ Fresh /\ NothingForgotten /\ SamplesInv
  BY DEF IInv
<1> DEFINE c == Len(frames) + 1
           on == sel.messages \cap Queued
           frame == [dest |-> sel.dest, messages |-> sel.messages, acked |-> 0, failed |-> 0]
           sent(m) == [state |-> "PENDING", hop |-> sel.dest, ctr |-> c, sampled |-> FALSE,
                       due |-> TRUE, key |-> TRUE,
                       late |-> IF sel.dest = Root THEN Recorded(slot[m].late, c)
                                ELSE slot[m].late]
<1>2. /\ slot' = [m \in Messages |-> IF m \notin on THEN slot[m] ELSE sent(m)]
      /\ copy' = [m \in Messages |->
                    IF m \in on \cap Ready
                    THEN [copy[m] EXCEPT !.wait = TRUE, !.attempts = @ + 1] ELSE copy[m]]
      /\ frames' = Append(frames, frame)
      /\ access' = "TRANSMITTING" /\ sel' = NoFrame /\ stepping' = TRUE
      /\ UNCHANGED <<route, poll, undecided, dirty, wake, outcome>>
  BY DEF Transmit, Sent
<1>3. /\ frames \in Seq(Frames) /\ Len(frames) \in Nat /\ DOMAIN frames = 1 .. Len(frames)
      /\ sel.dest \in Hops \cup {NoHop} /\ sel.messages \subseteq Messages
  BY <1>1 DEF TypeInv
<1>4. frame \in Frames /\ frame.dest = sel.dest /\ frame.acked = 0 /\ frame.failed = 0
  BY <1>3 DEF Frames
<1>5. /\ frames' \in Seq(Frames) /\ Len(frames') = c /\ DOMAIN frames' = 1 .. c
      /\ frames'[c] = frame /\ \A k \in DOMAIN frames : frames'[k] = frames[k]
  <2> HIDE DEF frame
  <2>1. frames' \in Seq(Frames) /\ Len(frames') = Len(frames) + 1
    BY <1>2, <1>3, <1>4, AppendProperties
  <2>2. (\A k \in 1 .. Len(frames) : frames'[k] = frames[k]) /\ frames'[Len(frames) + 1] = frame
    <3>1. frames' = Append(frames, frame)
      BY <1>2
    <3>2. \A k \in 1 .. Len(frames) : Append(frames, frame)[k] = frames[k]
      BY <1>3, <1>4, AppendProperties
    <3>3. Append(frames, frame)[Len(frames) + 1] = frame
      BY <1>3, <1>4, AppendProperties
    <3> QED BY <3>1, <3>2, <3>3
  <2>3. DOMAIN frames' = 1 .. c
    BY <2>1
  <2> QED BY <1>3, <2>1, <2>2, <2>3
<1>6. ASSUME NEW m \in Messages
      PROVE  /\ sent(m) \in Slots /\ sent(m).state = "PENDING" /\ sent(m).hop = sel.dest
             /\ sent(m).ctr = c /\ sent(m).sampled = FALSE /\ sent(m).due = TRUE
  <2>1. slot[m].late \in SUBSET Nat
    BY <1>1 DEF TypeInv, Slots
  <2>2. Recorded(slot[m].late, c) \in SUBSET Nat
    BY <1>3, <2>1 DEF Recorded
  <2> QED BY <1>3, <2>1, <2>2 DEF Slots, States
<1>7. ASSUME NEW m \in Messages
      PROVE  /\ copy'[m] \in Copies /\ copy'[m].in = copy[m].in
             /\ copy[m].in /\ copy'[m].wait => copy[m].wait \/ m \in on
             /\ m \in on => copy[m].in /\ copy'[m].wait
  <2>1. copy[m] \in Copies
    BY <1>1 DEF TypeInv
  <2>2. copy[m].attempts + 1 \in Nat
    BY <2>1 DEF Copies
  <2> DEFINE d == [copy[m] EXCEPT !.wait = TRUE, !.attempts = @ + 1]
  <2>3. d \in Copies /\ d.in = copy[m].in /\ d.wait = TRUE
    BY <2>1, <2>2 DEF Copies
  <2>4. copy'[m] = IF m \in on \cap Ready THEN d ELSE copy[m]
    BY <1>2
  <2>5. m \in on => copy[m].in /\ (m \in Ready \/ copy[m].wait)
    BY DEF Queued, Ready
  <2> HIDE DEF d, on
  <2> QED BY <2>1, <2>3, <2>4, <2>5
<1>8. \A m \in Messages : slot'[m] = IF m \in on THEN sent(m) ELSE slot[m]
  BY <1>2
<1> HIDE DEF on, sent, frame
<1>9. copy' \in [Messages -> Copies] /\ slot' \in [Messages -> Slots]
  <2>1. copy' \in [Messages -> Copies]
    BY <1>2, <1>7
  <2>2. slot' \in [Messages -> Slots]
    BY <1>1, <1>2, <1>6 DEF TypeInv
  <2> QED BY <2>1, <2>2
<1>10. TypeInv'
  <2>1. NoFrame \in [dest : Hops \cup {NoHop}, messages : SUBSET Messages]
    BY DEF NoFrame
  <2> QED BY <1>1, <1>2, <1>5, <1>9, <2>1 DEF TypeInv, route
<1>11. Fresh'
  BY <1>1, <1>2, <1>7 DEF Fresh
<1>12. ASSUME NEW m \in Messages, copy'[m].in, copy'[m].wait PROVE Timed(m)'
  <2>1. CASE m \in on
    BY <1>6, <1>8, <2>1 DEF Timed
  <2>2. CASE m \notin on
    <3>1. copy[m].in /\ copy[m].wait
      BY <1>7, <1>12, <2>2
    <3>2. Timed(m)
      BY <1>1, <3>1 DEF NothingForgotten, Queued, Timed
    <3> QED BY <1>2, <1>8, <2>2, <3>2 DEF Timed
  <2> QED BY <2>1, <2>2
<1>13. NothingForgotten'
  BY <1>2, <1>12 DEF NothingForgotten, Queued, Timed
<1>14. FailsStep
  BY <1>5 DEF FailsStep
<1>15. ASSUME NEW m \in Messages
       PROVE  /\ slot'[m].ctr <= Len(frames')
              /\ slot'[m].ctr # 0 => frames'[slot'[m].ctr].dest = slot'[m].hop
              /\ slot'[m].state = "PENDING" \/ slot'[m].key => slot'[m].ctr # 0
              /\ Open(m)' => Unsampled(slot[m].ctr)'
  <2>1. CASE m \in on
    <3>1. slot'[m].ctr = c /\ slot'[m].hop = sel.dest
      BY <1>6, <1>8, <2>1
    <3>2. c # 0 /\ c <= Len(frames')
      BY <1>3, <1>5
    <3>3. frames'[c].dest = sel.dest /\ frames'[c].failed = 0 /\ frames'[c].acked = 0
      BY <1>4, <1>5
    <3> HIDE DEF c
    <3> QED BY <3>1, <3>2, <3>3 DEF Unsampled
  <2>2. CASE m \notin on
    <3>1. slot'[m] = slot[m]
      BY <1>8, <2>2
    <3>2. /\ slot[m].ctr <= Len(frames) /\ slot[m].ctr \in Nat
          /\ slot[m].ctr # 0 => frames[slot[m].ctr].dest = slot[m].hop
          /\ slot[m].state = "PENDING" \/ slot[m].key => slot[m].ctr # 0
          /\ Open(m) => Unsampled(slot[m].ctr)
      BY <1>1 DEF SamplesInv, TypeInv, Slots
    <3>3. slot[m].ctr <= Len(frames')
      BY <1>3, <1>5, <3>2
    <3>4. slot[m].ctr # 0 => frames'[slot[m].ctr] = frames[slot[m].ctr]
      BY <1>3, <1>5, <3>2
    <3>5. Open(m)' => Open(m) /\ slot[m].ctr # 0
      BY <3>1, <3>2 DEF Open
    <3> QED BY <3>1, <3>2, <3>3, <3>4, <3>5 DEF Unsampled
  <2> QED BY <2>1, <2>2
<1>16. ASSUME NEW k \in undecided'
       PROVE  /\ k \in DOMAIN frames' /\ frames'[k].dest = Root /\ Unsampled(k)'
              /\ \A m \in Messages : Open(m)' => slot'[m].ctr # k
  <2>1. /\ k \in DOMAIN frames /\ frames[k].dest = Root /\ Unsampled(k)
        /\ \A m \in Messages : Open(m) => slot[m].ctr # k
    BY <1>1, <1>2 DEF SamplesInv
  <2>2. k \in DOMAIN frames' /\ frames'[k] = frames[k] /\ k # c
    BY <1>3, <1>5, <2>1
  <2>3. ASSUME NEW m \in Messages, Open(m)' PROVE slot'[m].ctr # k
    BY <1>6, <1>8, <2>1, <2>2, <2>3 DEF Open
  <2> QED BY <2>1, <2>2, <2>3 DEF Unsampled
<1>17. SamplesInv'
  BY <1>15, <1>16 DEF SamplesInv
<1>18. QED
  BY <1>10, <1>11, <1>13, <1>14, <1>17 DEF Kept, IInv

------------------------------------------------------------------------------
(* The theorems. *)

\* The invariant holds initially.
LEMMA InitIInv == Init => IInv
<1> SUFFICES ASSUME Init PROVE IInv
  OBVIOUS
<1>1. /\ parent = NoHop /\ changed = FALSE /\ copy = [m \in Messages |-> NoCopy]
      /\ slot = [m \in Messages |-> Cleared] /\ poll = FALSE /\ undecided = {}
      /\ access = "IDLE" /\ sel = NoFrame /\ dirty = FALSE /\ wake = FALSE
      /\ stepping = FALSE /\ frames = <<>> /\ outcome = [m \in Messages |-> "none"]
  BY DEF Init
<1>2. TypeInv
  <2>1. NoFrame \in [dest : Hops \cup {NoHop}, messages : SUBSET Messages]
    BY DEF NoFrame
  <2>2. frames \in Seq(Frames)
    BY <1>1
  <2>3. copy \in [Messages -> Copies] /\ slot \in [Messages -> Slots]
    BY <1>1, ConstantTypes
  <2>4. outcome \in [Messages -> {"none", "queued", "acked", "failed", "dropped"}]
    BY <1>1
  <2> QED BY <1>1, <2>1, <2>2, <2>3, <2>4 DEF TypeInv
<1>3. Fresh /\ NothingForgotten
  BY <1>1 DEF Fresh, NothingForgotten, Queued, Ready, NoCopy
<1>4. SamplesInv
  BY <1>1 DEF SamplesInv, Cleared, Open
<1>5. QED
  BY <1>2, <1>3, <1>4 DEF IInv

\* Every step keeps it, and charges a failure to no frame that has a sample.
LEMMA NextKeeps ==
  ASSUME IInv, [Next]_vars
  PROVE  Kept
<1>1. CASE UNCHANGED vars
  <2>1. TypeInv'
    BY <1>1 DEF IInv, TypeInv, vars, route, reliable, path
  <2>2. Ready # {} => access' # "IDLE" \/ dirty' \/ wake'
    BY <1>1 DEF IInv, NothingForgotten, vars, path
  <2>3. access' = "BACKOFF" => wake'
    BY <1>1 DEF IInv, NothingForgotten, vars, path
  <2> QED BY <1>1, <2>1, <2>2, <2>3, QueueUntouched DEF vars
<1>2. CASE Next
  <2>1. CASE Event
    <3>1. CASE Step \/ ChannelBusy \/ TxDone
      BY <3>1, IdleKeeps
    <3>2. ASSUME NEW m \in Messages, Submit(m) PROVE Kept
      BY <3>2, SubmitKeeps
    <3>3. CASE (\E c \in DOMAIN frames : OnAck(c)) \/ (\E m \in Messages : Overheard(m))
      BY <3>3, AckKeeps
    <3>4. CASE Transmit
      BY <3>4, TransmitKeeps
    <3> QED BY <2>1, <3>1, <3>2, <3>3, <3>4 DEF Event
  <2>2. CASE Timers
    <3>1. ASSUME NEW m \in Messages, DelayOver(m) PROVE Kept
      BY <3>1, DelayOverKeeps
    <3>2. ASSUME NEW m \in Messages, LateOver(m) PROVE Kept
      BY <3>2, LateOverKeeps
    <3>3. ASSUME NEW m \in Messages, AckTimeout(m) PROVE Kept
      BY <3>3, AckTimeoutKeeps
    <3>4. ASSUME NEW m \in Messages, Forget(m) PROVE Kept
      BY <3>4, ForgetKeeps
    <3>5. ASSUME NEW c \in undecided, Decide(c) PROVE Kept
      BY <3>5, DecideKeeps
    <3>6. CASE ResumeHeld
      BY <3>6, ResumeHeldKeeps
    <3>7. CASE Apply \/ \E p \in Hops \cup {NoHop} : NewParent(p)
      BY <3>7, ParentKeeps
    <3> QED BY <2>2, <3>1, <3>2, <3>3, <3>4, <3>5, <3>6, <3>7 DEF Timers
  <2>3. CASE Rest
    BY <2>3, IdleKeeps
  <2>4. CASE Access
    BY <2>4, AccessKeeps
  <2> QED BY <1>2, <2>1, <2>2, <2>3, <2>4 DEF Next
<1>3. QED
  BY <1>1, <1>2

\* No message is forgotten in the queue (reliable.py, link.py: every wait is timed, and
\* the transmit path runs whenever a message is ready), whatever the number of messages,
\* of next hops, of attempts and of frames.
THEOREM Attended == Spec => []NothingForgotten
<1>1. Init => IInv
  BY InitIInv
<1>2. IInv /\ [Next]_vars => IInv'
  BY NextKeeps DEF Kept
<1>3. IInv => NothingForgotten
  BY DEF IInv
<1>4. QED
  BY <1>1, <1>2, <1>3, PTL DEF Spec

\* A frame fails at most once, and not once acknowledged (reliable.py 23-28 and 61-65:
\* its messages time out, are held or retried each on its own).
THEOREM FailedOnce == Spec => FailsOnce
<1>1. Init => IInv
  BY InitIInv
<1>2. IInv /\ [Next]_vars => IInv'
  BY NextKeeps DEF Kept
<1>3. IInv /\ [Next]_vars =>
        [\A c \in DOMAIN frames :
           frames'[c].failed # frames[c].failed =>
             frames[c].failed = 0 /\ frames[c].acked = 0 /\ frames'[c].failed = 1]_vars
  BY NextKeeps DEF Kept, FailsStep
<1>4. QED
  BY <1>1, <1>2, <1>3, PTL DEF Spec, FailsOnce
==============================================================================
