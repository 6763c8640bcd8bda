-------------------------------- MODULE Chain --------------------------------
(***************************************************************************)
(* Class 1 messages from node to node: the receive path of mesh/link.py,   *)
(* the duplicate cache, the custody rules and the acknowledgements of      *)
(* mesh/reliable.py, over the queues of several nodes and frames that are  *)
(* received, overheard or lost.                                            *)
(*                                                                         *)
(* Left open: the next hop of each frame, which routing may change at any  *)
(* step, so that messages meet loops; when a timer is due; after how many  *)
(* attempts a hop is given up (module ClassOneSender).  An acknowledgement *)
(* in a queue, in the batch of the root or on air is in `acks` until it    *)
(* arrives, or for ever when it is lost.                                   *)
(***************************************************************************)
EXTENDS Integers, FiniteSets, SequencesExt

CONSTANTS
  Nodes, Root,
  Messages,   \* upward messages,
  Origin,     \* all submitted by this node
  None,
  QUEUE,      \* slots of a queue
  CACHE,      \* entries of a duplicate cache (128)
  MAX_FRAMES  \* bound: frames sent

ASSUME ChainAssumption ==
  /\ Root \in Nodes /\ Origin \in Nodes \ {Root}
  /\ QUEUE \in Nat \ {0} /\ CACHE \in Nat \ {0} /\ MAX_FRAMES \in Nat

VARIABLES
  routed,      \* nodes with a next hop
  queue,       \* slots of each node: None or an entry
  cache,       \* duplicate cache of each node: its ring of keys, and the next place
  sent,        \* frames sent; the counter of a frame is its number
  air,         \* last one, while there are nodes `to` which it will come, or None
  acks,        \* explicit acknowledgements under way: [by, to, ctr]
  submitted,   \* history: messages submitted,
  deliveries,  \* delivered by the root, in order,
  failed,      \* failed at some node,
  aged         \* ignored in the root's cache for their age

vars == <<routed, queue, cache, sent, air, acks, submitted, deliveries, failed, aged>>
history == <<submitted, deliveries, failed, aged>>

Slots == 1 .. QUEUE

\* sent, ctr: hop and counter of the last frame; key: in the index of the passive
\* acknowledgements; owed: the frame it came in, to be acknowledged; late: counters
\* of its frames to the root.
Entry(m, hop, owed) ==
  [msg |-> m, state |-> IF hop THEN "IDLE" ELSE "HELD", sent |-> None, ctr |-> 0,
   key |-> FALSE, owed |-> IF hop THEN owed ELSE None, late |-> {}]

\* What a slot may hold, and a frame on air.
Entries ==
  [msg : Messages, state : {"IDLE", "PENDING", "HELD", "LATE"}, sent : Nodes \cup {None},
   ctr : Nat, key : BOOLEAN, owed : {None} \cup [source : Nodes, ctr : Nat], late : SUBSET Nat]
Frames ==
  [source : Nodes, ctr : Nat \ {0}, dest : Nodes, to : SUBSET Nodes, messages : Seq(Messages)]

ASSUME NoneAssumption ==
  None \notin Messages /\ None \notin Entries /\ None \notin [source : Nodes, ctr : Nat]

Init ==
  /\ routed \in SUBSET (Nodes \ {Root})
  /\ queue = [n \in Nodes |-> [s \in Slots |-> None]]
  /\ cache = [n \in Nodes |-> [keys |-> [i \in 1 .. CACHE |-> None], next |-> 1]]
  /\ sent = 0 /\ air = None /\ acks = {}
  /\ submitted = {} /\ deliveries = <<>> /\ failed = {} /\ aged = {}

------------------------------------------------------------------------------
(* Queue and cache. *)

Used(q) == {s \in Slots : q[s] # None}
Full(q) == Used(q) = Slots
Queued(q, e) == LET s == CHOOSE t \in Slots : q[t] = None IN [q EXCEPT ![s] = e]
Without(q, T) == [s \in Slots |-> IF s \in T THEN None ELSE q[s]]

\* A mutant of Holding: every copy counts.
HoldingAny(q, m, source) == \E s \in Used(q) : q[s].msg = m

\* holding: a copy of m, but for one that waits for the acknowledgement of source.
Holding(q, m, source) ==
  \E s \in Used(q) : q[s].msg = m /\ ~(q[s].state \in {"PENDING", "LATE"} /\ q[s].sent = source)

\* cancel_owed for the frame f.
Cancelled(q, f) ==
  [s \in Slots |-> IF q[s] # None /\ q[s].owed = f THEN [q[s] EXCEPT !.owed = None] ELSE q[s]]

\* DuplicateCache.seen: the keys in `old` are too old and deleted, the others count.
Pruned(c, old) ==
  [keys |-> [i \in DOMAIN c.keys |-> IF c.keys[i] \in old THEN None ELSE c.keys[i]], next |-> c.next]
Seen(c, m) == m \in Range(c.keys)

\* A mutant of Added: a full ring records nothing.
AddedWhenFree(c, m) ==
  IF Seen(c, m) \/ c.keys[c.next] # None THEN c
  ELSE [keys |-> [c.keys EXCEPT ![c.next] = m], next |-> (c.next % CACHE) + 1]

\* DuplicateCache.add: a key present keeps its place.
Added(c, m) ==
  IF Seen(c, m) THEN c
  ELSE [keys |-> [c.keys EXCEPT ![c.next] = m], next |-> (c.next % CACHE) + 1]

------------------------------------------------------------------------------
(* Sending. *)

\* submit: queued, or held without next hop.
Submit(m) ==
  /\ m \notin submitted /\ ~Full(queue[Origin])
  /\ submitted' = submitted \cup {m}
  /\ queue' = [queue EXCEPT ![Origin] = Queued(@, Entry(m, Origin \in routed, None))]
  /\ UNCHANGED <<routed, cache, sent, air, acks, deliveries, failed, aged>>

\* sent: the entries of the slots S wait for the acknowledgement of frame c; they
\* take the index of passive acknowledgements from other copies.
Sent(q, S, dest, c) ==
  [s \in Slots |->
     IF s \in S
       THEN [msg |-> q[s].msg, state |-> "PENDING", sent |-> dest, ctr |-> c, key |-> TRUE, owed |-> None,
             late |-> IF dest = Root THEN q[s].late \cup {c} ELSE q[s].late]
     ELSE IF q[s] # None /\ \E t \in S : q[t].msg = q[s].msg THEN [q[s] EXCEPT !.key = FALSE]
     ELSE q[s]]

\* The nodes that wait for a passive acknowledgement of n.
Waiting(n) == {k \in Nodes : \E s \in Used(queue[k]) : queue[k][s].key /\ queue[k][s].sent = n}

\* A frame of n to dest, with the ready messages of the slots S; the others of those that
\* would do something with it than `heard` miss it.
Transmit(n, dest, S, heard) ==
  /\ n \in routed /\ air = None /\ sent < MAX_FRAMES /\ sent' = sent + 1
  /\ \A s \in S : queue[n][s] # None /\ queue[n][s].state = "IDLE"
  /\ queue' = [queue EXCEPT ![n] = Sent(@, S, dest, sent + 1)]
  /\ LET order == SetToSeq(S)
     IN  air' = IF heard = {} THEN None
                ELSE [source |-> n, ctr |-> sent + 1, dest |-> dest, to |-> heard,
                      messages |-> [i \in DOMAIN order |-> queue[n][order[i]].msg]]
  /\ UNCHANGED <<routed, cache, acks, history>>

\* _timeout: retried, or sent to the next hop after failure; towards the root the
\* last attempt first waits for a late acknowledgement.
Timeout(n, s) ==
  /\ queue[n][s] # None
  /\ \E state \in {"IDLE", "LATE"} :
       /\ \/ queue[n][s].state = "PENDING" /\ (state = "LATE" => queue[n][s].sent = Root)
          \/ queue[n][s].state = "LATE" /\ state = "IDLE"
       /\ queue' = [queue EXCEPT ![n][s].state = state]
  /\ UNCHANGED <<routed, cache, sent, air, acks, history>>

\* A detach: every copy is held.
Detach(n) ==
  /\ n \in routed /\ routed' = routed \ {n}
  /\ queue' = [queue EXCEPT ![n] =
                 [s \in Slots |-> IF @[s] = None THEN None
                                  ELSE [@[s] EXCEPT !.state = "HELD", !.key = FALSE]]]
  /\ UNCHANGED <<cache, sent, air, acks, history>>

\* _resume_held, at a poll or at once when the node attaches again: the messages
\* held for too long fail, the others are sent again if there is a route.
ResumeHeld(n, expired, route) ==
  /\ n \notin routed
  /\ routed' = IF route THEN routed \cup {n} ELSE routed
  /\ \A s \in expired : queue[n][s] # None /\ queue[n][s].state = "HELD"
  /\ queue' = [queue EXCEPT ![n] =
                 [s \in Slots |-> IF s \in expired THEN None
                                  ELSE IF route /\ @[s] # None THEN [@[s] EXCEPT !.state = "IDLE"]
                                  ELSE @[s]]]
  /\ failed' = failed \cup {queue[n][s].msg : s \in expired}
  /\ UNCHANGED <<cache, sent, air, acks, submitted, deliveries, aged>>

------------------------------------------------------------------------------
(* Receiving. *)

\* The frame on air, as the receivers know it.
Frame == [source |-> air.source, ctr |-> air.ctr]

\* The node n has received it.
Heard(n) == IF air.to = {n} THEN None ELSE [air EXCEPT !.to = @ \ {n}]

\* acknowledge: one entry for the whole frame f, in place of those owed.
Acknowledge(n, f) == acks \cup {[by |-> n, to |-> f.source, ctr |-> f.ctr]}

\* _forward of the routing hooks: a message back at its origin through a loop, which
\* still has a copy.
CameBack(n, q, m, source) == n = Origin /\ Holding(q, m, source)

\* One message m of a frame for n, r being what became of the previous ones.
Accepted(n, r, m, refusing) ==
  LET source == air.source
      dup == Seen(r.cache, m)
      taken == [r EXCEPT !.cache = Added(@, m)]
  IN  IF dup /\ (n = Root \/ Holding(r.queue, m, source)) THEN [r EXCEPT !.ack = TRUE]
      ELSE IF n = Root
        THEN [taken EXCEPT !.ack = TRUE, !.delivered = Append(@, m)]
      ELSE IF CameBack(n, r.queue, m, source) THEN [taken EXCEPT !.ack = TRUE]
      ELSE IF Full(r.queue) \/ m \in refusing
        THEN [r EXCEPT !.refused = TRUE]
      ELSE [taken EXCEPT !.queue = Queued(@, Entry(m, n \in routed, Frame)),
                         !.ack = @ \/ dup \/ n \notin routed]

\* A frame with a message refused is not acknowledged, nor late.
Acked(r) == r.ack /\ ~r.refused

\* What becomes of the frame's messages at n, one after the other.
Received(n, old, refusing) ==
  LET r[i \in 0 .. Len(air.messages)] ==
        IF i = 0 THEN [queue |-> queue[n], cache |-> Pruned(cache[n], old),
                       ack |-> FALSE, refused |-> FALSE, delivered |-> deliveries]
        ELSE Accepted(n, r[i - 1], air.messages[i], refusing)
  IN  r[Len(air.messages)]

\* _receive: the last frame reaches its destination n.
Receive(n, old, refusing) ==
  LET r == Received(n, old, refusing)
  IN  /\ n = air.dest
      /\ old \cup refusing \subseteq Range(air.messages)
      /\ old \subseteq Range(cache[n].keys)
      /\ queue' = [queue EXCEPT ![n] = IF r.ack \/ r.refused THEN Cancelled(r.queue, Frame)
                                       ELSE r.queue]
      /\ cache' = [cache EXCEPT ![n] = r.cache]
      /\ acks' = IF Acked(r) THEN Acknowledge(n, Frame) ELSE acks
      /\ deliveries' = r.delivered
      /\ aged' = IF n = Root THEN aged \cup old ELSE aged
      /\ air' = Heard(n)
      /\ UNCHANGED <<routed, sent, submitted, failed>>

\* overheard: the next hop forwards messages that n has sent to it.
Overhear(n) ==
  /\ n # air.dest
  /\ queue' = [queue EXCEPT ![n] =
                 Without(@, {s \in Used(@) : @[s].key /\ @[s].sent = air.source
                                             /\ @[s].msg \in Range(air.messages)})]
  /\ air' = Heard(n)
  /\ UNCHANGED <<routed, cache, sent, acks, history>>

\* tick: an acknowledgement owed for a message still queued is due.
OweDue(n, s) ==
  /\ queue[n][s] # None /\ queue[n][s].owed # None
  /\ acks' = Acknowledge(n, queue[n][s].owed)
  /\ queue' = [queue EXCEPT ![n] = Cancelled(@, queue[n][s].owed)]
  /\ UNCHANGED <<routed, cache, sent, air, history>>

\* The slots an acknowledgement releases: the root's whatever their state, those
\* pending since that frame otherwise.
AckedSlots(q, a) ==
  IF a.by = Root THEN {s \in Used(q) : a.ctr \in q[s].late}
  ELSE {s \in Used(q) : q[s].state = "PENDING" /\ q[s].ctr = a.ctr /\ q[s].sent = a.by}

\* on_ack.
OnAck(a) ==
  /\ a \in acks /\ acks' = acks \ {a}
  /\ queue' = [queue EXCEPT ![a.to] = Without(@, AckedSlots(@, a))]
  /\ UNCHANGED <<routed, cache, sent, air, history>>

Next ==
  \/ \E m \in Messages : Submit(m)
  \/ \E n \in Nodes \ {Root} :
       \/ Detach(n)
       \/ \E dest \in Nodes \ {n}, S \in SUBSET Slots \ {{}} :
            \E heard \in SUBSET ({dest} \cup Waiting(n)) : Transmit(n, dest, S, heard)
       \/ \E expired \in SUBSET Slots, route \in BOOLEAN : ResumeHeld(n, expired, route)
       \/ \E s \in Slots : Timeout(n, s) \/ OweDue(n, s)
  \/ air # None /\ \E n \in air.to :
       \/ \E old, refusing \in SUBSET Messages : Receive(n, old, refusing)
       \/ Overhear(n)
  \/ \E a \in acks : OnAck(a)

Spec == Init /\ [][Next]_vars

------------------------------------------------------------------------------
\* The type invariant of the queues, the caches and the frames.
TypeOK ==
  /\ routed \subseteq Nodes \ {Root}
  /\ queue \in [Nodes -> [Slots -> {None} \cup Entries]]
  /\ cache \in [Nodes -> [keys : [1 .. CACHE -> Messages \cup {None}], next : 1 .. CACHE]]
  /\ sent \in 0 .. MAX_FRAMES
  /\ air # None => /\ air \in Frames /\ air.ctr = sent
                   /\ air.source # Root /\ air.source \notin air.to \cup {air.dest}
  /\ acks \subseteq [by : Nodes, to : Nodes, ctr : Nat]
  /\ submitted \subseteq Messages /\ failed \subseteq Messages /\ aged \subseteq Messages
  /\ deliveries \in Seq(Messages)

\* The root delivers a message again only once its cache has forgotten it, for its
\* age or after CACHE others (link.py, _receive; DuplicateCache).
DeliveredOnce ==
  \A i, j \in DOMAIN deliveries :
    i < j /\ deliveries[i] = deliveries[j] /\ j - i <= CACHE => deliveries[i] \in aged

Symmetry == Permutations(Messages)

\* What the next steps depend on: an acknowledgement that would release nothing now
\* never will, a counter or a hop that is not awaited is not read.
Relevant(e) ==
  [e EXCEPT !.ctr = IF e.state = "PENDING" THEN @ ELSE 0,
            !.sent = IF e.key \/ e.state \in {"PENDING", "LATE"} THEN @ ELSE None]
View ==
  <<routed, [n \in Nodes |-> [s \in Slots |-> IF queue[n][s] = None THEN None ELSE Relevant(queue[n][s])]],
    cache, sent, air, {a \in acks : AckedSlots(queue[a.to], a) # {}},
    submitted, deliveries, failed, aged>>

HoldersOf(m) == {n \in Nodes : \E s \in Used(queue[n]) : queue[n][s].msg = m}

\* The abstract state: which nodes have each message.
C == INSTANCE Custody WITH holders <- [m \in Messages |-> HoldersOf(m)],
                           delivered <- Range(deliveries), givenUp <- failed

\* However frames and acknowledgements are lost, late or overheard, and messages come
\* back, each step keeps custody, with one relay (reliable.py, "Custody").
KeepsCustody == C!Spec

\* A message that comes back through a loop is never dropped without a copy left
\* (MESH_DESIGN 1540-1542 and 778-781).  With two relays it may be: they and the
\* node it came from each count on the copy of the next one.
LoopLosesNothing == \A m \in submitted : C!Over(m) \/ HoldersOf(m) # {}
==============================================================================
