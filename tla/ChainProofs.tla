----------------------------- MODULE ChainProofs -----------------------------
(***************************************************************************)
(* Proofs about module Chain: its types, what the root delivers, and the   *)
(* custody of the messages.                                                *)
(*                                                                         *)
(* The root delivers once (NoEarlyDuplicate) because its ring of keys      *)
(* follows its deliveries: a message it has not in its cache is either too *)
(* old or not among the last CACHE it delivered.                           *)
(*                                                                         *)
(* Custody (NothingLost, Refinement) is about what an acknowledgement will *)
(* do when it arrives, and it may be on its way, or owed, for long.  Each  *)
(* one is a promise: what it would remove is over, or has another copy     *)
(* that this acknowledgement, and an earlier one, cannot remove.  Frames   *)
(* are compared by their counters, so that a copy sent again after the     *)
(* promise is not what the promise was made on.                            *)
(***************************************************************************)
EXTENDS Chain, FiniteSetTheorems, WellFoundedInduction, TLAPS

------------------------------------------------------------------------------
(* Induction on the naturals, stated for a set instead of a predicate, and the *)
(* functions it defines.                                                       *)

\* Every nonempty set of naturals has a least element.
LEMMA LeastNatural ==
  ASSUME NEW S \in SUBSET Nat, S # {}
  PROVE  \E m \in S : \A k \in S : m <= k
<1> DEFINE R == OpToRel(<, Nat)
<1>1. IsWellFoundedOn(R, Nat)
  BY NatLessThanWellFounded
<1>2. \A x, y \in Nat : x < y <=> <<x, y>> \in R
  BY DEF OpToRel
<1> HIDE DEF R
<1>3. \E x \in S : \A y \in S : <<y, x>> \notin R
  BY <1>1, WFMin
<1>4. PICK x \in S : \A y \in S : <<y, x>> \notin R
  BY <1>3
<1>5. \A y \in S : ~(y < x) /\ y \in Nat /\ x \in Nat
  BY <1>2, <1>4
<1>6. QED
  BY <1>5

\* A set that holds 0, and the successor of each of its elements up to N.
LEMMA Induction ==
  ASSUME NEW N \in Nat, NEW S, 0 \in S, \A i \in 0 .. N - 1 : i \in S => i + 1 \in S
  PROVE  0 .. N \subseteq S
<1> DEFINE T == (0 .. N) \ S
<1>1. SUFFICES ASSUME T # {} PROVE FALSE
  OBVIOUS
<1>2. T \in SUBSET Nat
  OBVIOUS
<1>3. PICK m \in T : \A k \in T : m <= k
  <2> HIDE DEF T
  <2> QED BY <1>1, <1>2, LeastNatural
<1>4. m # 0 /\ m - 1 \in 0 .. N - 1 /\ m - 1 \notin T
  BY <1>3
<1>5. QED
  BY <1>4

\* f iterates F, which maps a value of X and a step to a value, N times from x.
Iterates(f, F, N, X, x) ==
  /\ f \in [0 .. N -> X]
  /\ f[0] = x
  /\ \A i \in 1 .. N : f[i] = F[<<f[i - 1], i>>]

\* The sequence of the iterations exists.
LEMMA Recursion ==
  ASSUME NEW N \in Nat, NEW X, NEW x \in X, NEW F \in [X \X (1 .. N) -> X]
  PROVE  \E f : Iterates(f, F, N, X, x)
<1> DEFINE S == {n \in 0 .. N : \E f : Iterates(f, F, n, X, x)}
<1>1. 0 \in S
  <2>1. Iterates([i \in 0 .. 0 |-> x], F, 0, X, x)
    BY DEF Iterates
  <2>2. QED
    BY <2>1
<1>2. ASSUME NEW n \in 0 .. N - 1, n \in S PROVE n + 1 \in S
  <2>1. PICK f : Iterates(f, F, n, X, x)
    BY <1>2
  <2> USE DEF Iterates
  <2> DEFINE g == [i \in 0 .. n + 1 |-> IF i = n + 1 THEN F[<<f[n], n + 1>>] ELSE f[i]]
  <2>2. g \in [0 .. n + 1 -> X]
    <3>1. <<f[n], n + 1>> \in X \X (1 .. N)
      BY <2>1
    <3>2. \A i \in 0 .. n + 1 : i # n + 1 => i \in 0 .. n
      OBVIOUS
    <3> QED BY <2>1, <3>1, <3>2
  <2>3. g[0] = x
    BY <2>1
  <2>4. ASSUME NEW i \in 1 .. n + 1 PROVE g[i] = F[<<g[i - 1], i>>]
    <3>1. CASE i = n + 1
      <4>1. g[i] = F[<<f[n], n + 1>>] /\ g[i - 1] = f[n]
        BY <3>1
      <4> QED BY <4>1, <3>1
    <3>2. CASE i # n + 1
      <4>1. i \in 1 .. n /\ g[i] = f[i] /\ g[i - 1] = f[i - 1]
        BY <3>2
      <4> QED BY <4>1, <2>1
    <3> QED BY <3>1, <3>2
  <2>5. Iterates(g, F, n + 1, X, x)
    <3> HIDE DEF g
    <3> QED BY <2>2, <2>3, <2>4
  <2> HIDE DEF Iterates, g
  <2>6. QED
    BY <2>5
<1>3. N \in S
  <2> HIDE DEF S
  <2> QED BY <1>1, <1>2, Induction
<1>4. QED
  BY <1>3

------------------------------------------------------------------------------
(* Promises, and the invariants. *)

\* Delivered by the root, or given up.
Over(m) == m \in Range(deliveries) \cup failed

\* A copy that no acknowledgement of a frame up to counter c may remove, the root's
\* excepted: it waits for no relay, or for a later frame.
Secure(e, c) == e.state # "PENDING" \/ e.sent = Root \/ e.ctr > c

\* The message m is over, or has a copy secure up to c.
Backed(m, c) ==
  Over(m) \/ \E k \in Nodes : \E t \in Used(queue[k]) :
               queue[k][t].msg = m /\ Secure(queue[k][t], c)

\* An acknowledgement by node `by` to node `to`, of the frame c, would remove only
\* copies of messages that are backed.
Promised(by, to, c) ==
  \A m \in Messages :
    (\E s \in Used(queue[to]) :
       LET e == queue[to][s] IN e.msg = m /\ e.state = "PENDING" /\ e.ctr = c /\ e.sent = by)
    => Backed(m, c)

\* The counters in entries and acknowledgements are those of frames sent.
CountersPast ==
  /\ \A n \in Nodes : \A s \in Used(queue[n]) :
       LET e == queue[n][s]
       IN  e.ctr <= sent /\ e.late \subseteq 1 .. sent /\ (e.owed # None => e.owed.ctr <= sent)
  /\ \A a \in acks : a.ctr <= sent

\* The root stores nothing; a copy awaits an acknowledgement of another node, a late one
\* of the root.
Hops ==
  \A n \in Nodes : \A s \in Used(queue[n]) :
     LET e == queue[n][s]
     IN  /\ n # Root
         /\ e.key \/ e.state = "PENDING" => e.sent \in Nodes \ {n}
         /\ e.state = "LATE" => e.sent = Root

\* Only messages submitted are anywhere.
Known ==
  /\ \A n \in Nodes : \A s \in Used(queue[n]) : queue[n][s].msg \in submitted
  /\ air # None => Range(air.messages) \subseteq submitted
  /\ Range(deliveries) \cup failed \subseteq submitted

\* The root's duplicate cache holds only messages that it has delivered: a copy it
\* acknowledges as a duplicate was delivered before.
CacheKnown == Range(cache[Root].keys) \subseteq Range(deliveries) \cup {None}

\* Every message submitted is over or has a copy.
NotLost == \A m \in submitted : Over(m) \/ HoldersOf(m) # {}

\* The entries with the counter of the frame on air are those of its source, for its
\* messages, and it may come late only from the root.
FrameKnown ==
  air # None =>
    \A n \in Nodes : \A s \in Used(queue[n]) :
      LET e == queue[n][s]
      IN  /\ e.ctr = air.ctr => n = air.source /\ e.sent = air.dest /\ e.msg \in Range(air.messages)
          /\ air.ctr \in e.late => n = air.source /\ air.dest = Root /\ e.msg \in Range(air.messages)

\* While a frame to the root is on air, its source keeps a copy of each of its messages
\* that awaits the root: a relay that overhears the frame may drop its own.
FrameBacked ==
  air # None /\ air.dest = Root =>
    \A m \in Range(air.messages) :
      Over(m) \/ \E t \in Used(queue[air.source]) :
                   LET e == queue[air.source][t] IN e.msg = m /\ e.ctr = air.ctr /\ e.sent = Root

\* An acknowledgement by the root is for messages that it has delivered.
RootPromises ==
  \A a \in acks : a.by = Root =>
    \A s \in Used(queue[a.to]) :
      a.ctr \in queue[a.to][s].late => queue[a.to][s].msg \in Range(deliveries)

\* An acknowledgement by a relay, or one it still owes, is for messages that are backed:
\* what it has taken over it keeps until the root has it.
RelayPromises ==
  /\ \A a \in acks : a.by # Root => Promised(a.by, a.to, a.ctr)
  /\ \A n \in Nodes : \A f \in [source : Nodes, ctr : Nat] :
       (\E s \in Used(queue[n]) : queue[n][s].owed = f) => Promised(n, f.source, f.ctr)

\* What the other invariants rest on.
TypeInv == TypeOK /\ Hops /\ CacheKnown

\* The inductive invariant of custody.
CustodyInv ==
  /\ TypeInv /\ CountersPast /\ Known /\ NotLost
  /\ FrameKnown /\ FrameBacked /\ RootPromises /\ RelayPromises

\* The place in the ring of the last key added but k.
Place(c, k) == LET p == c.next - 1 - k IN IF p >= 1 THEN p ELSE p + CACHE

\* The cache c still has the last CACHE messages of d, those in A, too old, excepted.
RingHolds(d, c, A) ==
  \A i \in DOMAIN d :
    Len(d) - i < CACHE => d[i] \in A \/ c.keys[Place(c, Len(d) - i)] = d[i]

\* DeliveredOnce, of any sequence d and set A of messages too old.
Once(d, A) ==
  \A i, j \in DOMAIN d : i < j /\ d[i] = d[j] /\ j - i <= CACHE => d[i] \in A

\* The inductive invariant of the deliveries: DeliveredOnce, and the root's cache.
DeliveryInv == RingHolds(deliveries, cache[Root], aged) /\ Once(deliveries, aged)

------------------------------------------------------------------------------
(* The helpers, and the types. *)

\* An entry just stored: it awaits nothing.
Fresh(e) == e.state \in {"IDLE", "HELD"} /\ ~e.key /\ e.ctr = 0 /\ e.late = {}

\* The values of a queue and of a duplicate cache.
Queues == [Slots -> {None} \cup Entries]
Caches == [keys : [1 .. CACHE -> Messages \cup {None}], next : 1 .. CACHE]

\* A new entry has the type of entries, and is fresh.
LEMMA EntryType ==
  ASSUME NEW m \in Messages, NEW hop \in BOOLEAN, NEW owed \in {None} \cup [source : Nodes, ctr : Nat]
  PROVE  Entry(m, hop, owed) \in Entries
BY DEF Entry, Entries

LEMMA EntryFresh ==
  ASSUME NEW m, NEW hop, NEW owed
  PROVE  /\ Fresh(Entry(m, hop, owed))
         /\ Entry(m, hop, owed).msg = m /\ Entry(m, hop, owed).owed \in {owed, None}
BY DEF Entry, Fresh

\* A queue that is not full takes an entry in a free slot.
LEMMA QueuedInSlot ==
  ASSUME NEW q \in Queues, ~Full(q), NEW e
  PROVE  \E s \in Slots : q[s] = None /\ Queued(q, e) = [q EXCEPT ![s] = e]
BY DEF Full, Used, Queued

\* A key added leaves a cache: the ring wraps within 1 .. CACHE.
LEMMA AddedType ==
  ASSUME NEW c \in Caches, NEW m \in Messages
  PROVE  Added(c, m) \in Caches
<1>1. (c.next % CACHE) + 1 \in 1 .. CACHE
  <2>1. c.next \in 1 .. CACHE /\ CACHE \in Nat \ {0}
    BY ChainAssumption DEF Caches
  <2> QED BY <2>1
<1>2. QED
  BY <1>1 DEF Added, Caches

\* Acknowledgements cancelled, and slots emptied, leave a queue.
LEMMA CancelledType ==
  ASSUME NEW q \in Queues, NEW f
  PROVE  Cancelled(q, f) \in Queues
BY DEF Cancelled, Queues, Entries

LEMMA WithoutType ==
  ASSUME NEW q \in Queues, NEW T
  PROVE  Without(q, T) \in Queues
BY DEF Without, Queues

------------------------------------------------------------------------------
(* What a frame's messages, taken one after the other, leave behind. *)

\* The results of a frame's messages, and the first of them.
Results == [queue : Queues, cache : Caches, ack : BOOLEAN, refused : BOOLEAN, delivered : Seq(Messages)]

Start(n, old) ==
  [queue |-> queue[n], cache |-> Pruned(cache[n], old),
   ack |-> FALSE, refused |-> FALSE, delivered |-> deliveries]

\* The first result has the type of results, the pruned cache included.
LEMMA StartType ==
  ASSUME TypeOK, NEW n \in Nodes, NEW old
  PROVE  Start(n, old) \in Results
<1>1. Pruned(cache[n], old) \in Caches
  <2> DEFINE c == cache[n]
  <2> DEFINE keys == [i \in DOMAIN c.keys |-> IF c.keys[i] \in old THEN None ELSE c.keys[i]]
  <2>1. c \in Caches
    BY DEF TypeOK, Caches
  <2>2. Pruned(c, old) = [keys |-> keys, next |-> c.next]
    BY DEF Pruned
  <2>3. keys \in [1 .. CACHE -> Messages \cup {None}] /\ c.next \in 1 .. CACHE
    <3> HIDE DEF c
    <3> QED BY <2>1 DEF Caches
  <2> HIDE DEF keys
  <2> QED BY <2>2, <2>3 DEF Caches
<1>2. QED
  BY <1>1 DEF TypeOK, Start, Results, Queues

\* What Accepted may do with the message m: acknowledge a copy, deliver, refuse or store it.
Outcome(n, r, m, a) ==
  \/ /\ a.queue = r.queue /\ a.delivered = r.delivered /\ a.refused = r.refused
     /\ IF n = Root THEN Seen(r.cache, m) /\ a.cache = r.cache
                    ELSE Holding(r.queue, m, air.source)
  \/ /\ n = Root /\ ~Seen(r.cache, m)
     /\ a.queue = r.queue /\ a.refused = r.refused
     /\ a.cache = Added(r.cache, m) /\ a.delivered = Append(r.delivered, m)
  \/ n # Root /\ a.refused /\ a.queue = r.queue /\ a.delivered = r.delivered
  \/ /\ n # Root /\ a.refused = r.refused /\ a.delivered = r.delivered
     /\ \E s \in Slots :
          /\ r.queue[s] = None
          /\ a.queue = [r.queue EXCEPT ![s] = Entry(m, n \in routed, Frame)]

\* The outcome of each message is one of those four, with a result of the right type.
LEMMA AcceptedCases ==
  ASSUME NEW n \in Nodes, air \in Frames, NEW r \in Results, NEW m \in Messages, NEW refusing
  PROVE  /\ Accepted(n, r, m, refusing) \in Results
         /\ Outcome(n, r, m, Accepted(n, r, m, refusing))
<1> DEFINE a == Accepted(n, r, m, refusing)
<1> USE DEF Outcome
<1> DEFINE taken == Added(r.cache, m)
<1>1. taken \in Caches /\ r.queue \in Queues /\ r.cache \in Caches /\ r.delivered \in Seq(Messages)
      /\ r.ack \in BOOLEAN /\ r.refused \in BOOLEAN
  BY AddedType DEF Results
<1>2. Append(r.delivered, m) \in Seq(Messages)
  BY <1>1
<1>3. Frame \in [source : Nodes, ctr : Nat]
  BY DEF Frame, Frames
<1>4. CASE Seen(r.cache, m) /\ (n = Root \/ Holding(r.queue, m, air.source))
  <2>1. a = [r EXCEPT !.ack = TRUE]
    BY <1>4 DEF Accepted
  <2>2. QED
    BY <1>4, <2>1 DEF Results
<1>5. CASE ~(Seen(r.cache, m) /\ (n = Root \/ Holding(r.queue, m, air.source))) /\ n = Root
  <2>1. a = [r EXCEPT !.cache = taken, !.ack = TRUE, !.delivered = Append(@, m)]
    BY <1>5 DEF Accepted
  <2>2. QED
    BY <1>1, <1>2, <1>5, <2>1 DEF Results
<1>6. CASE ~(Seen(r.cache, m) /\ (n = Root \/ Holding(r.queue, m, air.source))) /\ n # Root
  <2>1. CASE CameBack(n, r.queue, m, air.source)
    <3>1. a = [r EXCEPT !.cache = taken, !.ack = TRUE]
      BY <1>6, <2>1 DEF Accepted
    <3>2. Holding(r.queue, m, air.source)
      BY <2>1 DEF CameBack
    <3>3. QED
      BY <1>1, <1>6, <3>1, <3>2 DEF Results
  <2>2. CASE ~CameBack(n, r.queue, m, air.source) /\ (Full(r.queue) \/ m \in refusing)
    <3>1. a = [r EXCEPT !.refused = TRUE]
      BY <1>6, <2>2 DEF Accepted
    <3>2. QED
      BY <1>1, <1>6, <3>1 DEF Results
  <2>3. CASE ~CameBack(n, r.queue, m, air.source) /\ ~(Full(r.queue) \/ m \in refusing)
    <3> DEFINE e == Entry(m, n \in routed, Frame)
               ack == r.ack \/ Seen(r.cache, m) \/ n \notin routed
    <3>1. a = [r EXCEPT !.cache = taken, !.queue = Queued(@, e), !.ack = ack]
      BY <1>6, <2>3 DEF Accepted
    <3>2. e \in Entries
      <4>1. (n \in routed) \in BOOLEAN
        OBVIOUS
      <4>2. QED
        BY <1>3, <4>1, EntryType
    <3>3. PICK s \in Slots : r.queue[s] = None /\ Queued(r.queue, e) = [r.queue EXCEPT ![s] = e]
      BY <1>1, <2>3, QueuedInSlot
    <3>4. Queued(r.queue, e) \in Queues
      BY <1>1, <3>2, <3>3 DEF Queues
    <3> HIDE DEF e
    <3>5. a \in Results
      <4>1. ack \in BOOLEAN
        OBVIOUS
      <4> HIDE DEF ack
      <4> QED BY <1>1, <3>1, <3>4, <4>1 DEF Results
    <3>6. a.queue = [r.queue EXCEPT ![s] = e] /\ a.refused = r.refused /\ a.delivered = r.delivered
      BY <3>1, <3>3 DEF Results
    <3>7. QED
      BY <1>6, <3>3, <3>5, <3>6 DEF e
  <2>4. QED
    BY <2>1, <2>2, <2>3
<1>7. QED
  BY <1>4, <1>5, <1>6

\* r is what becomes of the messages, one after the other.
InTurn(n, old, refusing, r) ==
  /\ r \in [0 .. Len(air.messages) -> Results]
  /\ r[0] = Start(n, old)
  /\ \A i \in 1 .. Len(air.messages) : r[i] = Accepted(n, r[i - 1], air.messages[i], refusing)
  /\ Received(n, old, refusing) = r[Len(air.messages)]

\* Received is the last of a sequence of results, one more for each message.
LEMMA ReceivedSteps ==
  ASSUME TypeOK, air # None, NEW n \in Nodes, NEW old, NEW refusing
  PROVE  \E r : InTurn(n, old, refusing, r)
<1> DEFINE N == Len(air.messages)
           F == [z \in Results \X (1 .. N) |-> Accepted(n, z[1], air.messages[z[2]], refusing)]
           Good(f) == f = [i \in 0 .. N |-> IF i = 0 THEN Start(n, old)
                                            ELSE Accepted(n, f[i - 1], air.messages[i], refusing)]
           r == CHOOSE f : Good(f)
<1>1. air \in Frames /\ air.messages \in Seq(Messages) /\ N \in Nat
  BY DEF TypeOK, Frames
<1>2. \A i \in 1 .. N : air.messages[i] \in Messages
  BY <1>1
<1>3. \A x \in Results, i \in 1 .. N : Accepted(n, x, air.messages[i], refusing) \in Results
  BY <1>1, <1>2, AcceptedCases
<1>4. F \in [Results \X (1 .. N) -> Results]
  BY <1>3
<1>5. Start(n, old) \in Results
  BY StartType
<1>6. PICK f : Iterates(f, F, N, Results, Start(n, old))
  <2> HIDE DEF F, N
  <2> QED BY <1>1, <1>4, <1>5, Recursion
<1>7. f \in [0 .. N -> Results] /\ f[0] = Start(n, old) /\ \A i \in 1 .. N : f[i] = F[<<f[i - 1], i>>]
  <2> HIDE DEF F, N
  <2> QED BY <1>6 DEF Iterates
<1>8. \A i \in 1 .. N : f[i] = Accepted(n, f[i - 1], air.messages[i], refusing)
  <2>1. \A i \in 1 .. N : <<f[i - 1], i>> \in Results \X (1 .. N)
    BY <1>1, <1>7
  <2>2. QED
    BY <1>7, <2>1
<1>9. Good(f)
  <2> HIDE DEF N
  <2> QED BY <1>1, <1>7, <1>8
<1>10. Good(r)
  BY <1>9
<1>11. r[0] = Start(n, old) /\ \A i \in 1 .. N : r[i] = Accepted(n, r[i - 1], air.messages[i], refusing)
  <2> HIDE DEF N, r
  <2> QED BY <1>1, <1>10
<1>12. DOMAIN r = 0 .. N
  <2> HIDE DEF r
  <2> QED BY <1>10
<1>13. Received(n, old, refusing) = r[N]
  BY DEF Received, Start
<1>14. \A i \in 0 .. N : r[i] \in Results
  <2> DEFINE S == {i \in 0 .. N : r[i] \in Results}
  <2> HIDE DEF r, N
  <2>1. 0 \in S
    BY <1>1, <1>5, <1>11
  <2>2. ASSUME NEW i \in 0 .. N - 1, i \in S PROVE i + 1 \in S
    <3>1. i + 1 \in 1 .. N /\ i + 1 - 1 = i
      BY <1>1
    <3> QED BY <1>3, <1>11, <2>2, <3>1
  <2>3. 0 .. N \subseteq S
    <3> HIDE DEF S
    <3> QED BY <1>1, <2>1, <2>2, Induction
  <2> QED BY <2>3
<1>15. r \in [0 .. N -> Results]
  <2> HIDE DEF r, N
  <2> QED BY <1>10, <1>12, <1>14
<1>16. QED
  <2> HIDE DEF r, F, Good
  <2> QED BY <1>11, <1>13, <1>15 DEF InTurn

------------------------------------------------------------------------------
(* What the steps do to the queues. *)

\* The entry f is e, perhaps held, retried or late, out of the index, or owing no more.
Weaker(e, f) ==
  /\ f.msg = e.msg /\ f.sent = e.sent /\ f.ctr = e.ctr /\ f.late = e.late
  /\ f.owed \in {e.owed, None}
  /\ f.key => e.key
  /\ f.state = "PENDING" => e.state = "PENDING"
  /\ f.state = "LATE" => e.sent = Root

\* A slot is emptied, weakened, or filled with a fresh entry where it was free.
SlotStep(n, s) ==
  queue'[n][s] # None =>
    \/ queue[n][s] # None /\ Weaker(queue[n][s], queue'[n][s])
    \/ n # Root /\ queue[n][s] = None /\ Fresh(queue'[n][s])

\* What every step but Transmit does to the queues.
Mild ==
  /\ queue' \in [Nodes -> Queues]
  /\ \A n \in Nodes : \A s \in Slots : SlotStep(n, s)

\* A step of one node.
MildAt(n) ==
  /\ \E q \in Queues : queue' = [queue EXCEPT ![n] = q]
  /\ \A s \in Slots : SlotStep(n, s)

\* A step of one node is mild when its own slots are.
LEMMA MildNode ==
  ASSUME TypeInv, NEW n \in Nodes, MildAt(n)
  PROVE  Mild
<1>1. queue \in [Nodes -> Queues]
  BY DEF TypeInv, TypeOK, Queues
<1>2. PICK q \in Queues : queue' = [queue EXCEPT ![n] = q]
  BY DEF MildAt
<1>3. queue' \in [Nodes -> Queues]
  BY <1>1, <1>2
<1>4. ASSUME NEW k \in Nodes, NEW s \in Slots PROVE SlotStep(k, s)
  <2>1. CASE k = n
    BY <2>1 DEF MildAt
  <2>2. CASE k # n
    <3>1. queue'[k] = queue[k]
      BY <1>1, <1>2, <2>2
    <3>2. Weaker(queue[k][s], queue[k][s]) \/ queue[k][s] = None
      <4>1. queue[k][s] \in {None} \cup Entries
        BY <1>1 DEF Queues
      <4>2. queue[k][s] # None /\ queue[k][s].state = "LATE" => queue[k][s].sent = Root
        BY DEF TypeInv, Hops, Used
      <4> QED BY <4>1, <4>2 DEF Weaker
    <3> QED BY <3>1, <3>2 DEF SlotStep
  <2> QED BY <2>1, <2>2
<1>5. QED
  BY <1>3, <1>4 DEF Mild

\* What an entry's hops say.
LEMMA EntryAt ==
  ASSUME TypeInv, NEW n \in Nodes, NEW s \in Slots, queue[n][s] # None
  PROVE  /\ queue[n] \in Queues /\ queue[n][s] \in Entries
         /\ n # Root
         /\ queue[n][s].key \/ queue[n][s].state = "PENDING" => queue[n][s].sent \in Nodes \ {n}
         /\ queue[n][s].state = "LATE" => queue[n][s].sent = Root
BY DEF TypeInv, TypeOK, Hops, Used, Queues

\* The actions are mild, one by one: a submission fills a free slot,
LEMMA SubmitMild ==
  ASSUME TypeInv, NEW m \in Messages, Submit(m)
  PROVE  Mild
<1> DEFINE e == Entry(m, Origin \in routed, None)
<1>1. queue \in [Nodes -> Queues] /\ Origin \in Nodes /\ Origin # Root
  BY ChainAssumption DEF TypeInv, TypeOK, Queues
<1>2. e \in Entries /\ Fresh(e)
  BY EntryType DEF Entry, Fresh
<1>3. PICK s \in Slots : queue[Origin][s] = None /\ Queued(queue[Origin], e) = [queue[Origin] EXCEPT ![s] = e]
  BY <1>1, QueuedInSlot DEF Submit
<1> HIDE DEF e
<1>4. queue' = [queue EXCEPT ![Origin] = [queue[Origin] EXCEPT ![s] = e]]
  BY <1>3 DEF Submit, e
<1>5. [queue[Origin] EXCEPT ![s] = e] \in Queues
  BY <1>1, <1>2 DEF Queues
<1>6. ASSUME NEW t \in Slots PROVE SlotStep(Origin, t)
  <2>1. queue'[Origin][t] = IF t = s THEN e ELSE queue[Origin][t]
    BY <1>1, <1>4 DEF Queues
  <2>2. CASE t = s
    BY <1>1, <1>2, <1>3, <2>1, <2>2 DEF SlotStep
  <2>3. CASE t # s
    BY <2>1, <2>3, <1>1, EntryAt DEF SlotStep, Weaker, Entries
  <2> QED BY <2>2, <2>3
<1>7. QED
  BY <1>1, <1>4, <1>5, <1>6, MildNode DEF MildAt

\* a timeout changes the state of one entry,
LEMMA TimeoutMild ==
  ASSUME TypeInv, NEW n \in Nodes, NEW s \in Slots, Timeout(n, s)
  PROVE  Mild
<1>1. queue \in [Nodes -> Queues] /\ queue[n] \in Queues /\ queue[n][s] \in Entries
  BY EntryAt DEF TypeInv, TypeOK, Queues, Timeout
<1>2. PICK state \in {"IDLE", "LATE"} :
        /\ \/ queue[n][s].state = "PENDING" /\ (state = "LATE" => queue[n][s].sent = Root)
           \/ queue[n][s].state = "LATE" /\ state = "IDLE"
        /\ queue' = [queue EXCEPT ![n][s].state = state]
  BY DEF Timeout
<1> DEFINE e == [queue[n][s] EXCEPT !.state = state]
           q == [queue[n] EXCEPT ![s] = e]
<1>3. e \in Entries
  BY <1>1, <1>2 DEF Entries
<1>4. Weaker(queue[n][s], e)
  BY <1>1, <1>2 DEF Weaker, Entries
<1>5. queue' = [queue EXCEPT ![n] = q]
  BY <1>2
<1> HIDE DEF e
<1>6. q \in Queues
  BY <1>1, <1>3 DEF Queues
<1>7. ASSUME NEW t \in Slots PROVE SlotStep(n, t)
  <2>1. queue'[n][t] = IF t = s THEN e ELSE queue[n][t]
    BY <1>1, <1>5 DEF Queues
  <2>2. CASE t = s
    BY <1>1, <1>4, <2>1, <2>2, NoneAssumption DEF SlotStep
  <2>3. CASE t # s
    BY <2>1, <2>3, <1>1, EntryAt DEF SlotStep, Weaker, Entries
  <2> QED BY <2>2, <2>3
<1>8. QED
  BY <1>5, <1>6, <1>7, MildNode DEF MildAt

\* a detach holds every entry,
LEMMA DetachMild ==
  ASSUME TypeInv, NEW n \in Nodes, Detach(n)
  PROVE  Mild
<1> DEFINE held(s) == [queue[n][s] EXCEPT !.state = "HELD", !.key = FALSE]
           q == [s \in Slots |-> IF queue[n][s] = None THEN None ELSE held(s)]
<1>1. queue \in [Nodes -> Queues] /\ queue[n] \in Queues
  BY DEF TypeInv, TypeOK, Queues
<1>2. queue' = [queue EXCEPT ![n] = q]
  BY DEF Detach
<1>3. ASSUME NEW s \in Slots, queue[n][s] # None
      PROVE  held(s) \in Entries /\ Weaker(queue[n][s], held(s))
  <2> DEFINE e == queue[n][s]
             h == [e EXCEPT !.state = "HELD"]
  <2>1. e \in Entries
    BY <1>3, EntryAt
  <2>2. h \in Entries /\ Weaker(e, h)
    BY <2>1 DEF Entries, Weaker
  <2>3. [h EXCEPT !.key = FALSE] \in Entries /\ Weaker(e, [h EXCEPT !.key = FALSE])
    <3> HIDE DEF e, h
    <3> QED BY <2>1, <2>2 DEF Entries, Weaker
  <2> QED BY <2>3
<1> HIDE DEF held
<1>4. q \in Queues
  BY <1>3 DEF Queues
<1>5. ASSUME NEW s \in Slots PROVE SlotStep(n, s)
  <2>1. queue'[n][s] = IF queue[n][s] = None THEN None ELSE held(s)
    BY <1>1, <1>2
  <2> QED BY <1>3, <2>1 DEF SlotStep
<1>6. QED
  BY <1>2, <1>4, <1>5, MildNode DEF MildAt

\* held messages fail or are sent again.
LEMMA ResumeHeldMild ==
  ASSUME TypeInv, NEW n \in Nodes, NEW expired \in SUBSET Slots, NEW route \in BOOLEAN,
         ResumeHeld(n, expired, route)
  PROVE  Mild
<1> DEFINE idle(s) == [queue[n][s] EXCEPT !.state = "IDLE"]
           new(s) == IF s \in expired THEN None
                     ELSE IF route /\ queue[n][s] # None THEN idle(s) ELSE queue[n][s]
           q == [s \in Slots |-> new(s)]
<1>1. queue \in [Nodes -> Queues] /\ queue[n] \in Queues
  BY DEF TypeInv, TypeOK, Queues
<1>2. queue' = [queue EXCEPT ![n] = q]
  BY DEF ResumeHeld
<1>3. ASSUME NEW s \in Slots, queue[n][s] # None
      PROVE  idle(s) \in Entries /\ Weaker(queue[n][s], idle(s)) /\ Weaker(queue[n][s], queue[n][s])
  BY <1>3, EntryAt DEF Entries, Weaker
<1> HIDE DEF idle
<1>4. q \in Queues
  BY <1>1, <1>3 DEF Queues
<1>5. ASSUME NEW s \in Slots PROVE SlotStep(n, s)
  <2>1. queue'[n][s] = new(s)
    BY <1>1, <1>2
  <2> QED BY <1>3, <2>1 DEF SlotStep
<1>6. QED
  BY <1>2, <1>4, <1>5, MildNode DEF MildAt

\* Slots emptied, and acknowledgements owed cancelled.
LEMMA WithoutMild ==
  ASSUME TypeInv, NEW n \in Nodes, NEW T, queue' = [queue EXCEPT ![n] = Without(@, T)]
  PROVE  Mild
<1>1. queue \in [Nodes -> Queues] /\ queue[n] \in Queues
  BY DEF TypeInv, TypeOK, Queues
<1>2. queue' = [queue EXCEPT ![n] = Without(queue[n], T)] /\ Without(queue[n], T) \in Queues
  BY <1>1, WithoutType
<1>3. ASSUME NEW s \in Slots PROVE SlotStep(n, s)
  <2>1. queue'[n][s] = IF s \in T THEN None ELSE queue[n][s]
    BY <1>1, <1>2 DEF Without
  <2>2. queue[n][s] # None => Weaker(queue[n][s], queue[n][s])
    BY EntryAt DEF Entries, Weaker
  <2> QED BY <2>1, <2>2 DEF SlotStep
<1>4. QED
  BY <1>2, <1>3, MildNode DEF MildAt

\* An entry with its acknowledgement cancelled is weaker, so that
LEMMA CancelledWeaker ==
  ASSUME TypeInv, NEW n \in Nodes, NEW f, NEW s \in Slots, queue[n][s] # None
  PROVE  Cancelled(queue[n], f)[s] # None /\ Weaker(queue[n][s], Cancelled(queue[n], f)[s])
<1>1. Cancelled(queue[n], f)[s] = IF queue[n][s].owed = f THEN [queue[n][s] EXCEPT !.owed = None] ELSE queue[n][s]
  BY DEF Cancelled
<1>2. [queue[n][s] EXCEPT !.owed = None] \in Entries
  BY EntryAt DEF Entries
<1>3. QED
  BY <1>1, <1>2, EntryAt, NoneAssumption DEF Weaker, Entries

\* cancelling is mild.
LEMMA CancelledMild ==
  ASSUME TypeInv, NEW n \in Nodes, NEW f, queue' = [queue EXCEPT ![n] = Cancelled(@, f)]
  PROVE  Mild
<1>1. queue \in [Nodes -> Queues] /\ queue[n] \in Queues
  BY DEF TypeInv, TypeOK, Queues
<1>2. queue' = [queue EXCEPT ![n] = Cancelled(queue[n], f)] /\ Cancelled(queue[n], f) \in Queues
  BY <1>1, CancelledType
<1>3. ASSUME NEW s \in Slots PROVE SlotStep(n, s)
  <2>1. queue'[n][s] = Cancelled(queue[n], f)[s]
    BY <1>1, <1>2
  <2>2. queue[n][s] = None => Cancelled(queue[n], f)[s] = None
    BY DEF Cancelled
  <2> QED BY <2>1, <2>2, CancelledWeaker DEF SlotStep
<1>4. QED
  BY <1>2, <1>3, MildNode DEF MildAt

------------------------------------------------------------------------------
(* What a whole frame leaves behind: by induction on its messages. *)

\* A node that is not the root keeps its entries, stores the others or refuses them,
\* and holds every message of a frame it does not refuse.
NodeResult(n, r, i) ==
  /\ r.delivered = deliveries
  /\ \A s \in Slots :
       IF queue[n][s] # None THEN r.queue[s] = queue[n][s]
       ELSE r.queue[s] # None =>
              \E m \in Range(air.messages) : r.queue[s] = Entry(m, n \in routed, Frame)
  /\ ~r.refused => \A j \in 1 .. i : Holding(r.queue, air.messages[j], air.source)

\* One more message of a frame at a node.
LEMMA NodeResultStep ==
  ASSUME TypeOK, air # None, NEW n \in Nodes \ {Root}, NEW refusing,
         NEW i \in 1 .. Len(air.messages), NEW r \in Results, NodeResult(n, r, i - 1),
         NEW a, a = Accepted(n, r, air.messages[i], refusing)
  PROVE  NodeResult(n, a, i)
<1> DEFINE m == air.messages[i]
<1>1. air \in Frames /\ air.messages \in Seq(Messages) /\ i \in Nat /\ m \in Messages /\ m \in Range(air.messages)
  BY DEF TypeOK, Frames, Range
<1>a. n \in Nodes /\ n # Root /\ a = Accepted(n, r, m, refusing)
  OBVIOUS
<1>2. \A j \in 1 .. i : j = i \/ j \in 1 .. i - 1
  BY <1>1
<1>3. r.queue \in Queues
  BY DEF Results
<1>4. /\ a \in Results /\ a.delivered = r.delivered
      /\ \/ a.queue = r.queue /\ a.refused = r.refused /\ Holding(r.queue, m, air.source)
         \/ a.refused /\ a.queue = r.queue
         \/ /\ a.refused = r.refused
            /\ \E s \in Slots :
                 r.queue[s] = None /\ a.queue = [r.queue EXCEPT ![s] = Entry(m, n \in routed, Frame)]
  <2>1. a \in Results /\ Outcome(n, r, m, a)
    <3> HIDE DEF m
    <3> QED BY <1>1, <1>a, AcceptedCases
  <2> HIDE DEF m
  <2> QED BY <1>a, <2>1 DEF Outcome
<1> HIDE DEF m
<1>5. CASE a.queue = r.queue /\ a.refused = r.refused /\ Holding(r.queue, m, air.source)
  BY <1>1, <1>2, <1>4, <1>5 DEF NodeResult, m
<1>6. CASE a.refused /\ a.queue = r.queue
  BY <1>4, <1>6 DEF NodeResult
<1>7. CASE a.refused = r.refused /\ \E s \in Slots :
              r.queue[s] = None /\ a.queue = [r.queue EXCEPT ![s] = Entry(m, n \in routed, Frame)]
  <2> DEFINE e == Entry(m, n \in routed, Frame)
  <2>1. PICK s \in Slots : r.queue[s] = None /\ a.queue = [r.queue EXCEPT ![s] = e]
    BY <1>7
  <2>2. e \in Entries /\ e.msg = m /\ e.state \notin {"PENDING", "LATE"}
    <3>1. Frame \in [source : Nodes, ctr : Nat] /\ (n \in routed) \in BOOLEAN
      BY <1>1 DEF Frame, Frames
    <3>2. e \in Entries
      BY <1>1, <3>1, EntryType DEF m
    <3>3. e.msg = m /\ e.state \in {"IDLE", "HELD"}
      BY DEF Entry
    <3> QED BY <3>2, <3>3
  <2> HIDE DEF e
  <2>3. \A t \in Slots : a.queue[t] = IF t = s THEN e ELSE r.queue[t]
    BY <1>3, <2>1 DEF Queues
  <2>4. \A t \in Slots :
          IF queue[n][t] # None THEN a.queue[t] = queue[n][t]
          ELSE a.queue[t] # None =>
                 \E k \in Range(air.messages) : a.queue[t] = Entry(k, n \in routed, Frame)
    BY <1>1, <2>1, <2>3 DEF NodeResult, e, m
  <2>5. ASSUME NEW k, Holding(r.queue, k, air.source) PROVE Holding(a.queue, k, air.source)
    <3>1. PICK t \in Slots : /\ r.queue[t] # None /\ r.queue[t].msg = k
                             /\ ~(r.queue[t].state \in {"PENDING", "LATE"} /\ r.queue[t].sent = air.source)
      BY <2>5 DEF Holding, Used
    <3>2. a.queue[t] = r.queue[t]
      BY <2>1, <2>3, <3>1
    <3> QED BY <3>1, <3>2 DEF Holding, Used
  <2>6. Holding(a.queue, m, air.source)
    BY <2>1, <2>2, <2>3, NoneAssumption DEF Holding, Used
  <2> QED BY <1>1, <1>2, <1>4, <1>7, <2>4, <2>5, <2>6 DEF NodeResult, m
<1>8. QED
  BY <1>4, <1>5, <1>6, <1>7

\* A frame at a node, by induction on its messages.
LEMMA ReceivedByNode ==
  ASSUME TypeOK, air # None, NEW n \in Nodes \ {Root}, NEW old, NEW refusing
  PROVE  /\ Received(n, old, refusing) \in Results
         /\ NodeResult(n, Received(n, old, refusing), Len(air.messages))
<1> DEFINE N == Len(air.messages)
<1>1. N \in Nat
  BY DEF TypeOK, Frames
<1>a. n \in Nodes
  OBVIOUS
<1>b. PICK r : InTurn(n, old, refusing, r)
  BY <1>a, ReceivedSteps
<1>2. /\ r \in [0 .. N -> Results] /\ r[0] = Start(n, old)
      /\ \A i \in 1 .. N : r[i] = Accepted(n, r[i - 1], air.messages[i], refusing)
      /\ Received(n, old, refusing) = r[N]
  BY <1>b DEF InTurn
<1> DEFINE S == {i \in 0 .. N : NodeResult(n, r[i], i)}
<1>3. 0 \in S
  <2>1. NodeResult(n, r[0], 0)
    BY <1>2 DEF Start, NodeResult
  <2> QED BY <1>1, <2>1
<1>4. ASSUME NEW i \in 0 .. N - 1, i \in S PROVE i + 1 \in S
  <2>1. i + 1 \in 1 .. N /\ i + 1 - 1 = i /\ i \in 0 .. N
    BY <1>1
  <2>2. r[i] \in Results /\ NodeResult(n, r[i], i + 1 - 1) /\ r[i + 1] = Accepted(n, r[i], air.messages[i + 1], refusing)
    BY <1>2, <1>4, <2>1
  <2> DEFINE j == i + 1
             b == r[i]
             a == r[j]
  <2>3. NodeResult(n, a, j)
    <3>1. j \in 1 .. Len(air.messages) /\ b \in Results /\ NodeResult(n, b, j - 1)
          /\ a = Accepted(n, b, air.messages[j], refusing)
      BY <2>1, <2>2
    <3> HIDE DEF j, a, b
    <3> QED BY <3>1, NodeResultStep
  <2> QED BY <1>1, <2>1, <2>3
<1>5. N \in S
  <2>1. 0 .. N \subseteq S
    <3> HIDE DEF S, N
    <3> QED BY <1>1, <1>3, <1>4, Induction
  <2> QED BY <1>1, <2>1
<1>6. QED
  BY <1>1, <1>2, <1>5

\* The elements of a sequence with one more,
LEMMA RangeOfAppend ==
  ASSUME NEW T, NEW s \in Seq(T), NEW e
  PROVE  Range(Append(s, e)) = Range(s) \cup {e}
<1>1. /\ DOMAIN Append(s, e) = 1 .. Len(s) + 1 /\ DOMAIN s = 1 .. Len(s) /\ Len(s) \in Nat
      /\ \A i \in 1 .. Len(s) + 1 : Append(s, e)[i] = IF i = Len(s) + 1 THEN e ELSE s[i]
  OBVIOUS
<1>2. \A i \in 1 .. Len(s) : i \in 1 .. Len(s) + 1 /\ i # Len(s) + 1
  BY <1>1
<1>3. \A i \in 1 .. Len(s) + 1 : i = Len(s) + 1 \/ i \in 1 .. Len(s)
  BY <1>1
<1>4. Len(s) + 1 \in 1 .. Len(s) + 1
  BY <1>1
<1>5. QED
  BY <1>1, <1>2, <1>3, <1>4 DEF Range

\* and the keys of a cache with one more.
LEMMA RangeOfAdded ==
  ASSUME NEW c \in Caches, NEW m
  PROVE  Range(Added(c, m).keys) \subseteq Range(c.keys) \cup {m}
BY DEF Added, Caches, Range

\* The root refuses nothing, and has delivered every message of the frame, now or before.
RootResult(r, i) ==
  /\ r.queue = queue[Root] /\ ~r.refused
  /\ Range(deliveries) \subseteq Range(r.delivered)
  /\ Range(r.delivered) \subseteq Range(deliveries) \cup Range(air.messages)
  /\ Range(r.cache.keys) \subseteq Range(r.delivered) \cup {None}
  /\ \A j \in 1 .. i : air.messages[j] \in Range(r.delivered)

\* A frame at the root, by induction on its messages.
LEMMA ReceivedByRoot ==
  ASSUME TypeOK, air # None, NEW old, NEW refusing,
         Range(cache[Root].keys) \subseteq Range(deliveries) \cup {None}
  PROVE  /\ Received(Root, old, refusing) \in Results
         /\ RootResult(Received(Root, old, refusing), Len(air.messages))
<1> DEFINE N == Len(air.messages)
<1>1. N \in Nat /\ air \in Frames /\ air.messages \in Seq(Messages)
  BY DEF TypeOK, Frames
<1>b. PICK r : InTurn(Root, old, refusing, r)
  BY ChainAssumption, ReceivedSteps
<1>2. /\ r \in [0 .. N -> Results] /\ r[0] = Start(Root, old)
      /\ \A i \in 1 .. N : r[i] = Accepted(Root, r[i - 1], air.messages[i], refusing)
      /\ Received(Root, old, refusing) = r[N]
  BY <1>b DEF InTurn
<1> DEFINE S == {i \in 0 .. N : RootResult(r[i], i)}
<1>3. 0 \in S
  <2>1. Range(Pruned(cache[Root], old).keys) \subseteq Range(cache[Root].keys) \cup {None}
    BY DEF Pruned, Range
  <2>2. RootResult(r[0], 0)
    BY <1>2, <2>1 DEF Start, RootResult
  <2> QED BY <1>1, <2>2
<1>4. ASSUME NEW i \in 0 .. N - 1, i \in S PROVE i + 1 \in S
  <2> DEFINE m == air.messages[i + 1]
             a == r[i + 1]
             b == r[i]
  <2>1. i + 1 \in 1 .. N /\ i + 1 - 1 = i /\ i \in 0 .. N /\ i \in Nat
    BY <1>1
  <2>2. b \in Results /\ RootResult(b, i) /\ a = Accepted(Root, b, m, refusing)
    BY <1>2, <1>4, <2>1
  <2>3. m \in Messages /\ m \in Range(air.messages) /\ m # None
    BY <1>1, <2>1, NoneAssumption DEF Range
  <2>4. /\ a.queue = b.queue /\ a.refused = b.refused
        /\ \/ Seen(b.cache, m) /\ a.cache = b.cache /\ a.delivered = b.delivered
           \/ a.cache = Added(b.cache, m) /\ a.delivered = Append(b.delivered, m)
    <3> HIDE DEF m, a, b
    <3>1. Outcome(Root, b, m, a)
      BY <1>1, <2>2, <2>3, ChainAssumption, AcceptedCases
    <3> QED BY <3>1 DEF Outcome
  <2>5. \A j \in 1 .. i + 1 : j = i + 1 \/ j \in 1 .. i
    BY <2>1
  <2>6. b.cache \in Caches /\ b.delivered \in Seq(Messages)
    BY <2>2 DEF Results
  <2> HIDE DEF a, b
  <2>7. RootResult(a, i + 1)
    <3>1. CASE Seen(b.cache, m) /\ a.cache = b.cache /\ a.delivered = b.delivered
      <4>1. m \in Range(a.delivered)
        BY <2>2, <2>3, <3>1 DEF Seen, RootResult
      <4> QED BY <2>2, <2>4, <2>5, <3>1, <4>1 DEF RootResult
    <3>2. CASE a.cache = Added(b.cache, m) /\ a.delivered = Append(b.delivered, m)
      <4>1. Range(a.delivered) = Range(b.delivered) \cup {m}
        BY <2>6, <3>2, RangeOfAppend
      <4>2. Range(a.cache.keys) \subseteq Range(b.cache.keys) \cup {m}
        BY <2>6, <3>2, RangeOfAdded
      <4> QED BY <2>2, <2>3, <2>4, <2>5, <4>1, <4>2 DEF RootResult
    <3> QED BY <2>4, <3>1, <3>2
  <2> QED BY <1>1, <2>1, <2>7 DEF a
<1>5. N \in S
  <2>1. 0 .. N \subseteq S
    <3> HIDE DEF S, N
    <3> QED BY <1>1, <1>3, <1>4, Induction
  <2> QED BY <1>1, <2>1
<1>6. QED
  BY <1>1, <1>2, <1>5

------------------------------------------------------------------------------
(* The types and the hops, in every step. *)

\* What a frame received leaves in a slot of its destination.
ReceivedSlot(r, f, g) ==
  IF f = None THEN g = None
  ELSE /\ g \in Entries
       /\ g.msg = f.msg /\ g.state = f.state /\ g.sent = f.sent
       /\ g.ctr = f.ctr /\ g.key = f.key /\ g.late = f.late /\ g.owed \in {f.owed, None}
       /\ r.refused => g.owed # Frame

\* The queue of a frame's destination, acknowledgements owed for the frame cancelled.
LEMMA ReceiveQueue ==
  ASSUME TypeInv, air # None, NEW n \in air.to, NEW old, NEW refusing, Receive(n, old, refusing),
         NEW r, r = Received(n, old, refusing)
  PROVE  /\ r \in Results
         /\ \E q \in Queues :
              /\ queue' = [queue EXCEPT ![n] = q]
              /\ \A s \in Slots : ReceivedSlot(r, r.queue[s], q[s])
<1>1. n \in Nodes /\ air \in Frames
  BY DEF TypeInv, TypeOK, Frames
<1>2. r \in Results
  <2>1. CASE n = Root
    BY <2>1, ReceivedByRoot DEF TypeInv, CacheKnown
  <2>2. CASE n # Root
    <3>1. n \in Nodes \ {Root}
      BY <1>1, <2>2
    <3> QED BY <3>1, ReceivedByNode DEF TypeInv
  <2> QED BY <2>1, <2>2
<1> DEFINE q == IF r.ack \/ r.refused THEN Cancelled(r.queue, Frame) ELSE r.queue
<1>3. queue' = [queue EXCEPT ![n] = q]
  BY DEF Receive
<1>4. r.queue \in Queues
  BY <1>2 DEF Results
<1>5. q \in Queues
  BY <1>4, CancelledType
<1>6. ASSUME NEW s \in Slots PROVE ReceivedSlot(r, r.queue[s], q[s])
  <2> DEFINE e == r.queue[s]
             c == [e EXCEPT !.owed = None]
  <2>1. e = None \/ e \in Entries
    BY <1>4 DEF Queues
  <2>2. q[s] = IF (r.ack \/ r.refused) /\ e # None /\ e.owed = Frame THEN c ELSE e
    BY DEF Cancelled
  <2>3. Frame # None
    <3>1. Frame \in [source : Nodes, ctr : Nat]
      BY <1>1 DEF Frame, Frames
    <3> QED BY <3>1, NoneAssumption
  <2>4. e \in Entries => c \in Entries /\ c.owed = None
    BY DEF Entries
  <2>7. e \in Entries => /\ c.msg = e.msg /\ c.state = e.state /\ c.sent = e.sent
                          /\ c.ctr = e.ctr /\ c.key = e.key /\ c.late = e.late
    BY DEF Entries
  <2> HIDE DEF q, c
  <2>5. CASE q[s] = c /\ e \in Entries
    BY <2>3, <2>4, <2>5, <2>7, NoneAssumption DEF ReceivedSlot
  <2>6. CASE q[s] = e /\ (r.refused /\ e # None => e.owed # Frame)
    <3> DEFINE g == q[s]
    <3>1. g = e /\ (e = None \/ e \in Entries) /\ (r.refused /\ e # None => g.owed # Frame)
      BY <2>1, <2>6
    <3> HIDE DEF e, g
    <3>2. ReceivedSlot(r, e, g)
      BY <3>1 DEF ReceivedSlot
    <3> QED BY <3>2 DEF e, g
  <2> QED BY <2>1, <2>2, <2>5, <2>6
<1>7. QED
  BY <1>2, <1>3, <1>5, <1>6

\* A frame received is mild: it stores fresh entries.
LEMMA ReceiveMild ==
  ASSUME TypeInv, air # None, NEW n \in air.to, NEW old, NEW refusing, Receive(n, old, refusing)
  PROVE  Mild
<1> DEFINE r == Received(n, old, refusing)
<1>1. n \in Nodes /\ air \in Frames /\ queue \in [Nodes -> Queues]
  BY DEF TypeInv, TypeOK, Frames, Queues
<1>2. r \in Results /\ \E q \in Queues :
              /\ queue' = [queue EXCEPT ![n] = q]
              /\ \A s \in Slots : ReceivedSlot(r, r.queue[s], q[s])
  <2> HIDE DEF r
  <2>1. r = Received(n, old, refusing)
    BY DEF r
  <2> QED BY <2>1, ReceiveQueue
<1>3. PICK q \in Queues :
              /\ queue' = [queue EXCEPT ![n] = q]
              /\ \A s \in Slots : ReceivedSlot(r, r.queue[s], q[s])
  BY <1>2
<1>4. r.queue = queue[Root] \/ n # Root
  BY ReceivedByRoot DEF TypeInv, CacheKnown, RootResult
<1>5. ASSUME n # Root PROVE NodeResult(n, r, Len(air.messages))
  <2>1. n \in Nodes \ {Root}
    BY <1>1, <1>5
  <2> QED BY <2>1, ReceivedByNode DEF TypeInv
<1> HIDE DEF r
<1>6. ASSUME NEW s \in Slots PROVE SlotStep(n, s)
  <2> DEFINE e == queue[n][s]
             f == r.queue[s]
             g == queue'[n][s]
  <2>1. g = q[s] /\ ReceivedSlot(r, f, g) /\ (f = None \/ f \in Entries)
    BY <1>1, <1>2, <1>3 DEF Queues, Results
  <2>2. CASE e # None
    <3>1. f = e
      BY <1>4, <1>5, <2>2 DEF NodeResult
    <3>2. e \in Entries /\ (e.state = "LATE" => e.sent = Root)
      BY <1>1, <2>2, EntryAt
    <3> HIDE DEF e, f, g
    <3>3. g # None => Weaker(e, g)
      BY <2>1, <2>2, <3>1, <3>2 DEF ReceivedSlot, Weaker, Entries
    <3> QED BY <2>2, <3>3 DEF SlotStep, e, g
  <2>3. CASE e = None /\ n = Root
    BY <1>4, <2>1, <2>3 DEF SlotStep, ReceivedSlot
  <2>4. CASE e = None /\ n # Root
    <3>1. f # None => \E m \in Range(air.messages) : f = Entry(m, n \in routed, Frame)
      BY <1>5, <2>4 DEF NodeResult
    <3>2. f # None => Fresh(f)
      BY <3>1, EntryFresh
    <3> HIDE DEF f, g
    <3>3. g # None => Fresh(g)
      BY <2>1, <3>2 DEF ReceivedSlot, Fresh, Entries
    <3> QED BY <2>4, <3>3 DEF SlotStep, g
  <2> QED BY <2>2, <2>3, <2>4
<1>7. QED
  BY <1>1, <1>3, <1>6, MildNode DEF MildAt

\* The hops after a mild step.
LEMMA MildHops ==
  ASSUME TypeInv, Mild
  PROVE  Hops'
<1>1. ASSUME NEW n \in Nodes, NEW s \in Slots, queue'[n][s] # None
      PROVE  /\ n # Root
             /\ queue'[n][s].key \/ queue'[n][s].state = "PENDING" => queue'[n][s].sent \in Nodes \ {n}
             /\ queue'[n][s].state = "LATE" => queue'[n][s].sent = Root
  <2>1. SlotStep(n, s)
    BY DEF Mild
  <2>2. CASE queue[n][s] # None /\ Weaker(queue[n][s], queue'[n][s])
    BY <2>2, EntryAt DEF Weaker
  <2>3. CASE n # Root /\ Fresh(queue'[n][s])
    BY <2>3 DEF Fresh
  <2> QED BY <1>1, <2>1, <2>2, <2>3 DEF SlotStep
<1>2. QED
  BY <1>1 DEF Hops, Used

\* The sequence of a finite set has its elements.
LEMMA OrderOf ==
  ASSUME NEW S \in SUBSET Slots
  PROVE  /\ DOMAIN SetToSeq(S) = 1 .. Cardinality(S) /\ Cardinality(S) \in Nat
         /\ {SetToSeq(S)[i] : i \in 1 .. Cardinality(S)} = S
<1>1. IsFiniteSet(S)
  <2>1. IsFiniteSet(1 .. QUEUE)
    BY FS_Interval, ChainAssumption
  <2> QED BY <2>1, FS_Subset DEF Slots
<1> DEFINE I == 1 .. Cardinality(S)
           Good(f) == f \in [I -> S] /\ IsInjective(f)
<1>2. Cardinality(S) \in Nat /\ Bijection(I, S) # {}
  BY <1>1, FS_CardinalityType DEF ExistsBijection
<1>3. \E f : Good(f)
  BY <1>2 DEF Bijection, Injection
<1>4. Good(SetToSeq(S))
  <2>1. SetToSeq(S) = CHOOSE f \in [I -> S] : IsInjective(f)
    BY DEF SetToSeq
  <2> QED BY <1>3, <2>1
<1>5. IsFiniteSet(I) /\ Cardinality(I) = Cardinality(S)
  BY <1>2, FS_Interval
<1>6. SetToSeq(S) \in Injection(I, S)
  BY <1>4 DEF Injection
<1>7. SetToSeq(S) \in Surjection(I, S)
  BY <1>1, <1>5, <1>6, FS_Injection
<1>8. QED
  BY <1>2, <1>4, <1>7 DEF Surjection

\* What a frame sent leaves in a slot of its source.
SentSlot(dest, inFrame, e, f) ==
  IF inFrame
    THEN /\ e # None /\ e.state = "IDLE" /\ f \in Entries
         /\ f.msg = e.msg /\ f.state = "PENDING" /\ f.sent = dest /\ f.ctr = sent + 1
         /\ f.owed = None /\ f.late = IF dest = Root THEN e.late \cup {sent + 1} ELSE e.late
  ELSE IF e = None THEN f = None
  ELSE /\ f \in Entries
       /\ f.msg = e.msg /\ f.state = e.state /\ f.sent = e.sent /\ f.ctr = e.ctr
       /\ f.owed = e.owed /\ f.late = e.late /\ (f.key => e.key)

\* A frame sent changes the queue of its source only, slot by slot.
LEMMA TransmitQueue ==
  ASSUME TypeInv, NEW n \in Nodes \ {Root}, NEW dest \in Nodes \ {n}, NEW S \in SUBSET Slots,
         NEW heard, Transmit(n, dest, S, heard)
  PROVE  \E q \in Queues :
           /\ queue' = [queue EXCEPT ![n] = q]
           /\ \A s \in Slots : SentSlot(dest, s \in S, queue[n][s], q[s])
<1>1. queue[n] \in Queues /\ sent \in Nat /\ sent + 1 \in Nat /\ dest \in Nodes
  BY ChainAssumption DEF TypeInv, TypeOK, Queues
<1> DEFINE q == Sent(queue[n], S, dest, sent + 1)
           packed(e) == [msg |-> e.msg, state |-> "PENDING", sent |-> dest, ctr |-> sent + 1, key |-> TRUE,
                         owed |-> None, late |-> IF dest = Root THEN e.late \cup {sent + 1} ELSE e.late]
           other(e) == [e EXCEPT !.key = FALSE]
<1>2. queue' = [queue EXCEPT ![n] = q]
  BY DEF Transmit
<1>3. ASSUME NEW s \in Slots
      PROVE  q[s] = IF s \in S THEN packed(queue[n][s])
                    ELSE IF queue[n][s] # None /\ \E t \in S : queue[n][t].msg = queue[n][s].msg
                           THEN other(queue[n][s])
                    ELSE queue[n][s]
  BY DEF Sent
<1>4. ASSUME NEW e \in Entries PROVE SentSlot(dest, FALSE, e, other(e)) /\ SentSlot(dest, FALSE, e, e)
  <2>1. e # None
    BY NoneAssumption
  <2> QED BY <2>1 DEF SentSlot, Entries
<1>5. ASSUME NEW e \in Entries, e.state = "IDLE" PROVE SentSlot(dest, TRUE, e, packed(e))
  <2> DEFINE late == IF dest = Root THEN e.late \cup {sent + 1} ELSE e.late
             p == packed(e)
  <2>1. late \in SUBSET Nat
    BY <1>1 DEF Entries
  <2>2. p = [msg |-> e.msg, state |-> "PENDING", sent |-> dest, ctr |-> sent + 1, key |-> TRUE,
             owed |-> None, late |-> late]
    OBVIOUS
  <2>3. e # None
    BY NoneAssumption
  <2> HIDE DEF p, late
  <2>4. p \in Entries
    BY <1>1, <2>1, <2>2 DEF Entries
  <2>5. SentSlot(dest, TRUE, e, p)
    BY <1>5, <2>2, <2>3, <2>4 DEF SentSlot, late
  <2> QED BY <2>5 DEF p
<1>6. ASSUME NEW s \in Slots PROVE SentSlot(dest, s \in S, queue[n][s], q[s])
  <2> DEFINE e == queue[n][s]
  <2>1. e = None \/ e \in Entries
    BY <1>1 DEF Queues
  <2>2. CASE s \in S
    <3>1. e # None /\ e.state = "IDLE"
      BY <2>2 DEF Transmit
    <3>2. q[s] = packed(e)
      BY <1>3, <2>2
    <3> HIDE DEF packed, q, e
    <3>3. SentSlot(dest, TRUE, e, q[s])
      BY <1>5, <2>1, <3>1, <3>2
    <3>4. (s \in S) = TRUE
      BY <2>2
    <3> QED BY <3>3, <3>4 DEF e
  <2>3. CASE s \notin S
    <3>1. e = None => q[s] = None
      BY <1>3, <2>3
    <3>2. e # None => q[s] \in {other(e), e}
      BY <1>3, <2>3
    <3>3. (s \in S) = FALSE
      BY <2>3
    <3> HIDE DEF other, q, e
    <3>4. e # None => SentSlot(dest, FALSE, e, q[s])
      BY <1>4, <2>1, <3>2
    <3>5. e = None => SentSlot(dest, FALSE, e, q[s])
      BY <3>1 DEF SentSlot
    <3> QED BY <3>3, <3>4, <3>5 DEF e
  <2> QED BY <2>2, <2>3
<1>7. q \in Queues
  <2>1. \A s \in Slots : q[s] \in {None} \cup Entries
    <3> HIDE DEF q
    <3> QED BY <1>6 DEF SentSlot
  <2>2. DOMAIN q = Slots /\ q = [s \in Slots |-> q[s]]
    BY DEF Sent
  <2> HIDE DEF q
  <2> QED BY <2>1, <2>2 DEF Queues
<1>8. QED
  BY <1>2, <1>6, <1>7

\* The frame sent has the messages of the slots S.
LEMMA TransmitAir ==
  ASSUME TypeInv, NEW n \in Nodes \ {Root}, NEW dest \in Nodes \ {n}, NEW S \in SUBSET Slots,
         NEW heard \in SUBSET ({dest} \cup Waiting(n)), Transmit(n, dest, S, heard), air' # None
  PROVE  /\ air' \in Frames
         /\ air'.source = n /\ air'.ctr = sent + 1 /\ air'.dest = dest /\ air'.to = heard
         /\ Range(air'.messages) = {queue[n][s].msg : s \in S}
         /\ n \notin heard
<1> DEFINE order == SetToSeq(S)
           messages == [i \in DOMAIN order |-> queue[n][order[i]].msg]
<1>1. queue[n] \in Queues /\ sent \in Nat /\ n \in Nodes /\ dest \in Nodes
  BY ChainAssumption DEF TypeInv, TypeOK, Queues
<1>2. air' = [source |-> n, ctr |-> sent + 1, dest |-> dest, to |-> heard, messages |-> messages]
  BY DEF Transmit
<1>3. DOMAIN order = 1 .. Cardinality(S) /\ Cardinality(S) \in Nat /\ {order[i] : i \in 1 .. Cardinality(S)} = S
  BY OrderOf
<1>4. \A s \in S : queue[n][s].msg \in Messages
  BY <1>1, NoneAssumption DEF Transmit, Queues, Entries
<1> HIDE DEF order
<1>5. messages \in Seq(Messages)
  BY <1>3, <1>4
<1>6. Range(messages) = {queue[n][s].msg : s \in S}
  BY <1>3 DEF Range
<1>7. n \notin Waiting(n)
  <2>1. SUFFICES ASSUME n \in Waiting(n) PROVE FALSE
    OBVIOUS
  <2>2. PICK s \in Slots : queue[n][s] # None /\ queue[n][s].key /\ queue[n][s].sent = n
    BY <2>1 DEF Waiting, Used
  <2> QED BY <1>1, <2>2, EntryAt
<1>8. heard \subseteq Nodes /\ n \notin heard
  BY <1>1, <1>7 DEF Waiting
<1> HIDE DEF messages
<1>9. air' \in Frames
  <2>1. sent + 1 \in Nat \ {0}
    BY <1>1
  <2> QED BY <1>1, <1>2, <1>5, <1>8, <2>1 DEF Frames
<1>10. QED
  BY <1>2, <1>6, <1>8, <1>9

\* A frame on air goes on unchanged, or is over.
AirStep ==
  \/ air' = None
  \/ /\ air # None /\ air' \in Frames /\ air'.to \subseteq air.to
     /\ air'.source = air.source /\ air'.ctr = air.ctr /\ air'.dest = air.dest
     /\ air'.messages = air.messages

\* A frame received goes on to the other nodes, unchanged,
LEMMA HeardStep ==
  ASSUME TypeOK, air # None, NEW n, air' = Heard(n)
  PROVE  AirStep
BY DEF TypeOK, Frames, Heard, AirStep

\* or nothing comes of it.
LEMMA AirStays ==
  ASSUME TypeOK, air' = air
  PROVE  AirStep
BY DEF TypeOK, AirStep

\* The actions but Transmit.
LEMMA MildStep ==
  ASSUME TypeInv, Next
  PROVE  \/ Mild /\ sent' = sent /\ AirStep
         \/ \E n \in Nodes \ {Root} : \E dest \in Nodes \ {n}, S \in SUBSET Slots :
              \E heard \in SUBSET ({dest} \cup Waiting(n)) : Transmit(n, dest, S, heard)
<1>1. ASSUME NEW m \in Messages, Submit(m) PROVE Mild /\ sent' = sent /\ AirStep
  BY <1>1, SubmitMild, AirStays DEF Submit, TypeInv
<1>2. ASSUME NEW n \in Nodes \ {Root}, Detach(n) PROVE Mild /\ sent' = sent /\ AirStep
  BY <1>2, DetachMild, AirStays DEF Detach, TypeInv
<1>3. ASSUME NEW n \in Nodes \ {Root}, NEW expired \in SUBSET Slots, NEW route \in BOOLEAN,
             ResumeHeld(n, expired, route)
      PROVE  Mild /\ sent' = sent /\ AirStep
  BY <1>3, ResumeHeldMild, AirStays DEF ResumeHeld, TypeInv
<1>4. ASSUME NEW n \in Nodes \ {Root}, NEW s \in Slots, Timeout(n, s) PROVE Mild /\ sent' = sent /\ AirStep
  BY <1>4, TimeoutMild, AirStays DEF Timeout, TypeInv
<1>5. ASSUME NEW n \in Nodes \ {Root}, NEW s \in Slots, OweDue(n, s) PROVE Mild /\ sent' = sent /\ AirStep
  BY <1>5, CancelledMild, AirStays DEF OweDue, TypeInv, history
<1>6. ASSUME air # None, NEW n \in air.to, NEW old, NEW refusing, Receive(n, old, refusing)
      PROVE  Mild /\ sent' = sent /\ AirStep
  BY <1>6, ReceiveMild, HeardStep DEF Receive, TypeInv
<1>7. ASSUME air # None, NEW n \in air.to, Overhear(n) PROVE Mild /\ sent' = sent /\ AirStep
  <2>1. n \in Nodes
    BY <1>7 DEF TypeInv, TypeOK, Frames
  <2> QED BY <1>7, <2>1, WithoutMild, HeardStep DEF Overhear, TypeInv
<1>8. ASSUME NEW a \in acks, OnAck(a) PROVE Mild /\ sent' = sent /\ AirStep
  <2>1. a.to \in Nodes
    BY DEF TypeInv, TypeOK
  <2> QED BY <1>8, <2>1, WithoutMild, AirStays DEF OnAck, TypeInv
<1>9. QED
  BY <1>1, <1>2, <1>3, <1>4, <1>5, <1>6, <1>7, <1>8 DEF Next

\* The other variables.
OtherTypes ==
  /\ routed \subseteq Nodes \ {Root}
  /\ cache \in [Nodes -> Caches]
  /\ acks \subseteq [by : Nodes, to : Nodes, ctr : Nat]
  /\ submitted \subseteq Messages /\ failed \subseteq Messages /\ aged \subseteq Messages
  /\ deliveries \in Seq(Messages)
  /\ CacheKnown

\* The types of the other variables after a frame received,
LEMMA ReceiveTypes ==
  ASSUME TypeInv, air # None, NEW n \in air.to, NEW old \in SUBSET Messages, NEW refusing,
         Receive(n, old, refusing)
  PROVE  OtherTypes'
<1> DEFINE r == Received(n, old, refusing)
<1>1. n \in Nodes /\ air \in Frames /\ cache \in [Nodes -> Caches]
  BY DEF TypeInv, TypeOK, Frames, Caches
<1>2. r \in Results
  <2> HIDE DEF r
  <2>1. r = Received(n, old, refusing)
    BY DEF r
  <2> QED BY <2>1, ReceiveQueue
<1>3. n = Root => Range(r.cache.keys) \subseteq Range(r.delivered) \cup {None}
  BY ReceivedByRoot DEF TypeInv, CacheKnown, RootResult
<1>4. n # Root => r.delivered = deliveries
  <2>1. n # Root => n \in Nodes \ {Root}
    BY <1>1
  <2> QED BY <2>1, ReceivedByNode DEF TypeInv, NodeResult
<1>5. acks' \subseteq [by : Nodes, to : Nodes, ctr : Nat]
  <2>1. [by |-> n, to |-> Frame.source, ctr |-> Frame.ctr] \in [by : Nodes, to : Nodes, ctr : Nat]
    BY <1>1 DEF Frame, Frames
  <2>2. acks' = acks \/ acks' = acks \cup {[by |-> n, to |-> Frame.source, ctr |-> Frame.ctr]}
    BY DEF Receive, Acknowledge
  <2> QED BY <2>1, <2>2 DEF TypeInv, TypeOK
<1>6. cache' = [cache EXCEPT ![n] = r.cache] /\ deliveries' = r.delivered /\ aged' \in {aged, aged \cup old}
      /\ UNCHANGED <<routed, submitted, failed>>
  BY DEF Receive
<1> HIDE DEF r
<1>7. r.cache \in Caches /\ r.delivered \in Seq(Messages)
  BY <1>2 DEF Results
<1>8. cache' \in [Nodes -> Caches]
  BY <1>1, <1>6, <1>7
<1>9. CacheKnown'
  <2>1. CASE n = Root
    BY <1>1, <1>3, <1>6, <2>1 DEF CacheKnown
  <2>2. CASE n # Root
    <3>1. cache'[Root] = cache[Root]
      BY <1>1, <1>6, <2>2, ChainAssumption
    <3> QED BY <1>4, <1>6, <2>2, <3>1 DEF CacheKnown, TypeInv
  <2> QED BY <2>1, <2>2
<1>10. QED
  BY <1>5, <1>6, <1>7, <1>8, <1>9 DEF OtherTypes, TypeInv, TypeOK

\* and after any step.
LEMMA OtherStep ==
  ASSUME TypeInv, Next
  PROVE  OtherTypes'
<1>0. OtherTypes
  BY DEF TypeInv, TypeOK, OtherTypes, Caches
<1>1. ASSUME NEW m \in Messages, Submit(m) PROVE OtherTypes'
  BY <1>0, <1>1 DEF Submit, OtherTypes, CacheKnown
<1>2. ASSUME NEW n \in Nodes \ {Root}, Detach(n) PROVE OtherTypes'
  BY <1>0, <1>2 DEF Detach, OtherTypes, CacheKnown, history
<1>3. ASSUME NEW n \in Nodes \ {Root}, NEW expired \in SUBSET Slots, NEW route \in BOOLEAN,
             ResumeHeld(n, expired, route)
      PROVE  OtherTypes'
  <2>1. {queue[n][s].msg : s \in expired} \subseteq Messages
    <3>1. \A s \in expired : queue[n][s] # None /\ s \in Slots
      BY <1>3 DEF ResumeHeld
    <3>2. \A s \in expired : queue[n][s] \in Entries
      BY <3>1, EntryAt
    <3> QED BY <3>2 DEF Entries
  <2>2. routed' \subseteq Nodes \ {Root} /\ failed' \subseteq Messages
        /\ UNCHANGED <<cache, acks, submitted, deliveries, aged>>
    BY <1>0, <1>3, <2>1 DEF ResumeHeld, OtherTypes
  <2> QED BY <1>0, <2>2 DEF OtherTypes, CacheKnown
<1>4. ASSUME NEW n \in Nodes \ {Root}, NEW s \in Slots, Timeout(n, s) PROVE OtherTypes'
  BY <1>0, <1>4 DEF Timeout, OtherTypes, CacheKnown, history
<1>5. ASSUME NEW n \in Nodes \ {Root}, NEW s \in Slots, OweDue(n, s) PROVE OtherTypes'
  <2> DEFINE f == queue[n][s].owed
  <2>1. f \in [source : Nodes, ctr : Nat]
    <3>1. queue[n][s] \in Entries /\ f # None
      BY <1>5, EntryAt DEF OweDue
    <3> QED BY <3>1 DEF Entries
  <2>2. acks' = acks \cup {[by |-> n, to |-> f.source, ctr |-> f.ctr]}
    BY <1>5 DEF OweDue, Acknowledge
  <2> HIDE DEF f
  <2>3. acks' \subseteq [by : Nodes, to : Nodes, ctr : Nat]
    BY <1>0, <2>1, <2>2 DEF OtherTypes
  <2> QED BY <1>0, <1>5, <2>3 DEF OweDue, OtherTypes, CacheKnown, history
<1>6. ASSUME air # None, NEW n \in air.to, NEW old \in SUBSET Messages, NEW refusing,
             Receive(n, old, refusing)
      PROVE  OtherTypes'
  BY <1>6, ReceiveTypes
<1>7. ASSUME NEW n, Overhear(n) PROVE OtherTypes'
  BY <1>0, <1>7 DEF Overhear, OtherTypes, CacheKnown, history
<1>8. ASSUME NEW a \in acks, OnAck(a) PROVE OtherTypes'
  <2>1. acks' \subseteq acks
    BY <1>8 DEF OnAck
  <2> QED BY <1>0, <1>8, <2>1 DEF OnAck, OtherTypes, CacheKnown, history
<1>9. ASSUME NEW n, NEW dest, NEW S, NEW heard, Transmit(n, dest, S, heard) PROVE OtherTypes'
  BY <1>0, <1>9 DEF Transmit, OtherTypes, CacheKnown, history
<1>10. QED
  BY <1>1, <1>2, <1>3, <1>4, <1>5, <1>6, <1>7, <1>8, <1>9 DEF Next

\* The hops after a frame sent.
LEMMA TransmitHops ==
  ASSUME TypeInv, NEW n \in Nodes \ {Root}, NEW dest \in Nodes \ {n}, NEW S \in SUBSET Slots,
         NEW heard, Transmit(n, dest, S, heard)
  PROVE  queue' \in [Nodes -> Queues] /\ Hops'
<1>1. queue \in [Nodes -> Queues] /\ n \in Nodes /\ n # Root /\ dest \in Nodes \ {n}
  BY DEF TypeInv, TypeOK, Queues
<1>2. PICK q \in Queues :
           /\ queue' = [queue EXCEPT ![n] = q]
           /\ \A s \in Slots : SentSlot(dest, s \in S, queue[n][s], q[s])
  BY TransmitQueue
<1>3. ASSUME NEW k \in Nodes, NEW s \in Slots, queue'[k][s] # None
      PROVE  /\ k # Root
             /\ queue'[k][s].key \/ queue'[k][s].state = "PENDING" => queue'[k][s].sent \in Nodes \ {k}
             /\ queue'[k][s].state = "LATE" => queue'[k][s].sent = Root
  <2>1. CASE k # n
    <3>1. queue'[k] = queue[k]
      BY <1>1, <1>2, <2>1
    <3> QED BY <1>3, <3>1, EntryAt
  <2>2. CASE k = n
    <3>1. queue'[n][s] = q[s]
      BY <1>1, <1>2
    <3>2. SentSlot(dest, s \in S, queue[n][s], q[s])
      BY <1>2
    <3> DEFINE e == queue[n][s]
               f == q[s]
    <3>3. e # None => /\ e.key \/ e.state = "PENDING" => e.sent \in Nodes \ {n}
                      /\ e.state = "LATE" => e.sent = Root
      BY <1>1, EntryAt
    <3>4. f # None
      BY <1>3, <2>2, <3>1
    <3> HIDE DEF e, f
    <3>5. /\ f.key \/ f.state = "PENDING" => f.sent \in Nodes \ {n}
          /\ f.state = "LATE" => f.sent = Root
      <4>1. SentSlot(dest, s \in S, e, f)
        BY <3>2 DEF e, f
      <4> QED BY <1>1, <3>3, <3>4, <4>1 DEF SentSlot
    <3> QED BY <1>1, <2>2, <3>1, <3>5 DEF f
  <2> QED BY <2>1, <2>2
<1>4. queue' \in [Nodes -> Queues]
  BY <1>1, <1>2
<1>5. QED
  BY <1>3, <1>4 DEF Hops, Used

\* The type invariant is inductive.
LEMMA TypeStep ==
  ASSUME TypeInv, [Next]_vars
  PROVE  TypeInv'
<1>1. CASE UNCHANGED vars
  BY <1>1 DEF vars, TypeInv, TypeOK, Hops, Used, CacheKnown
<1>2. CASE Next
  <2>1. OtherTypes'
    BY <1>2, OtherStep
  <2>2. CASE Mild /\ sent' = sent /\ AirStep
    <3>1. queue' \in [Nodes -> Queues] /\ Hops'
      BY <2>2, MildHops DEF Mild
    <3>2. sent' \in 0 .. MAX_FRAMES
      BY <2>2 DEF TypeInv, TypeOK
    <3>3. air' # None => /\ air' \in Frames /\ air'.ctr = sent'
                         /\ air'.source # Root /\ air'.source \notin air'.to \cup {air'.dest}
      BY <2>2 DEF TypeInv, TypeOK, AirStep
    <3> QED BY <2>1, <3>1, <3>2, <3>3 DEF TypeInv, TypeOK, OtherTypes, Queues, Caches
  <2>3. ASSUME NEW n \in Nodes \ {Root}, NEW dest \in Nodes \ {n}, NEW S \in SUBSET Slots,
               NEW heard \in SUBSET ({dest} \cup Waiting(n)), Transmit(n, dest, S, heard)
        PROVE  TypeInv'
    <3>1. queue' \in [Nodes -> Queues] /\ Hops'
      BY <2>3, TransmitHops
    <3>2. sent' \in 0 .. MAX_FRAMES /\ sent' = sent + 1
      BY <2>3, ChainAssumption DEF TypeInv, TypeOK, Transmit
    <3>3. air' # None => /\ air' \in Frames /\ air'.ctr = sent'
                         /\ air'.source # Root /\ air'.source \notin air'.to \cup {air'.dest}
      <4>1. SUFFICES ASSUME air' # None
                     PROVE  /\ air' \in Frames /\ air'.ctr = sent'
                            /\ air'.source # Root /\ air'.source \notin air'.to \cup {air'.dest}
        OBVIOUS
      <4>2. /\ air' \in Frames /\ air'.source = n /\ air'.ctr = sent + 1 /\ air'.dest = dest
            /\ air'.to = heard /\ n \notin heard
        BY <2>3, <4>1, TransmitAir
      <4> QED BY <3>2, <4>2
    <3> QED BY <2>1, <3>1, <3>2, <3>3 DEF TypeInv, TypeOK, OtherTypes, Queues, Caches
  <2> QED BY <1>2, <2>2, <2>3, MildStep
<1>3. QED
  BY <1>1, <1>2

\* It holds at first.
LEMMA TypeInit ==
  ASSUME Init
  PROVE  TypeInv
<1>1. queue \in [Nodes -> Queues] /\ \A n \in Nodes : Used(queue[n]) = {}
  BY DEF Init, Used, Queues
<1>2. [keys |-> [i \in 1 .. CACHE |-> None], next |-> 1] \in Caches
  BY ChainAssumption DEF Caches
<1>3. cache \in [Nodes -> Caches]
  BY <1>2 DEF Init
<1>4. CacheKnown
  BY ChainAssumption DEF Init, CacheKnown, Range
<1>5. sent \in 0 .. MAX_FRAMES /\ air = None
  BY ChainAssumption DEF Init
<1>6. deliveries \in Seq(Messages)
  BY DEF Init
<1>7. QED
  BY <1>1, <1>3, <1>4, <1>5, <1>6 DEF Init, TypeInv, TypeOK, Hops, Queues, Caches

\* The types of the queues, caches and frames are those the model claims.
THEOREM TypeCorrect == Spec => []TypeOK
<1>1. TypeInv /\ [Next]_vars => TypeInv'
  BY TypeStep
<1>2. TypeInv => TypeOK
  BY DEF TypeInv
<1>3. Init => TypeInv
  BY TypeInit
<1>4. QED
  BY <1>1, <1>2, <1>3, PTL DEF Spec

------------------------------------------------------------------------------
(* Custody, in a step that sends nothing. *)

\* What is over stays over.
OverGrows == Range(deliveries) \subseteq Range(deliveries') /\ failed \subseteq failed'

\* The copies removed leave others, as secure as they were.
Leaves ==
  \A n \in Nodes, s \in Slots, m \in Messages, c \in Int :
    queue[n][s] # None /\ queue[n][s].msg = m /\ Secure(queue[n][s], c) /\ queue'[n][s] = None
    => Backed(m, c)'

\* What is backed stays backed when the copies removed leave others as secure,
LEMMA BackedStays ==
  ASSUME TypeInv, Mild, OverGrows, Leaves, NEW m \in Messages, NEW c \in Int, Backed(m, c)
  PROVE  Backed(m, c)'
<1>1. CASE Over(m)
  BY <1>1 DEF OverGrows, Over, Backed
<1>2. CASE ~Over(m)
  <2>1. PICK k \in Nodes, t \in Slots :
          queue[k][t] # None /\ queue[k][t].msg = m /\ Secure(queue[k][t], c)
    BY <1>2 DEF Backed, Used
  <2>2. CASE queue'[k][t] = None
    BY <2>1, <2>2 DEF Leaves
  <2>3. CASE queue'[k][t] # None
    <3>1. Weaker(queue[k][t], queue'[k][t])
      BY <2>1, <2>3 DEF Mild, SlotStep
    <3>2. queue'[k][t].msg = m /\ Secure(queue'[k][t], c)
      BY <2>1, <3>1 DEF Weaker, Secure
    <3> QED BY <2>3, <3>2 DEF Backed, Used
  <2> QED BY <2>2, <2>3
<1>3. QED
  BY <1>1, <1>2

\* and promises stay kept.
LEMMA PromisedStays ==
  ASSUME TypeInv, Mild, OverGrows, Leaves, NEW by, NEW to \in Nodes, NEW c \in Nat, Promised(by, to, c)
  PROVE  Promised(by, to, c)'
<1>1. SUFFICES ASSUME NEW m \in Messages, NEW s \in Slots, queue'[to][s] # None,
                      queue'[to][s].msg = m, queue'[to][s].state = "PENDING",
                      queue'[to][s].ctr = c, queue'[to][s].sent = by
               PROVE  Backed(m, c)'
  BY DEF Promised, Used
<1>2. queue[to][s] # None /\ Weaker(queue[to][s], queue'[to][s])
  BY <1>1 DEF Mild, SlotStep, Fresh
<1>3. Backed(m, c)
  BY <1>1, <1>2 DEF Weaker, Promised, Used
<1>4. QED
  BY <1>3, BackedStays

\* A message is not lost when it is backed at all.
LEMMA NotLostBacked ==
  ASSUME TypeInv, NEW m
  PROVE  Over(m) \/ HoldersOf(m) # {} <=> Backed(m, -1)
<1>1. ASSUME NEW k \in Nodes, NEW t \in Slots, queue[k][t] # None PROVE Secure(queue[k][t], -1)
  BY <1>1, EntryAt DEF Entries, Secure
<1>2. HoldersOf(m) # {} <=> \E k \in Nodes : \E t \in Used(queue[k]) : queue[k][t].msg = m
  BY DEF HoldersOf
<1>3. QED
  BY <1>1, <1>2 DEF Backed, Used

\* The entries stored, and the acknowledgements sent.
NewEntries ==
  \A n \in Nodes, s \in Slots :
    queue[n][s] = None /\ queue'[n][s] # None =>
      /\ queue'[n][s].msg \in submitted'
      /\ \A f \in [source : Nodes, ctr : Nat] :
           queue'[n][s].owed = f => f.ctr <= sent /\ Promised(n, f.source, f.ctr)'

\* The acknowledgements sent promise only what is backed.
NewAcks ==
  \A a \in acks' : a \in acks \/
    /\ a.ctr <= sent
    /\ a.by # Root => Promised(a.by, a.to, a.ctr)'
    /\ a.by = Root => \A s \in Used(queue'[a.to]) :
                        a.ctr \in queue'[a.to][s].late => queue'[a.to][s].msg \in Range(deliveries')

\* The messages submitted are backed.
NewMessages ==
  /\ submitted \subseteq submitted'
  /\ \A m \in submitted' : m \in submitted \/ Backed(m, -1)'
  /\ Range(deliveries') \cup failed' \subseteq submitted'

\* The copies of a frame to the root removed are over, or the frame is.
FrameLeaves ==
  air' # None /\ air.dest = Root =>
    \A s \in Slots :
      LET e == queue[air.source][s]
      IN  e # None /\ e.ctr = air.ctr /\ e.sent = Root /\ queue'[air.source][s] = None
          => e.msg \in Range(deliveries') \cup failed'

\* What every step but Transmit does to the custody of the messages.
Gentle ==
  /\ Mild /\ sent' = sent /\ AirStep
  /\ OverGrows /\ Leaves /\ NewEntries /\ NewAcks /\ NewMessages /\ FrameLeaves

\* Such steps keep the custody invariant.
LEMMA GentleStep ==
  ASSUME CustodyInv, Gentle, TypeInv'
  PROVE  CustodyInv'
<1> USE DEF CustodyInv
<1>0. TypeInv /\ Mild /\ OverGrows /\ Leaves /\ sent' = sent /\ sent \in Nat
  BY ChainAssumption DEF Gentle, TypeInv, TypeOK
<1>1. ASSUME NEW n \in Nodes, NEW s \in Slots, queue'[n][s] # None
      PROVE  /\ \/ queue[n][s] # None /\ Weaker(queue[n][s], queue'[n][s])
                \/ queue[n][s] = None /\ Fresh(queue'[n][s])
             /\ queue[n][s] # None => queue[n][s] \in Entries
             /\ queue'[n][s] \in Entries
  <2>1. queue[n][s] # None => queue[n][s] \in Entries
    BY <1>0, EntryAt
  <2>2. queue'[n][s] \in Entries
    BY <1>1 DEF TypeInv, TypeOK
  <2> QED BY <1>0, <1>1, <2>1, <2>2 DEF Mild, SlotStep
<1>2. CountersPast'
  <2>1. ASSUME NEW n \in Nodes, NEW s \in Slots, queue'[n][s] # None
        PROVE  queue'[n][s].ctr <= sent /\ queue'[n][s].late \subseteq 1 .. sent
               /\ (queue'[n][s].owed # None => queue'[n][s].owed.ctr <= sent)
    <3>1. CASE queue[n][s] # None /\ Weaker(queue[n][s], queue'[n][s])
      BY <1>1, <2>1, <3>1 DEF CountersPast, Used, Weaker
    <3>2. CASE queue[n][s] = None /\ Fresh(queue'[n][s])
      <4>1. queue'[n][s].owed \in {None} \cup [source : Nodes, ctr : Nat]
        BY <1>1, <2>1 DEF Entries
      <4>2. queue'[n][s].owed # None => queue'[n][s].owed.ctr <= sent
        BY <2>1, <3>2, <4>1 DEF Gentle, NewEntries
      <4> QED BY <1>0, <3>2, <4>2 DEF Fresh
    <3> QED BY <1>1, <2>1, <3>1, <3>2
  <2>2. \A a \in acks' : a.ctr <= sent
    BY DEF CountersPast, Gentle, NewAcks
  <2> QED BY <1>0, <2>1, <2>2 DEF CountersPast, Used
<1>3. Known'
  <2>1. ASSUME NEW n \in Nodes, NEW s \in Slots, queue'[n][s] # None
        PROVE  queue'[n][s].msg \in submitted'
    BY <1>1, <2>1 DEF Known, Used, Weaker, Gentle, NewEntries, NewMessages
  <2>2. air' # None => Range(air'.messages) \subseteq submitted'
    BY DEF Gentle, AirStep, Known, NewMessages
  <2> QED BY <2>1, <2>2 DEF Known, Used, Gentle, NewMessages
<1>4. NotLost'
  <2>1. SUFFICES ASSUME NEW m \in submitted' PROVE (Over(m) \/ HoldersOf(m) # {})'
    BY DEF NotLost
  <2>2. m \in Messages
    BY DEF TypeInv, TypeOK
  <2>3. m \in submitted => Backed(m, -1)
    BY <1>0, NotLostBacked DEF NotLost
  <2>4. Backed(m, -1)'
    BY <1>0, <2>2, <2>3, BackedStays DEF Gentle, NewMessages
  <2>5. (Over(m) \/ HoldersOf(m) # {} <=> Backed(m, -1))'
    BY NotLostBacked, PTL
  <2> QED BY <2>4, <2>5
<1>5. FrameKnown'
  <2>1. SUFFICES ASSUME air' # None, NEW n \in Nodes, NEW s \in Slots, queue'[n][s] # None
                 PROVE  LET e == queue'[n][s]
                        IN  /\ e.ctr = air'.ctr => n = air'.source /\ e.sent = air'.dest /\ e.msg \in Range(air'.messages)
                            /\ air'.ctr \in e.late => n = air'.source /\ air'.dest = Root /\ e.msg \in Range(air'.messages)
    BY DEF FrameKnown, Used
  <2>2. air # None /\ air'.ctr = air.ctr /\ air'.source = air.source /\ air'.dest = air.dest
        /\ air'.messages = air.messages
    BY <2>1 DEF Gentle, AirStep
  <2>3. CASE queue[n][s] # None /\ Weaker(queue[n][s], queue'[n][s])
    BY <2>2, <2>3 DEF FrameKnown, Used, Weaker
  <2>4. CASE Fresh(queue'[n][s])
    <3>1. air.ctr # 0
      BY <2>2 DEF TypeInv, TypeOK, Frames
    <3> QED BY <2>2, <2>4, <3>1 DEF Fresh
  <2> QED BY <1>1, <2>1, <2>3, <2>4
<1>6. FrameBacked'
  <2>1. SUFFICES ASSUME air' # None, air'.dest = Root, NEW m \in Range(air'.messages)
                 PROVE  \/ m \in Range(deliveries') \cup failed'
                        \/ \E t \in Used(queue'[air'.source]) :
                             LET e == queue'[air'.source][t] IN e.msg = m /\ e.ctr = air'.ctr /\ e.sent = Root
    BY DEF FrameBacked, Over
  <2>2. air # None /\ air'.ctr = air.ctr /\ air'.source = air.source /\ air'.dest = air.dest
        /\ air'.messages = air.messages
    BY <2>1 DEF Gentle, AirStep
  <2>3. CASE Over(m)
    BY <1>0, <2>3 DEF OverGrows, Over
  <2>4. CASE ~Over(m)
    <3>1. PICK t \in Used(queue[air.source]) :
            LET e == queue[air.source][t] IN e.msg = m /\ e.ctr = air.ctr /\ e.sent = Root
      BY <2>1, <2>2, <2>4 DEF FrameBacked
    <3>2. t \in Slots /\ queue[air.source][t] # None /\ air.source \in Nodes
      BY <2>2, <3>1 DEF Used, TypeInv, TypeOK, Frames
    <3>3. CASE queue'[air.source][t] = None
      BY <2>1, <2>2, <3>1, <3>2, <3>3 DEF Gentle, FrameLeaves
    <3>4. CASE queue'[air.source][t] # None
      <4>1. Weaker(queue[air.source][t], queue'[air.source][t])
        BY <1>1, <3>2, <3>4
      <4> QED BY <2>2, <3>1, <3>2, <3>4, <4>1 DEF Weaker, Used
    <3> QED BY <3>3, <3>4
  <2> QED BY <2>3, <2>4
<1>7. RootPromises'
  <2>1. SUFFICES ASSUME NEW a \in acks', a.by = Root, NEW s \in Slots, queue'[a.to][s] # None,
                        a.ctr \in queue'[a.to][s].late
                 PROVE  queue'[a.to][s].msg \in Range(deliveries')
    BY DEF RootPromises, Used
  <2>2. a.to \in Nodes
    BY DEF TypeInv, TypeOK
  <2>3. CASE a \in acks
    <3>1. CASE queue[a.to][s] # None /\ Weaker(queue[a.to][s], queue'[a.to][s])
      BY <1>0, <2>1, <2>3, <3>1 DEF RootPromises, Used, Weaker, OverGrows
    <3>2. CASE Fresh(queue'[a.to][s])
      BY <2>1, <3>2 DEF Fresh
    <3> QED BY <1>1, <2>1, <2>2, <3>1, <3>2
  <2>4. CASE a \notin acks
    BY <2>1, <2>4 DEF Gentle, NewAcks, Used
  <2> QED BY <2>3, <2>4
<1>8. RelayPromises'
  <2>1. ASSUME NEW a \in acks', a.by # Root PROVE Promised(a.by, a.to, a.ctr)'
    <3>1. a.to \in Nodes /\ a.ctr \in Nat
      BY DEF TypeInv, TypeOK
    <3>2. CASE a \in acks
      <4>1. Promised(a.by, a.to, a.ctr)
        BY <2>1, <3>2 DEF RelayPromises
      <4> QED BY <1>0, <3>1, <4>1, PromisedStays
    <3>3. CASE a \notin acks
      BY <2>1, <3>3 DEF Gentle, NewAcks
    <3> QED BY <3>2, <3>3
  <2>2. ASSUME NEW n \in Nodes, NEW f \in [source : Nodes, ctr : Nat], NEW s \in Slots,
               queue'[n][s] # None, queue'[n][s].owed = f
        PROVE  Promised(n, f.source, f.ctr)'
    <3>1. CASE queue[n][s] # None /\ Weaker(queue[n][s], queue'[n][s])
      <4>1. queue[n][s].owed = f
        BY <2>2, <3>1, NoneAssumption DEF Weaker
      <4>2. Promised(n, f.source, f.ctr)
        BY <3>1, <4>1 DEF RelayPromises, Used
      <4>3. f.source \in Nodes /\ f.ctr \in Nat
        OBVIOUS
      <4> QED BY <1>0, <4>2, <4>3, PromisedStays
    <3>2. CASE queue[n][s] = None
      BY <2>2, <3>2 DEF Gentle, NewEntries
    <3> QED BY <1>1, <2>2, <3>1, <3>2
  <2> QED BY <2>1, <2>2 DEF RelayPromises, Used
<1>9. QED
  BY <1>2, <1>3, <1>4, <1>5, <1>6, <1>7, <1>8

------------------------------------------------------------------------------
(* Custody, when a frame is sent. *)

\* A slot before and after a frame is sent.
LEMMA TransmitSlots ==
  ASSUME TypeInv, NEW n \in Nodes \ {Root}, NEW dest \in Nodes \ {n}, NEW S \in SUBSET Slots,
         NEW heard, Transmit(n, dest, S, heard)
  PROVE  \A k \in Nodes, s \in Slots :
           /\ SentSlot(dest, k = n /\ s \in S, queue[k][s], queue'[k][s])
           /\ queue[k][s] # None => queue[k][s] \in Entries
<1>1. PICK q \in Queues :
           /\ queue' = [queue EXCEPT ![n] = q]
           /\ \A s \in Slots : SentSlot(dest, s \in S, queue[n][s], q[s])
  BY TransmitQueue
<1>2. queue \in [Nodes -> Queues] /\ n \in Nodes
  BY DEF TypeInv, TypeOK, Queues
<1>3. ASSUME NEW k \in Nodes, NEW s \in Slots
      PROVE  /\ SentSlot(dest, k = n /\ s \in S, queue[k][s], queue'[k][s])
             /\ queue[k][s] # None => queue[k][s] \in Entries
  <2>1. queue[k][s] # None => queue[k][s] \in Entries
    BY EntryAt
  <2>2. CASE k = n
    <3>1. queue'[k][s] = q[s]
      BY <1>1, <1>2, <2>2
    <3>2. (k = n /\ s \in S) = (s \in S)
      BY <2>2
    <3>3. SentSlot(dest, s \in S, queue[n][s], q[s])
      BY <1>1
    <3> QED BY <2>1, <2>2, <3>1, <3>2, <3>3
  <2>3. CASE k # n
    <3>1. queue'[k][s] = queue[k][s]
      BY <1>1, <1>2, <2>3
    <3>2. (k = n /\ s \in S) = FALSE
      BY <2>3
    <3> DEFINE e == queue[k][s]
    <3> HIDE DEF e
    <3>3. (e # None => e \in Entries) => SentSlot(dest, FALSE, e, e)
      BY DEF SentSlot
    <3> QED BY <2>1, <3>1, <3>2, <3>3 DEF e
  <2> QED BY <2>2, <2>3
<1>4. QED
  BY <1>3

\* What was backed up to the counters sent still is: the copies of the new frame have
\* the next one.
LEMMA TransmitBacked ==
  ASSUME TypeInv, NEW n \in Nodes \ {Root}, NEW dest \in Nodes \ {n}, NEW S \in SUBSET Slots,
         NEW heard, Transmit(n, dest, S, heard), NEW m, NEW c \in Int, c <= sent, Backed(m, c)
  PROVE  Backed(m, c)'
<1>1. sent \in Nat /\ deliveries' = deliveries /\ failed' = failed
  BY ChainAssumption DEF Transmit, TypeInv, TypeOK, history
<1>2. CASE Over(m)
  BY <1>1, <1>2 DEF Over, Backed
<1>3. CASE ~Over(m)
  <2>1. PICK k \in Nodes, t \in Slots :
          queue[k][t] # None /\ queue[k][t].msg = m /\ Secure(queue[k][t], c)
    BY <1>3 DEF Backed, Used
  <2> DEFINE e == queue[k][t]
             f == queue'[k][t]
  <2>2. e \in Entries /\ SentSlot(dest, k = n /\ t \in S, e, f)
    BY <2>1, TransmitSlots
  <2>3. e # None /\ e.msg = m /\ Secure(e, c)
    BY <2>1
  <2> HIDE DEF e, f
  <2>4. f # None /\ f.msg = m /\ Secure(f, c)
    <3>1. f \in Entries /\ f.msg = m
      BY <2>2, <2>3 DEF SentSlot
    <3>2. Secure(f, c)
      BY <1>1, <2>2, <2>3 DEF SentSlot, Secure
    <3> QED BY <3>1, <3>2, NoneAssumption
  <2> QED BY <2>4 DEF Backed, Used, f
<1>4. QED
  BY <1>2, <1>3

\* Promises of the frames up to now are kept when a frame is sent.
LEMMA TransmitPromised ==
  ASSUME TypeInv, NEW n \in Nodes \ {Root}, NEW dest \in Nodes \ {n}, NEW S \in SUBSET Slots,
         NEW heard, Transmit(n, dest, S, heard), NEW by, NEW to \in Nodes, NEW c \in Nat, c <= sent,
         Promised(by, to, c)
  PROVE  Promised(by, to, c)'
<1>0. sent \in Nat
  BY ChainAssumption DEF TypeInv, TypeOK
<1>1. SUFFICES ASSUME NEW m \in Messages, NEW s \in Slots, queue'[to][s] # None,
                      queue'[to][s].msg = m, queue'[to][s].state = "PENDING",
                      queue'[to][s].ctr = c, queue'[to][s].sent = by
               PROVE  Backed(m, c)'
  BY DEF Promised, Used
<1> DEFINE e == queue[to][s]
           f == queue'[to][s]
<1>2. (e # None => e \in Entries) /\ SentSlot(dest, to = n /\ s \in S, e, f)
  BY TransmitSlots
<1>3. f # None /\ f.msg = m /\ f.state = "PENDING" /\ f.ctr = c /\ f.sent = by
  BY <1>1
<1> HIDE DEF e, f
<1>4. e # None /\ e.msg = m /\ e.state = "PENDING" /\ e.ctr = c /\ e.sent = by
  BY <1>0, <1>2, <1>3 DEF SentSlot
<1>5. Backed(m, c)
  BY <1>4 DEF Promised, Used, e
<1>6. QED
  BY <1>5, TransmitBacked

\* A frame sent keeps the custody invariant: its copies get a counter that no
\* acknowledgement has.
LEMMA TransmitCustody ==
  ASSUME CustodyInv, NEW n \in Nodes \ {Root}, NEW dest \in Nodes \ {n}, NEW S \in SUBSET Slots,
         NEW heard \in SUBSET ({dest} \cup Waiting(n)), Transmit(n, dest, S, heard), TypeInv'
  PROVE  CustodyInv'
<1> USE DEF CustodyInv
<1>0. /\ sent \in Nat /\ sent' = sent + 1 /\ n \in Nodes
      /\ UNCHANGED <<acks, submitted, deliveries, failed>>
  BY ChainAssumption DEF Transmit, TypeInv, TypeOK, history
<1>1. \A k \in Nodes, s \in Slots :
           /\ SentSlot(dest, k = n /\ s \in S, queue[k][s], queue'[k][s])
           /\ queue[k][s] # None => queue[k][s] \in Entries
  BY TransmitSlots
\* An entry after the step: of the frame, or as it was.
<1>2. ASSUME NEW k \in Nodes, NEW s \in Slots, queue'[k][s] # None
      PROVE  LET e == queue[k][s]
                 f == queue'[k][s]
             IN  /\ e \in Entries /\ f.msg = e.msg
                 /\ \/ k = n /\ s \in S /\ f.ctr = sent + 1 /\ f.sent = dest /\ f.owed = None
                       /\ f.late = IF dest = Root THEN e.late \cup {sent + 1} ELSE e.late
                    \/ f.ctr = e.ctr /\ f.sent = e.sent /\ f.owed = e.owed /\ f.late = e.late
                 /\ e.ctr <= sent /\ e.ctr \in Nat /\ e.late \subseteq 1 .. sent
                 /\ e.owed # None => e.owed.ctr <= sent
  <2> DEFINE e == queue[k][s]
             f == queue'[k][s]
             in == k = n /\ s \in S
  <2>1. SentSlot(dest, in, e, f) /\ (e # None => e \in Entries)
    BY <1>1
  <2>2. e # None => e.ctr <= sent /\ e.late \subseteq 1 .. sent /\ (e.owed # None => e.owed.ctr <= sent)
    BY DEF CountersPast, Used
  <2>3. f # None
    BY <1>2
  <2> HIDE DEF e, f
  <2>4. e # None
    BY <2>1, <2>3 DEF SentSlot
  <2>5. e.ctr \in Nat
    BY <2>1, <2>4 DEF Entries
  <2>6. CASE in
    BY <2>1, <2>2, <2>4, <2>5, <2>6 DEF SentSlot, e, f
  <2>7. CASE ~in
    BY <2>1, <2>2, <2>4, <2>5, <2>7 DEF SentSlot, e, f
  <2> QED BY <2>6, <2>7
<1>3. CountersPast'
  <2>1. ASSUME NEW k \in Nodes, NEW s \in Slots, queue'[k][s] # None
        PROVE  /\ queue'[k][s].ctr <= sent + 1 /\ queue'[k][s].late \subseteq 1 .. sent + 1
               /\ queue'[k][s].owed # None => queue'[k][s].owed.ctr <= sent + 1
    <3>1. 1 .. sent \subseteq 1 .. sent + 1 /\ sent + 1 \in 1 .. sent + 1
      BY <1>0
    <3>2. queue'[k][s].owed # None => queue'[k][s].owed.ctr \in Nat
      <4>1. queue'[k][s] \in Entries
        BY <2>1 DEF TypeInv, TypeOK
      <4> QED BY <4>1 DEF Entries
    <3> DEFINE e == queue[k][s]
               f == queue'[k][s]
    <3>3. /\ e \in Entries /\ f.msg = e.msg
          /\ \/ f.ctr = sent + 1 /\ f.owed = None
                /\ f.late = IF dest = Root THEN e.late \cup {sent + 1} ELSE e.late
             \/ f.ctr = e.ctr /\ f.owed = e.owed /\ f.late = e.late
          /\ e.ctr <= sent /\ e.ctr \in Nat /\ e.late \subseteq 1 .. sent
          /\ e.owed # None => e.owed.ctr <= sent
      BY <1>2, <2>1
    <3> HIDE DEF e
    <3>4. f.ctr <= sent + 1
      BY <1>0, <3>3
    <3>5. f.late \subseteq 1 .. sent + 1
      BY <3>1, <3>3
    <3>6. f.owed # None => f.owed.ctr <= sent + 1
      BY <1>0, <3>2, <3>3
    <3> QED BY <3>4, <3>5, <3>6
  <2>2. \A a \in acks' : a.ctr <= sent + 1
    <3>1. \A a \in acks : a.ctr <= sent /\ a.ctr \in Nat
      BY DEF CountersPast, TypeInv, TypeOK
    <3> QED BY <1>0, <3>1
  <2> QED BY <1>0, <2>1, <2>2 DEF CountersPast, Used
<1>4. Known'
  <2>1. ASSUME NEW k \in Nodes, NEW s \in Slots, queue'[k][s] # None PROVE queue'[k][s].msg \in submitted
    <3>1. queue[k][s] # None /\ queue'[k][s].msg = queue[k][s].msg
      BY <1>2, <2>1, NoneAssumption
    <3> QED BY <3>1 DEF Known, Used
  <2>2. air' # None => Range(air'.messages) \subseteq submitted
    <3>1. ASSUME NEW s \in S PROVE queue[n][s].msg \in submitted
      BY <1>0 DEF Transmit, Known, Used
    <3> QED BY <3>1, TransmitAir
  <2> QED BY <1>0, <2>1, <2>2 DEF Known, Used
<1>5. NotLost'
  <2>1. SUFFICES ASSUME NEW m \in submitted PROVE (Over(m) \/ HoldersOf(m) # {})'
    BY <1>0 DEF NotLost
  <2>2. Backed(m, -1)
    BY NotLostBacked DEF NotLost
  <2>3. Backed(m, -1)'
    <3>1. -1 \in Int /\ -1 <= sent
      BY <1>0
    <3> QED BY <2>2, <3>1, TransmitBacked
  <2>4. (Over(m) \/ HoldersOf(m) # {} <=> Backed(m, -1))'
    BY NotLostBacked, PTL
  <2> QED BY <2>3, <2>4
<1>6. FrameKnown'
  <2>1. SUFFICES ASSUME air' # None, NEW k \in Nodes, NEW s \in Slots, queue'[k][s] # None
                 PROVE  LET e == queue'[k][s]
                        IN  /\ e.ctr = air'.ctr => k = air'.source /\ e.sent = air'.dest /\ e.msg \in Range(air'.messages)
                            /\ air'.ctr \in e.late => k = air'.source /\ air'.dest = Root /\ e.msg \in Range(air'.messages)
    BY DEF FrameKnown, Used
  <2>2. air'.source = n /\ air'.ctr = sent + 1 /\ air'.dest = dest
        /\ Range(air'.messages) = {queue[n][t].msg : t \in S}
    BY <2>1, TransmitAir
  <2> DEFINE e == queue[k][s]
             f == queue'[k][s]
  <2>3. /\ f.msg = e.msg
        /\ \/ k = n /\ s \in S /\ f.ctr = sent + 1 /\ f.sent = dest
              /\ f.late = IF dest = Root THEN e.late \cup {sent + 1} ELSE e.late
           \/ f.ctr = e.ctr /\ f.late = e.late
        /\ e.ctr <= sent /\ e.ctr \in Nat /\ e.late \subseteq 1 .. sent
    BY <1>2, <2>1
  <2>4. k = n /\ s \in S => e.msg \in Range(air'.messages)
    BY <2>2
  <2>5. sent + 1 \notin e.late /\ e.ctr # sent + 1
    BY <1>0, <2>3
  <2> HIDE DEF e, f
  <2>6. /\ f.ctr = sent + 1 => k = n /\ f.sent = dest /\ f.msg \in Range(air'.messages)
        /\ sent + 1 \in f.late => k = n /\ dest = Root /\ f.msg \in Range(air'.messages)
    BY <2>3, <2>4, <2>5
  <2> QED BY <2>2, <2>6 DEF f
<1>7. FrameBacked'
  <2>1. SUFFICES ASSUME air' # None, air'.dest = Root, NEW m \in Range(air'.messages)
                 PROVE  \E t \in Used(queue'[air'.source]) :
                             LET e == queue'[air'.source][t] IN e.msg = m /\ e.ctr = air'.ctr /\ e.sent = Root
    BY DEF FrameBacked, Over
  <2>2. air'.source = n /\ air'.ctr = sent + 1 /\ air'.dest = dest
        /\ Range(air'.messages) = {queue[n][t].msg : t \in S}
    BY <2>1, TransmitAir
  <2>3. PICK t \in S : queue[n][t].msg = m
    BY <2>1, <2>2
  <2>4. SentSlot(dest, n = n /\ t \in S, queue[n][t], queue'[n][t])
    BY <1>0, <1>1
  <2> DEFINE e == queue[n][t]
             f == queue'[n][t]
  <2> HIDE DEF e, f
  <2>5. SentSlot(dest, TRUE, e, f) /\ e.msg = m
    <3>1. (n = n /\ t \in S) = TRUE
      OBVIOUS
    <3> QED BY <2>3, <2>4, <3>1 DEF e, f
  <2>6. f # None /\ f.msg = m /\ f.ctr = sent + 1 /\ f.sent = dest
    BY <2>5, NoneAssumption DEF SentSlot
  <2> QED BY <2>1, <2>2, <2>6 DEF Used, f
<1>8. RootPromises'
  <2>1. SUFFICES ASSUME NEW a \in acks, a.by = Root, NEW s \in Slots, queue'[a.to][s] # None,
                        a.ctr \in queue'[a.to][s].late
                 PROVE  queue'[a.to][s].msg \in Range(deliveries)
    BY <1>0 DEF RootPromises, Used
  <2>2. a.to \in Nodes /\ a.ctr \in Nat /\ a.ctr <= sent
    BY DEF TypeInv, TypeOK, CountersPast
  <2>3. a.ctr \in queue[a.to][s].late /\ queue[a.to][s] # None
        /\ queue'[a.to][s].msg = queue[a.to][s].msg
    <3>1. a.ctr # sent + 1
      BY <1>0, <2>2
    <3> DEFINE e == queue[a.to][s]
               f == queue'[a.to][s]
    <3>2. /\ e \in Entries /\ f.msg = e.msg
          /\ \/ f.late = IF dest = Root THEN e.late \cup {sent + 1} ELSE e.late
             \/ f.late = e.late
      BY <1>2, <2>1, <2>2
    <3>3. a.ctr \in f.late
      BY <2>1
    <3> HIDE DEF e, f
    <3>4. a.ctr \in e.late /\ e # None /\ f.msg = e.msg
      BY <3>1, <3>2, <3>3, NoneAssumption
    <3> QED BY <3>4 DEF e, f
  <2> QED BY <2>1, <2>3 DEF RootPromises, Used
<1>9. RelayPromises'
  <2>1. ASSUME NEW a \in acks, a.by # Root PROVE Promised(a.by, a.to, a.ctr)'
    <3>1. a.to \in Nodes /\ a.ctr \in Nat /\ a.ctr <= sent
      BY DEF TypeInv, TypeOK, CountersPast
    <3>2. Promised(a.by, a.to, a.ctr)
      BY <2>1 DEF RelayPromises
    <3> QED BY <3>1, <3>2, TransmitPromised
  <2>2. ASSUME NEW k \in Nodes, NEW f \in [source : Nodes, ctr : Nat], NEW s \in Slots,
               queue'[k][s] # None, queue'[k][s].owed = f
        PROVE  Promised(k, f.source, f.ctr)'
    <3>1. f # None
      BY NoneAssumption
    <3>2. queue[k][s] # None /\ queue[k][s].owed = f /\ f.ctr <= sent
      <4> DEFINE e == queue[k][s]
                 g == queue'[k][s]
      <4>1. /\ e \in Entries /\ g.owed \in {e.owed, None}
            /\ (e.owed # None => e.owed.ctr <= sent)
        BY <1>2, <2>2
      <4>2. g.owed = f
        BY <2>2
      <4> HIDE DEF e, g
      <4>3. e # None /\ e.owed = f /\ f.ctr <= sent
        BY <3>1, <4>1, <4>2, NoneAssumption
      <4> QED BY <4>3 DEF e
    <3>3. Promised(k, f.source, f.ctr)
      BY <3>2 DEF RelayPromises, Used
    <3>4. f.source \in Nodes /\ f.ctr \in Nat
      OBVIOUS
    <3> QED BY <3>2, <3>3, <3>4, TransmitPromised
  <2> QED BY <1>0, <2>1, <2>2 DEF RelayPromises, Used
<1>10. QED
  BY <1>3, <1>4, <1>5, <1>6, <1>7, <1>8, <1>9

------------------------------------------------------------------------------
(* Custody, in the other actions. *)

\* A step that stores nothing, acknowledges nothing and delivers nothing.
LEMMA OnlyQueue ==
  ASSUME CustodyInv, Mild, Leaves, sent' = sent, AirStep, acks' \subseteq acks,
         \A n \in Nodes, s \in Slots : queue[n][s] = None => queue'[n][s] = None,
         FrameLeaves,
         UNCHANGED <<submitted, deliveries>>, failed \subseteq failed', failed' \subseteq submitted
  PROVE  Gentle
<1>1. OverGrows /\ NewEntries /\ NewAcks
  BY DEF OverGrows, NewEntries, NewAcks
<1>2. NewMessages
  BY DEF NewMessages, CustodyInv, Known
<1>3. QED
  BY <1>1, <1>2 DEF Gentle

\* A message submitted has its copy at the origin.
LEMMA SubmitGentle ==
  ASSUME CustodyInv, NEW m \in Messages, Submit(m)
  PROVE  Gentle
<1> DEFINE e == Entry(m, Origin \in routed, None)
<1>0. TypeInv /\ queue \in [Nodes -> Queues] /\ Origin \in Nodes
  BY ChainAssumption DEF CustodyInv, TypeInv, TypeOK, Queues
<1>1. Mild
  BY <1>0, SubmitMild
<1>2. PICK s \in Slots : queue[Origin][s] = None /\ Queued(queue[Origin], e) = [queue[Origin] EXCEPT ![s] = e]
  BY <1>0, QueuedInSlot DEF Submit
<1>3. e \in Entries /\ e.msg = m /\ e.owed = None /\ Fresh(e)
  <2>1. e \in Entries
    BY EntryType DEF Entry
  <2> QED BY <2>1, EntryFresh
<1> HIDE DEF e
<1>4. queue' = [queue EXCEPT ![Origin] = [queue[Origin] EXCEPT ![s] = e]]
  BY <1>2 DEF Submit, e
<1>5. \A k \in Nodes, t \in Slots : queue'[k][t] = IF k = Origin /\ t = s THEN e ELSE queue[k][t]
  BY <1>0, <1>4 DEF Queues
<1>6. UNCHANGED <<sent, air, acks, deliveries, failed>> /\ submitted' = submitted \cup {m}
  BY DEF Submit
<1>7. OverGrows /\ NewAcks
  BY <1>6 DEF OverGrows, NewAcks
<1>8. Leaves /\ FrameLeaves
  <2>1. \A k \in Nodes, t \in Slots : queue[k][t] # None => queue'[k][t] # None
    BY <1>3, <1>5, NoneAssumption
  <2>2. air # None => air.source \in Nodes
    BY DEF CustodyInv, TypeInv, TypeOK, Frames
  <2> QED BY <1>6, <2>1, <2>2 DEF Leaves, FrameLeaves
<1>9. NewEntries
  BY <1>3, <1>5, <1>6, NoneAssumption DEF NewEntries
<1>10. NewMessages
  <2>1. Secure(e, -1)
    BY <1>3 DEF Fresh, Secure
  <2>2. queue'[Origin][s] = e /\ e # None
    BY <1>0, <1>3, <1>5, NoneAssumption
  <2>3. Backed(m, -1)'
    BY <1>0, <1>3, <2>1, <2>2 DEF Backed, Used
  <2> QED BY <1>6, <2>3 DEF NewMessages, CustodyInv, Known
<1>11. AirStep
  BY <1>0, <1>6, AirStays DEF TypeInv
<1>12. QED
  BY <1>1, <1>6, <1>7, <1>8, <1>9, <1>10, <1>11 DEF Gentle

\* Where no entry appears and none disappears.
LEMMA SameSlots ==
  ASSUME CustodyInv, Mild, sent' = sent, air' = air, acks' \subseteq acks,
         \A n \in Nodes, s \in Slots : queue[n][s] = None <=> queue'[n][s] = None,
         UNCHANGED <<submitted, deliveries, failed>>
  PROVE  Gentle
<1>1. Leaves
  BY DEF Leaves
<1>2. failed \subseteq submitted /\ AirStep
  BY AirStays DEF CustodyInv, Known, TypeInv
<1>3. FrameLeaves
  <2>1. air # None => air.source \in Nodes
    BY DEF CustodyInv, TypeInv, TypeOK, Frames
  <2> QED BY <2>1 DEF FrameLeaves
<1>4. QED
  BY <1>1, <1>2, <1>3, OnlyQueue

\* The actions that only change entries in place: a timeout,
LEMMA TimeoutGentle ==
  ASSUME CustodyInv, NEW n \in Nodes, NEW s \in Slots, Timeout(n, s)
  PROVE  Gentle
<1>1. TypeInv /\ queue \in [Nodes -> Queues] /\ Mild
  BY TimeoutMild DEF CustodyInv, TypeInv, TypeOK, Queues
<1>2. PICK state \in {"IDLE", "LATE"} : queue' = [queue EXCEPT ![n][s].state = state]
  BY DEF Timeout
<1> DEFINE e == [queue[n][s] EXCEPT !.state = state]
<1>3. e \in Entries /\ queue[n][s] \in Entries
  <2>1. queue[n][s] \in Entries
    BY <1>1, EntryAt DEF Timeout
  <2> QED BY <2>1 DEF Entries
<1>4. queue' = [queue EXCEPT ![n] = [queue[n] EXCEPT ![s] = e]]
  BY <1>2
<1> HIDE DEF e
<1>5. \A k \in Nodes, t \in Slots : queue'[k][t] = IF k = n /\ t = s THEN e ELSE queue[k][t]
  BY <1>1, <1>4 DEF Queues
<1>6. \A k \in Nodes, t \in Slots : queue[k][t] = None <=> queue'[k][t] = None
  BY <1>3, <1>5, NoneAssumption
<1>7. QED
  BY <1>1, <1>6, SameSlots DEF Timeout, history

\* a detach.
LEMMA DetachGentle ==
  ASSUME CustodyInv, NEW n \in Nodes, Detach(n)
  PROVE  Gentle
<1>1. TypeInv /\ queue \in [Nodes -> Queues] /\ Mild
  BY DetachMild DEF CustodyInv, TypeInv, TypeOK, Queues
<1> DEFINE held(s) == [queue[n][s] EXCEPT !.state = "HELD", !.key = FALSE]
           q == [s \in Slots |-> IF queue[n][s] = None THEN None ELSE held(s)]
<1>2. queue' = [queue EXCEPT ![n] = q]
  BY DEF Detach
<1>3. ASSUME NEW s \in Slots, queue[n][s] # None PROVE held(s) # None
  <2> DEFINE e == queue[n][s]
             h == [e EXCEPT !.state = "HELD"]
  <2>1. e \in Entries
    BY <1>1, <1>3, EntryAt
  <2>2. h \in Entries
    BY <2>1 DEF Entries
  <2>3. [h EXCEPT !.key = FALSE] \in Entries
    <3> HIDE DEF h
    <3> QED BY <2>2 DEF Entries
  <2>4. held(s) = [h EXCEPT !.key = FALSE]
    OBVIOUS
  <2> HIDE DEF held, h
  <2> QED BY <2>3, <2>4, NoneAssumption
<1> HIDE DEF held
<1>4. \A k \in Nodes, t \in Slots : queue'[k][t] =
        IF k = n THEN IF queue[n][t] = None THEN None ELSE held(t) ELSE queue[k][t]
  BY <1>1, <1>2
<1>5. \A k \in Nodes, t \in Slots : queue[k][t] = None <=> queue'[k][t] = None
  BY <1>3, <1>4
<1>6. QED
  BY <1>1, <1>5, SameSlots DEF Detach, history

\* An acknowledgement owed is sent: what it promises is backed already.
LEMMA OweDueGentle ==
  ASSUME CustodyInv, NEW n \in Nodes, NEW s \in Slots, OweDue(n, s)
  PROVE  Gentle
<1>0. PICK f : f = queue[n][s].owed
  OBVIOUS
<1>1. TypeInv /\ queue \in [Nodes -> Queues] /\ Mild
  BY CancelledMild DEF CustodyInv, TypeInv, TypeOK, Queues, OweDue
<1>2. f \in [source : Nodes, ctr : Nat] /\ n # Root
  <2>1. queue[n][s] \in Entries /\ f # None /\ n # Root
    BY <1>0, <1>1, EntryAt DEF OweDue
  <2> QED BY <1>0, <2>1 DEF Entries
<1>3. Promised(n, f.source, f.ctr) /\ f.ctr <= sent
  <2>1. queue[n][s] # None /\ f # None
    BY <1>0 DEF OweDue
  <2>2. s \in Used(queue[n]) /\ queue[n][s].owed = f
    BY <1>0, <2>1 DEF Used
  <2> QED BY <1>2, <2>1, <2>2 DEF CustodyInv, RelayPromises, CountersPast
<1>4. queue' = [queue EXCEPT ![n] = Cancelled(queue[n], f)]
      /\ acks' = acks \cup {[by |-> n, to |-> f.source, ctr |-> f.ctr]}
  BY <1>0 DEF OweDue, Acknowledge
<1>5. \A k \in Nodes, t \in Slots : queue[k][t] = None <=> queue'[k][t] = None
  <2>1. \A t \in Slots : queue[n][t] = None <=> Cancelled(queue[n], f)[t] = None
    <3>1. \A t \in Slots : queue[n][t] # None => Cancelled(queue[n], f)[t] # None
      BY <1>1, CancelledWeaker
    <3>2. \A t \in Slots : queue[n][t] = None => Cancelled(queue[n], f)[t] = None
      BY DEF Cancelled
    <3> QED BY <3>1, <3>2
  <2> QED BY <1>1, <1>4, <2>1
<1>6. UNCHANGED <<sent, air, submitted, deliveries, failed>>
  BY DEF OweDue, history
<1>7. Leaves /\ OverGrows /\ NewEntries /\ AirStep
  BY <1>1, <1>5, <1>6, AirStays DEF Leaves, OverGrows, NewEntries, TypeInv
<1>8. NewMessages
  BY <1>6 DEF NewMessages, CustodyInv, Known
<1>9. FrameLeaves
  <2>1. air # None => air.source \in Nodes
    BY <1>1 DEF TypeInv, TypeOK, Frames
  <2> QED BY <1>5, <1>6, <2>1 DEF FrameLeaves
<1>10. Promised(n, f.source, f.ctr)'
  <2>1. f.source \in Nodes /\ f.ctr \in Nat
    BY <1>2
  <2> QED BY <1>1, <1>3, <1>7, <2>1, PromisedStays
<1>11. NewAcks
  <2>1. SUFFICES ASSUME NEW a \in acks', a \notin acks
                 PROVE  a.ctr <= sent /\ a.by # Root /\ Promised(a.by, a.to, a.ctr)'
    BY DEF NewAcks
  <2>2. a.by = n /\ a.to = f.source /\ a.ctr = f.ctr
    BY <1>4, <2>1
  <2> QED BY <1>2, <1>3, <1>10, <2>2
<1>12. QED
  BY <1>1, <1>6, <1>7, <1>8, <1>9, <1>11 DEF Gentle

\* The messages that expire are over.
LEMMA ResumeHeldGentle ==
  ASSUME CustodyInv, NEW n \in Nodes, NEW expired \in SUBSET Slots, NEW route \in BOOLEAN,
         ResumeHeld(n, expired, route)
  PROVE  Gentle
<1>1. TypeInv /\ queue \in [Nodes -> Queues] /\ Mild
  BY ResumeHeldMild DEF CustodyInv, TypeInv, TypeOK, Queues
<1> DEFINE idle(s) == [queue[n][s] EXCEPT !.state = "IDLE"]
<1>2. queue' = [queue EXCEPT ![n] =
                 [s \in Slots |-> IF s \in expired THEN None
                                  ELSE IF route /\ queue[n][s] # None THEN idle(s)
                                  ELSE queue[n][s]]]
      /\ failed' = failed \cup {queue[n][s].msg : s \in expired}
      /\ UNCHANGED <<sent, air, acks, submitted, deliveries>>
  BY DEF ResumeHeld
<1>3. ASSUME NEW s \in Slots, queue[n][s] # None PROVE idle(s) # None
  <2>1. idle(s) \in Entries
    BY <1>1, <1>3, EntryAt DEF Entries
  <2> QED BY <2>1, NoneAssumption
<1> HIDE DEF idle
<1>4. \A k \in Nodes, t \in Slots : queue'[k][t] =
        IF k = n THEN IF t \in expired THEN None
                      ELSE IF route /\ queue[n][t] # None THEN idle(t) ELSE queue[n][t]
        ELSE queue[k][t]
  BY <1>1, <1>2
<1>5. \A k \in Nodes, t \in Slots :
        /\ queue[k][t] = None => queue'[k][t] = None
        /\ queue[k][t] # None /\ queue'[k][t] = None => queue[k][t].msg \in failed'
  BY <1>2, <1>3, <1>4
<1>6. failed' \subseteq submitted
  <2>1. \A s \in expired : queue[n][s].msg \in submitted
    BY DEF ResumeHeld, CustodyInv, Known, Used
  <2> QED BY <1>2, <2>1 DEF CustodyInv, Known
<1>7. Leaves
  BY <1>5 DEF Leaves, Backed, Over
<1>8. FrameLeaves
  <2>1. air # None => air.source \in Nodes
    BY <1>1 DEF TypeInv, TypeOK, Frames
  <2> QED BY <1>2, <1>5, <2>1 DEF FrameLeaves
<1>9. AirStep
  BY <1>1, <1>2, AirStays DEF TypeInv
<1>10. QED
  BY <1>1, <1>2, <1>5, <1>6, <1>7, <1>8, <1>9, OnlyQueue

\* An acknowledgement removes only what its sender has delivered, or backs.
LEMMA OnAckGentle ==
  ASSUME CustodyInv, NEW a \in acks, OnAck(a)
  PROVE  Gentle
<1> DEFINE T == AckedSlots(queue[a.to], a)
<1>1. TypeInv /\ queue \in [Nodes -> Queues] /\ a.to \in Nodes /\ a.ctr \in Nat /\ Mild
  <2>1. TypeInv /\ queue \in [Nodes -> Queues] /\ a.to \in Nodes /\ a.ctr \in Nat
    BY DEF CustodyInv, TypeInv, TypeOK, Queues
  <2> QED BY <2>1, WithoutMild DEF OnAck
<1>2. queue' = [queue EXCEPT ![a.to] = Without(queue[a.to], T)]
      /\ acks' \subseteq acks /\ UNCHANGED <<sent, air, submitted, deliveries, failed>>
  BY DEF OnAck, history
<1> HIDE DEF T
<1>3. \A k \in Nodes, t \in Slots : queue'[k][t] = IF k = a.to /\ t \in T THEN None ELSE queue[k][t]
  BY <1>1, <1>2 DEF Without
<1>4. CASE a.by = Root
  <2>1. \A t \in T : queue[a.to][t].msg \in Range(deliveries)
    BY <1>4 DEF T, AckedSlots, Used, CustodyInv, RootPromises
  <2>2. Leaves
    BY <1>2, <1>3, <2>1 DEF Leaves, Backed, Over
  <2>3. FrameLeaves
    <3>1. air # None => air.source \in Nodes
      BY <1>1 DEF TypeInv, TypeOK, Frames
    <3> QED BY <1>2, <1>3, <2>1, <3>1 DEF FrameLeaves
  <2>4. failed \subseteq submitted /\ AirStep
    BY <1>1, <1>2, AirStays DEF CustodyInv, Known, TypeInv
  <2> QED BY <1>1, <1>2, <1>3, <2>2, <2>3, <2>4, OnlyQueue
<1>5. CASE a.by # Root
  <2>1. T = {t \in Slots : queue[a.to][t] # None /\ queue[a.to][t].state = "PENDING"
                           /\ queue[a.to][t].ctr = a.ctr /\ queue[a.to][t].sent = a.by}
    BY <1>5 DEF T, AckedSlots, Used
  <2>2. ASSUME NEW n \in Nodes, NEW s \in Slots, NEW m \in Messages, NEW c \in Int,
               queue[n][s] # None, queue[n][s].msg = m, Secure(queue[n][s], c), queue'[n][s] = None
        PROVE  Backed(m, c)'
    <3>1. n = a.to /\ s \in T
      BY <1>3, <2>2
    <3>2. Backed(m, a.ctr)
      BY <1>5, <2>1, <2>2, <3>1 DEF CustodyInv, RelayPromises, Promised, Used
    <3>3. a.ctr > c
      BY <1>5, <2>1, <2>2, <3>1 DEF Secure
    <3>4. CASE Over(m)
      BY <1>2, <3>4 DEF Backed, Over
    <3>5. CASE ~Over(m)
      <4>1. PICK k \in Nodes, t \in Slots :
              queue[k][t] # None /\ queue[k][t].msg = m /\ Secure(queue[k][t], a.ctr)
        BY <3>2, <3>5 DEF Backed, Used
      <4>2. queue[k][t].ctr \in Nat
        BY <1>1, <4>1, EntryAt DEF Entries
      <4>3. ~(k = a.to /\ t \in T)
        BY <1>1, <1>5, <2>1, <4>1, <4>2 DEF Secure
      <4>4. queue'[k][t] = queue[k][t]
        BY <1>3, <4>3
      <4>5. Secure(queue[k][t], c)
        BY <1>1, <3>3, <4>1, <4>2 DEF Secure
      <4> QED BY <4>1, <4>4, <4>5 DEF Backed, Used
    <3> QED BY <3>4, <3>5
  <2>3. Leaves
    BY <2>2 DEF Leaves
  <2>4. FrameLeaves
    <3>1. air # None => air.source \in Nodes
      BY <1>1 DEF TypeInv, TypeOK, Frames
    <3> QED BY <1>3, <1>5, <2>1, <3>1, <1>2 DEF FrameLeaves
  <2>5. failed \subseteq submitted /\ AirStep
    BY <1>1, <1>2, AirStays DEF CustodyInv, Known, TypeInv
  <2> QED BY <1>1, <1>2, <1>3, <2>3, <2>4, <2>5, OnlyQueue
<1>6. QED
  BY <1>4, <1>5

------------------------------------------------------------------------------
(* Custody, with one relay: a frame heard. *)

\* No node is in between but one: with two relays they may count on each other, and
\* the run ChainLoop shows a message lost.
OneRelay == \E relay \in Nodes : Nodes = {Origin, relay, Root}

\* Any two nodes but the root are the only ones.
LEMMA TwoNodes ==
  ASSUME OneRelay, NEW a \in Nodes \ {Root}, NEW b \in Nodes \ {Root}, a # b, NEW c \in Nodes
  PROVE  c \in {a, b, Root}
BY DEF OneRelay

\* The frame overheard was for the root: its copy is backed by those of its source.
LEMMA OverhearGentle ==
  ASSUME OneRelay, CustodyInv, air # None, NEW n \in air.to, Overhear(n)
  PROVE  Gentle
<1> DEFINE T == {s \in Used(queue[n]) : queue[n][s].key /\ queue[n][s].sent = air.source
                                       /\ queue[n][s].msg \in Range(air.messages)}
<1>1. /\ TypeInv /\ queue \in [Nodes -> Queues] /\ n \in Nodes /\ air.source \in Nodes
      /\ air.source # Root /\ n # air.source /\ air.dest # air.source /\ air.dest \in Nodes
      /\ n # air.dest
  BY DEF CustodyInv, TypeInv, TypeOK, Queues, Frames, Overhear
<1>2. queue' = [queue EXCEPT ![n] = Without(queue[n], T)] /\ air' = Heard(n)
      /\ UNCHANGED <<sent, acks, submitted, deliveries, failed>>
  BY DEF Overhear, history
<1>3. Mild /\ AirStep
  BY <1>1, <1>2, WithoutMild, HeardStep DEF TypeInv
<1>4. T # {} => air.dest = Root /\ n # Root
  <2>1. T # {} => n # Root
    BY <1>1, EntryAt DEF Used
  <2>2. ASSUME air.dest # Root, n # Root PROVE FALSE
    BY <1>1, <2>2, TwoNodes
  <2> QED BY <2>1, <2>2
<1>5. \A t \in T : t \in Slots /\ queue[n][t] # None /\ queue[n][t].msg \in Range(air.messages)
  BY DEF Used
<1> HIDE DEF T
<1>6. \A k \in Nodes, t \in Slots : queue'[k][t] = IF k = n /\ t \in T THEN None ELSE queue[k][t]
  BY <1>1, <1>2 DEF Without
<1>7. ASSUME NEW k \in Nodes, NEW s \in Slots, NEW m \in Messages, NEW c \in Int,
             queue[k][s] # None, queue[k][s].msg = m, queue'[k][s] = None
      PROVE  Backed(m, c)'
  <2>1. k = n /\ s \in T /\ air.dest = Root /\ m \in Range(air.messages)
    BY <1>4, <1>5, <1>6, <1>7
  <2>2. CASE Over(m)
    BY <1>2, <2>2 DEF Backed, Over
  <2>3. CASE ~Over(m)
    <3>1. PICK t \in Used(queue[air.source]) :
            queue[air.source][t].msg = m /\ queue[air.source][t].sent = Root
      BY <2>1, <2>3 DEF CustodyInv, FrameBacked
    <3>2. t \in Slots /\ queue[air.source][t] # None
      BY <3>1 DEF Used
    <3>3. queue'[air.source][t] = queue[air.source][t]
      BY <1>1, <1>6, <3>2
    <3>4. Secure(queue[air.source][t], c)
      BY <3>1 DEF Secure
    <3> QED BY <1>1, <3>1, <3>2, <3>3, <3>4 DEF Backed, Used
  <2> QED BY <2>2, <2>3
<1>8. Leaves
  BY <1>7 DEF Leaves
<1>9. FrameLeaves
  BY <1>1, <1>6 DEF FrameLeaves
<1>10. failed \subseteq submitted
  BY DEF CustodyInv, Known
<1>11. QED
  BY <1>2, <1>3, <1>6, <1>8, <1>9, <1>10, OnlyQueue

\* The root has delivered what it acknowledges.
LEMMA RootReceiveGentle ==
  ASSUME CustodyInv, air # None, Root \in air.to, NEW old, NEW refusing, Receive(Root, old, refusing)
  PROVE  Gentle
<1> DEFINE r == Received(Root, old, refusing)
           ack == [by |-> Root, to |-> Frame.source, ctr |-> Frame.ctr]
<1>1. /\ TypeInv /\ queue \in [Nodes -> Queues] /\ Root \in Nodes /\ air \in Frames
      /\ air.ctr = sent /\ air.source # Root /\ air.dest = Root /\ sent \in Nat
  BY ChainAssumption DEF CustodyInv, TypeInv, TypeOK, Queues, Frames, Receive
<1>2. Mild /\ AirStep
  BY <1>1, ReceiveMild, HeardStep DEF TypeInv, Receive
<1>3. RootResult(r, Len(air.messages)) /\ r \in Results
  BY <1>1, ReceivedByRoot DEF TypeInv, CacheKnown
<1>4. deliveries' = r.delivered /\ acks' \in {acks, acks \cup {ack}}
      /\ UNCHANGED <<sent, submitted, failed>>
  BY DEF Receive, Acknowledge
<1> HIDE DEF r
<1>5. \A m \in Range(air.messages) : m \in Range(deliveries')
  <2>1. Range(air.messages) = {air.messages[j] : j \in 1 .. Len(air.messages)}
    BY <1>1 DEF Frames, Range
  <2> QED BY <1>3, <1>4, <2>1 DEF RootResult
<1>6. \A s \in Slots : queue[Root][s] = None
  BY <1>1, EntryAt
<1>7. \A k \in Nodes, t \in Slots : queue[k][t] = None <=> queue'[k][t] = None
  <2>1. \A k \in Nodes : k # Root => queue'[k] = queue[k]
    BY <1>1 DEF Receive
  <2>2. \A t \in Slots : queue'[Root][t] = None
    BY <1>1, <1>2, <1>6 DEF Mild, SlotStep
  <2> QED BY <1>6, <2>1, <2>2
<1>8. OverGrows
  BY <1>3, <1>4 DEF OverGrows, RootResult
<1>9. NewMessages
  <2>1. Range(deliveries') \subseteq submitted
    BY <1>3, <1>4 DEF RootResult, CustodyInv, Known
  <2> QED BY <1>4, <2>1 DEF NewMessages, CustodyInv, Known
<1>10. Leaves /\ NewEntries /\ FrameLeaves
  <2>1. air.source \in Nodes
    BY <1>1 DEF Frames
  <2> QED BY <1>7, <2>1 DEF Leaves, NewEntries, FrameLeaves
<1>11. NewAcks
  <2>1. SUFFICES ASSUME ack \in acks'
                 PROVE  /\ ack.ctr <= sent /\ ack.by = Root
                        /\ \A s \in Used(queue'[ack.to]) :
                             ack.ctr \in queue'[ack.to][s].late => queue'[ack.to][s].msg \in Range(deliveries')
    BY <1>4 DEF NewAcks
  <2>2. ack.by = Root /\ ack.to = air.source /\ ack.ctr = air.ctr
    BY DEF Frame
  <2>3. queue'[air.source] = queue[air.source]
    BY <1>1 DEF Receive, Frames
  <2>4. air.source \in Nodes
    BY <1>1 DEF Frames
  <2>5. \A s \in Used(queue[air.source]) :
          air.ctr \in queue[air.source][s].late => queue[air.source][s].msg \in Range(air.messages)
    BY <2>4 DEF CustodyInv, FrameKnown
  <2> HIDE DEF ack
  <2> QED BY <1>1, <1>5, <2>2, <2>3, <2>5
<1>12. QED
  BY <1>2, <1>4, <1>8, <1>9, <1>10, <1>11 DEF Gentle

\* A node backs the messages of a frame that it does not refuse: its own copies wait for
\* the root, or for nobody.
LEMMA NodeReceiveGentle ==
  ASSUME OneRelay, CustodyInv, air # None, NEW n \in air.to, n # Root, NEW old, NEW refusing,
         Receive(n, old, refusing)
  PROVE  Gentle
<1> DEFINE r == Received(n, old, refusing)
           ack == [by |-> n, to |-> Frame.source, ctr |-> Frame.ctr]
<1>1. /\ TypeInv /\ queue \in [Nodes -> Queues] /\ n \in Nodes \ {Root} /\ air \in Frames
      /\ air.ctr = sent /\ air.source \in Nodes \ {Root} /\ air.source # n /\ sent \in Nat
      /\ air.messages \in Seq(Messages) /\ air.ctr \in Nat
  BY ChainAssumption DEF CustodyInv, TypeInv, TypeOK, Queues, Frames
<1>2. Mild /\ AirStep /\ Hops'
  <2>1. Mild
    BY <1>1, ReceiveMild
  <2> QED BY <1>1, <2>1, MildHops, HeardStep DEF TypeInv, Receive
<1>3. NodeResult(n, r, Len(air.messages))
  BY <1>1, ReceivedByNode DEF TypeInv
<1>4. PICK q \in Queues :
              /\ queue' = [queue EXCEPT ![n] = q]
              /\ \A s \in Slots : ReceivedSlot(r, r.queue[s], q[s])
  <2> HIDE DEF r
  <2>1. r = Received(n, old, refusing)
    BY DEF r
  <2> QED BY <1>1, <2>1, ReceiveQueue
<1>5. acks' = (IF ~r.refused /\ r.ack THEN acks \cup {ack} ELSE acks)
      /\ deliveries' = r.delivered /\ UNCHANGED <<sent, submitted, failed>>
  BY DEF Receive, Acknowledge, Acked
<1>6. PICK source, ctr : source = air.source /\ ctr = air.ctr
  OBVIOUS
<1> HIDE DEF r
<1>7. deliveries' = deliveries
  BY <1>3, <1>5 DEF NodeResult
<1>8. \A s \in Slots : /\ queue'[n][s] = q[s] /\ ReceivedSlot(r, r.queue[s], q[s])
                       /\ queue[n][s] # None => r.queue[s] = queue[n][s]
  BY <1>1, <1>3, <1>4 DEF NodeResult
<1>9. \A k \in Nodes : k # n => queue'[k] = queue[k]
  BY <1>1, <1>4
<1>10. \A k \in Nodes, s \in Slots : queue[k][s] # None => queue'[k][s] # None
  <2>1. \A s \in Slots : queue[n][s] # None => queue'[n][s] # None
    BY <1>8, NoneAssumption DEF ReceivedSlot
  <2> QED BY <1>9, <2>1
<1>11. Leaves /\ FrameLeaves /\ OverGrows
  BY <1>1, <1>5, <1>7, <1>10 DEF Leaves, FrameLeaves, OverGrows
<1>12. NewMessages
  BY <1>5, <1>7 DEF NewMessages, CustodyInv, Known
<1>13. ASSUME ~r.refused PROVE Promised(n, source, ctr)'
  <2>1. SUFFICES ASSUME NEW m \in Messages, NEW s \in Slots,
                        queue'[source][s] # None, queue'[source][s].msg = m,
                        queue'[source][s].state = "PENDING", queue'[source][s].ctr = ctr,
                        queue'[source][s].sent = n
                 PROVE  Backed(m, ctr)'
    BY DEF Promised, Used
  <2>2. queue'[source] = queue[source] /\ source \in Nodes
    BY <1>1, <1>6, <1>9
  <2>3. m \in Range(air.messages)
    BY <1>6, <2>1, <2>2 DEF CustodyInv, FrameKnown, Used
  <2>4. Holding(r.queue, m, source)
    <3>1. Range(air.messages) = {air.messages[j] : j \in 1 .. Len(air.messages)}
      BY <1>1 DEF Range
    <3> QED BY <1>3, <1>6, <1>13, <2>3, <3>1 DEF NodeResult
  <2>5. PICK t \in Slots : /\ r.queue[t] # None /\ r.queue[t].msg = m
                           /\ ~(r.queue[t].state \in {"PENDING", "LATE"} /\ r.queue[t].sent = source)
    BY <2>4 DEF Holding, Used
  <2> DEFINE f == r.queue[t]
             g == queue'[n][t]
  <2>6. ReceivedSlot(r, f, g)
    BY <1>8
  <2> HIDE DEF f, g
  <2>7. g \in Entries /\ g.msg = m /\ ~(g.state = "PENDING" /\ g.sent = source)
    BY <2>5, <2>6 DEF ReceivedSlot, f
  <2>8. g # None
    BY <2>7, NoneAssumption
  <2>9. g.state = "PENDING" => g.sent \in Nodes \ {n}
    BY <1>1, <1>2, <2>8 DEF Hops, Used, g
  <2>10. g.state = "PENDING" => g.sent = Root
    <3>1. g.state = "PENDING" => g.sent \in {n, source, Root}
      BY <1>1, <1>6, <2>9, TwoNodes
    <3> QED BY <2>7, <2>9, <3>1
  <2>11. Secure(g, ctr)
    BY <2>10 DEF Secure
  <2> QED BY <1>1, <2>7, <2>8, <2>11 DEF Backed, Used, g
<1>14. NewEntries
  <2>1. ASSUME NEW k \in Nodes, NEW s \in Slots, queue[k][s] = None, queue'[k][s] # None
        PROVE  /\ queue'[k][s].msg \in submitted'
               /\ \A f \in [source : Nodes, ctr : Nat] :
                    queue'[k][s].owed = f => f.ctr <= sent /\ Promised(k, f.source, f.ctr)'
    <3>1. k = n
      BY <1>9, <2>1
    <3> DEFINE e == r.queue[s]
               g == queue'[n][s]
    <3>2. ReceivedSlot(r, e, g) /\ g # None
      BY <1>8, <2>1, <3>1
    <3> HIDE DEF g
    <3>3. e # None
      BY <3>2 DEF ReceivedSlot
    <3>4. PICK m \in Range(air.messages) : e = Entry(m, n \in routed, Frame)
      BY <1>3, <2>1, <3>1, <3>3 DEF NodeResult
    <3>5. e.msg = m /\ e.owed \in {Frame, None}
      BY <3>4, EntryFresh
    <3> HIDE DEF e
    <3>6. g.msg = m /\ g.owed \in {Frame, None} /\ (r.refused => g.owed # Frame)
      BY <3>2, <3>3, <3>5 DEF ReceivedSlot
    <3>7. g.msg \in submitted'
      BY <1>5, <3>6 DEF CustodyInv, Known
    <3>8. ASSUME NEW f \in [source : Nodes, ctr : Nat], g.owed = f
          PROVE  f.ctr <= sent /\ Promised(n, f.source, f.ctr)'
      <4>1. f = Frame
        BY <3>6, <3>8, NoneAssumption
      <4>2. f.source = source /\ f.ctr = ctr /\ ~r.refused
        BY <1>6, <3>6, <3>8, <4>1 DEF Frame
      <4>3. Promised(n, source, ctr)'
        BY <1>13, <4>2
      <4>4. f.ctr <= sent
        BY <1>1, <1>6, <4>2
      <4> QED BY <4>2, <4>3, <4>4
    <3> QED BY <3>1, <3>7, <3>8 DEF g
  <2> QED BY <2>1 DEF NewEntries
<1>15. NewAcks
  <2>1. SUFFICES ASSUME NEW a \in acks', a \notin acks
                 PROVE  a.ctr <= sent /\ a.by # Root /\ Promised(a.by, a.to, a.ctr)'
    BY DEF NewAcks
  <2>2. ~r.refused /\ a = ack
    BY <1>5, <2>1
  <2>3. a.by = n /\ a.to = source /\ a.ctr = ctr
    BY <1>6, <2>2 DEF Frame
  <2>4. Promised(n, source, ctr)'
    BY <1>13, <2>2
  <2>5. ctr <= sent
    BY <1>1, <1>6
  <2> QED BY <1>1, <2>3, <2>4, <2>5
<1>16. QED
  BY <1>2, <1>5, <1>11, <1>12, <1>14, <1>15 DEF Gentle

\* The custody invariant, in every step.
LEMMA CustodyStep ==
  ASSUME OneRelay, CustodyInv, [Next]_vars
  PROVE  CustodyInv'
<1>0. TypeInv /\ TypeInv'
  BY TypeStep DEF CustodyInv
<1>1. CASE UNCHANGED vars
  <2>1. UNCHANGED <<queue, sent, air, acks, submitted, deliveries, failed>>
    BY <1>1 DEF vars
  <2>2. CountersPast'
    BY <2>1 DEF CountersPast, Used, CustodyInv
  <2>3. Known' /\ NotLost'
    BY <2>1 DEF CustodyInv, Known, NotLost, Used, Over, HoldersOf
  <2>4. FrameKnown' /\ FrameBacked' /\ RootPromises'
    BY <2>1 DEF CustodyInv, FrameKnown, FrameBacked, RootPromises, Used, Over
  <2>5. RelayPromises'
    BY <2>1 DEF CustodyInv, RelayPromises, Promised, Backed, Secure, Used, Over
  <2> QED BY <1>0, <2>2, <2>3, <2>4, <2>5 DEF CustodyInv
<1>2. ASSUME Gentle PROVE CustodyInv'
  BY <1>0, <1>2, GentleStep
<1>3. ASSUME NEW m \in Messages, Submit(m) PROVE CustodyInv'
  BY <1>2, <1>3, SubmitGentle
<1>4. ASSUME NEW n \in Nodes \ {Root}, Detach(n) PROVE CustodyInv'
  BY <1>2, <1>4, DetachGentle
<1>5. ASSUME NEW n \in Nodes \ {Root}, NEW expired \in SUBSET Slots, NEW route \in BOOLEAN,
             ResumeHeld(n, expired, route)
      PROVE  CustodyInv'
  BY <1>2, <1>5, ResumeHeldGentle
<1>6. ASSUME NEW n \in Nodes \ {Root}, NEW s \in Slots, Timeout(n, s) PROVE CustodyInv'
  BY <1>2, <1>6, TimeoutGentle
<1>7. ASSUME NEW n \in Nodes \ {Root}, NEW s \in Slots, OweDue(n, s) PROVE CustodyInv'
  BY <1>2, <1>7, OweDueGentle
<1>8. ASSUME air # None, NEW n \in air.to, NEW old, NEW refusing, Receive(n, old, refusing)
      PROVE  CustodyInv'
  <2>1. CASE n = Root
    BY <1>2, <1>8, <2>1, RootReceiveGentle
  <2>2. CASE n # Root
    BY <1>2, <1>8, <2>2, NodeReceiveGentle
  <2> QED BY <2>1, <2>2
<1>9. ASSUME air # None, NEW n \in air.to, Overhear(n) PROVE CustodyInv'
  BY <1>2, <1>9, OverhearGentle
<1>10. ASSUME NEW a \in acks, OnAck(a) PROVE CustodyInv'
  BY <1>2, <1>10, OnAckGentle
<1>11. ASSUME NEW n \in Nodes \ {Root}, NEW dest \in Nodes \ {n}, NEW S \in SUBSET Slots,
              NEW heard \in SUBSET ({dest} \cup Waiting(n)), Transmit(n, dest, S, heard)
       PROVE  CustodyInv'
  BY <1>0, <1>11, TransmitCustody
<1>12. QED
  BY <1>1, <1>3, <1>4, <1>5, <1>6, <1>7, <1>8, <1>9, <1>10, <1>11 DEF Next

\* The custody invariant holds at first.
LEMMA CustodyInit ==
  ASSUME Init
  PROVE  CustodyInv
<1>1. TypeInv
  BY TypeInit
<1>2. /\ \A n \in Nodes : Used(queue[n]) = {}
      /\ sent = 0 /\ air = None /\ acks = {} /\ submitted = {} /\ failed = {} /\ deliveries = <<>>
  BY DEF Init, Used
<1>3. Range(deliveries) = {}
  BY <1>2 DEF Range
<1>4. CountersPast /\ Known /\ NotLost
  BY <1>2, <1>3 DEF CountersPast, Known, NotLost
<1>5. FrameKnown /\ FrameBacked /\ RootPromises /\ RelayPromises
  BY <1>2 DEF FrameKnown, FrameBacked, RootPromises, RelayPromises
<1>6. QED
  BY <1>1, <1>4, <1>5 DEF CustodyInv

\* With one relay, a message is never dropped without a copy left, nor delivery nor
\* failure (reliable.py, "Custody"; MESH_DESIGN 1540-1542).
THEOREM NothingLost == OneRelay => (Spec => []LoopLosesNothing)
<1> SUFFICES ASSUME OneRelay PROVE Spec => []LoopLosesNothing
  OBVIOUS
<1>1. CustodyInv /\ [Next]_vars => CustodyInv'
  BY CustodyStep
<1>2. Init => CustodyInv
  BY CustodyInit
<1>3. CustodyInv => LoopLosesNothing
  BY DEF CustodyInv, NotLost, LoopLosesNothing, Over, C!Over
<1>4. QED
  BY <1>1, <1>2, <1>3, PTL DEF Spec

------------------------------------------------------------------------------
(* What the root delivers. *)

\* The places of the last CACHE keys.
LEMMA PlaceInRing ==
  ASSUME NEW c \in Caches, NEW k \in 0 .. CACHE - 1
  PROVE  Place(c, k) \in 1 .. CACHE
<1>1. c.next \in 1 .. CACHE /\ CACHE \in Nat \ {0}
  BY ChainAssumption DEF Caches
<1>2. QED
  BY <1>1 DEF Place

\* A key added takes the place of the oldest one, the others grow older by one.
LEMMA AddedPlaces ==
  ASSUME NEW c \in Caches, NEW m \in Messages, ~Seen(c, m), NEW b, b = Added(c, m)
  PROVE  /\ b.keys[Place(b, 0)] = m
         /\ \A k \in 1 .. CACHE - 1 : b.keys[Place(b, k)] = c.keys[Place(c, k - 1)]
<1>1. c.next \in 1 .. CACHE /\ CACHE \in Nat \ {0} /\ c.keys \in [1 .. CACHE -> Messages \cup {None}]
  BY ChainAssumption DEF Caches
<1>2. b.keys = [c.keys EXCEPT ![c.next] = m] /\ b.next = (c.next % CACHE) + 1
  BY DEF Added
<1>3. b.next = IF c.next = CACHE THEN 1 ELSE c.next + 1
  <2>1. CASE c.next = CACHE
    <3>1. c.next % CACHE = 0
      BY <1>1, <2>1
    <3> QED BY <1>2, <2>1, <3>1
  <2>2. CASE c.next # CACHE
    <3>1. c.next % CACHE = c.next
      <4> DEFINE n == c.next
      <4>1. n \in 1 .. CACHE - 1 /\ CACHE \in Nat \ {0}
        BY <1>1, <2>2
      <4> HIDE DEF n
      <4>2. n % CACHE = n
        BY <4>1
      <4> QED BY <4>2 DEF n
    <3> QED BY <1>2, <2>2, <3>1
  <2> QED BY <2>1, <2>2
<1>4. Place(b, 0) = c.next
  BY <1>1, <1>3 DEF Place
<1>5. ASSUME NEW k \in 1 .. CACHE - 1
      PROVE  Place(b, k) = Place(c, k - 1) /\ Place(b, k) # c.next /\ Place(b, k) \in 1 .. CACHE
  BY <1>1, <1>3 DEF Place
<1>6. QED
  BY <1>1, <1>2, <1>4, <1>5

\* A message delivered that the cache had not: the last of its copies, if any, is more
\* than CACHE deliveries back or too old.
LEMMA AddedKeepsRing ==
  ASSUME NEW c \in Caches, NEW d \in Seq(Messages), NEW A, NEW m \in Messages, ~Seen(c, m),
         RingHolds(d, c, A), Once(d, A)
  PROVE  RingHolds(Append(d, m), Added(c, m), A) /\ Once(Append(d, m), A)
<1> DEFINE b == Added(c, m)
           f == Append(d, m)
           L == Len(d)
<1>1. L \in Nat /\ DOMAIN d = 1 .. L /\ DOMAIN f = 1 .. L + 1 /\ Len(f) = L + 1 /\ f[L + 1] = m
      /\ \A i \in 1 .. L : f[i] = d[i]
  OBVIOUS
<1>2. CACHE \in Nat \ {0} /\ DOMAIN c.keys = 1 .. CACHE
  BY ChainAssumption DEF Caches
<1>3. /\ b.keys[Place(b, 0)] = m
      /\ \A k \in 1 .. CACHE - 1 : b.keys[Place(b, k)] = c.keys[Place(c, k - 1)]
  BY AddedPlaces
<1>4. ASSUME NEW i \in 1 .. L, L - i < CACHE, d[i] = m PROVE m \in A
  <2>1. L - i \in 0 .. CACHE - 1
    BY <1>1, <1>2, <1>4
  <2>2. Place(c, L - i) \in 1 .. CACHE
    BY <2>1, PlaceInRing
  <2>3. c.keys[Place(c, L - i)] # m
    BY <1>2, <2>2 DEF Seen, Range
  <2> QED BY <1>1, <1>4, <2>3 DEF RingHolds
<1> HIDE DEF b, f, L
<1>5. RingHolds(f, b, A)
  <2>1. SUFFICES ASSUME NEW i \in 1 .. L + 1, L + 1 - i < CACHE
                 PROVE  f[i] \in A \/ b.keys[Place(b, L + 1 - i)] = f[i]
    BY <1>1 DEF RingHolds
  <2>2. CASE i = L + 1
    <3>1. L + 1 - i = 0
      BY <1>1, <2>2
    <3> QED BY <1>1, <1>3, <2>2, <3>1
  <2>3. CASE i # L + 1
    <3>1. i \in 1 .. L /\ L + 1 - i \in 1 .. CACHE - 1 /\ L + 1 - i - 1 = L - i /\ L - i < CACHE
      BY <1>1, <1>2, <2>1, <2>3
    <3>2. d[i] \in A \/ c.keys[Place(c, L - i)] = d[i]
      BY <1>1, <3>1 DEF RingHolds, L
    <3>3. b.keys[Place(b, L + 1 - i)] = c.keys[Place(c, L - i)]
      <4> DEFINE k == L + 1 - i
      <4>1. k \in 1 .. CACHE - 1 /\ k - 1 = L - i
        <5>1. L \in Nat /\ i \in Nat /\ CACHE \in Nat
          BY <1>1, <1>2
        <5> QED BY <3>1, <5>1
      <4> HIDE DEF k
      <4>2. b.keys[Place(b, k)] = c.keys[Place(c, k - 1)]
        BY <1>3, <4>1
      <4> QED BY <4>1, <4>2 DEF k
    <3> QED BY <1>1, <3>1, <3>2, <3>3
  <2> QED BY <2>2, <2>3
<1>6. Once(f, A)
  <2>1. SUFFICES ASSUME NEW i \in 1 .. L + 1, NEW j \in 1 .. L + 1, i < j, f[i] = f[j], j - i <= CACHE
                 PROVE  f[i] \in A
    BY <1>1 DEF Once
  <2>2. i \in 1 .. L
    BY <1>1, <2>1
  <2>3. CASE j = L + 1
    <3>1. L - i < CACHE /\ d[i] = m
      BY <1>1, <1>2, <2>1, <2>2, <2>3
    <3> QED BY <1>1, <1>4, <2>1, <2>2, <3>1
  <2>4. CASE j # L + 1
    <3>1. j \in 1 .. L
      BY <1>1, <2>4
    <3> QED BY <1>1, <2>1, <2>2, <3>1 DEF Once
  <2> QED BY <2>3, <2>4
<1>7. QED
  BY <1>5, <1>6 DEF b, f

\* A frame at the root: by induction on its messages.
LEMMA ReceiveDelivers ==
  ASSUME TypeInv, DeliveryInv, air # None, NEW old, NEW refusing
  PROVE  LET r == Received(Root, old, refusing)
         IN  RingHolds(r.delivered, r.cache, aged \cup old) /\ Once(r.delivered, aged \cup old)
<1> DEFINE N == Len(air.messages)
           A == aged \cup old
           Good(r) == RingHolds(r.delivered, r.cache, A) /\ Once(r.delivered, A)
<1>1. N \in Nat /\ air \in Frames /\ air.messages \in Seq(Messages)
  BY DEF TypeInv, TypeOK, Frames
<1>2. PICK r : InTurn(Root, old, refusing, r)
  BY ChainAssumption, ReceivedSteps DEF TypeInv
<1>3. /\ r \in [0 .. N -> Results] /\ r[0] = Start(Root, old)
      /\ \A i \in 1 .. N : r[i] = Accepted(Root, r[i - 1], air.messages[i], refusing)
      /\ Received(Root, old, refusing) = r[N]
  BY <1>2 DEF InTurn
<1> DEFINE S == {i \in 0 .. N : Good(r[i])}
<1>4. 0 \in S
  <2> DEFINE c == cache[Root]
             p == Pruned(c, old)
             d == deliveries
  <2>1. c \in Caches /\ d \in Seq(Messages) /\ CACHE \in Nat \ {0}
    BY ChainAssumption DEF TypeInv, TypeOK, Caches
  <2>2. p.next = c.next /\ p.keys = [i \in DOMAIN c.keys |-> IF c.keys[i] \in old THEN None ELSE c.keys[i]]
    BY DEF Pruned
  <2>3. RingHolds(d, c, aged) /\ Once(d, aged)
    BY DEF DeliveryInv
  <2> HIDE DEF c, p, d
  <2>4. RingHolds(d, p, A)
    <3>1. SUFFICES ASSUME NEW i \in DOMAIN d, Len(d) - i < CACHE
                   PROVE  d[i] \in A \/ p.keys[Place(p, Len(d) - i)] = d[i]
      BY DEF RingHolds
    <3>2. Len(d) - i \in 0 .. CACHE - 1
      BY <2>1, <3>1
    <3>3. Place(c, Len(d) - i) \in DOMAIN c.keys /\ Place(p, Len(d) - i) = Place(c, Len(d) - i)
      BY <2>1, <2>2, <3>2, PlaceInRing DEF Caches, Place
    <3>4. d[i] \in aged \/ c.keys[Place(c, Len(d) - i)] = d[i]
      BY <2>3, <3>1 DEF RingHolds
    <3> QED BY <2>2, <3>3, <3>4
  <2>5. Once(d, A)
    BY <2>3 DEF Once
  <2>6. r[0].delivered = d /\ r[0].cache = p
    BY <1>3 DEF Start, d, p, c
  <2> QED BY <1>1, <2>4, <2>5, <2>6
<1>5. ASSUME NEW i \in 0 .. N - 1, i \in S PROVE i + 1 \in S
  <2> DEFINE m == air.messages[i + 1]
             a == r[i + 1]
             b == r[i]
  <2>1. i + 1 \in 1 .. N /\ i + 1 - 1 = i /\ i \in 0 .. N /\ i + 1 \in 0 .. N
    BY <1>1
  <2>2. b \in Results /\ Good(b) /\ a = Accepted(Root, b, m, refusing)
    BY <1>3, <1>5, <2>1
  <2>3. m \in Messages
    BY <1>1, <2>1
  <2>4. Outcome(Root, b, m, a)
    <3> HIDE DEF m, a, b, Good
    <3> QED BY <1>1, <2>2, <2>3, ChainAssumption, AcceptedCases
  <2>5. b.cache \in Caches /\ b.delivered \in Seq(Messages)
    BY <2>2 DEF Results
  <2> HIDE DEF m, a, b, A
  <2>6. Good(a)
    <3>1. CASE a.cache = b.cache /\ a.delivered = b.delivered
      BY <2>2, <3>1
    <3>2. CASE ~Seen(b.cache, m) /\ a.cache = Added(b.cache, m) /\ a.delivered = Append(b.delivered, m)
      <4>1. RingHolds(b.delivered, b.cache, A) /\ Once(b.delivered, A)
        BY <2>2
      <4> QED BY <2>3, <2>5, <3>2, <4>1, AddedKeepsRing
    <3> QED BY <2>4, <3>1, <3>2 DEF Outcome
  <2> QED BY <2>1, <2>6 DEF a
<1>6. N \in S
  <2>1. 0 .. N \subseteq S
    <3> HIDE DEF S, N
    <3> QED BY <1>1, <1>4, <1>5, Induction
  <2>2. N \in 0 .. N
    <3> HIDE DEF N
    <3> QED BY <1>1
  <2> HIDE DEF S, N
  <2> QED BY <2>1, <2>2
<1>7. QED
  BY <1>3, <1>6

\* The delivery invariant is inductive: only the root's receptions matter.
LEMMA DeliveryStep ==
  ASSUME TypeInv, DeliveryInv, [Next]_vars
  PROVE  DeliveryInv'
<1>1. CASE UNCHANGED <<cache, deliveries, aged>>
  BY <1>1 DEF DeliveryInv, RingHolds, Once, Place
<1>2. ASSUME air # None, NEW n \in air.to, NEW old, NEW refusing, Receive(n, old, refusing)
      PROVE  DeliveryInv'
  <2>1. n \in Nodes /\ cache \in [Nodes -> Caches]
    BY <1>2 DEF TypeInv, TypeOK, Frames, Caches
  <2>2. CASE n = Root
    <3> DEFINE r == Received(Root, old, refusing)
    <3>1. RingHolds(r.delivered, r.cache, aged \cup old) /\ Once(r.delivered, aged \cup old)
      BY <1>2, ReceiveDelivers
    <3>2. cache' = [cache EXCEPT ![Root] = r.cache] /\ deliveries' = r.delivered /\ aged' = aged \cup old
      BY <1>2, <2>2 DEF Receive
    <3> HIDE DEF r
    <3>3. cache'[Root] = r.cache
      BY <2>1, <2>2, <3>2
    <3> QED BY <3>1, <3>2, <3>3 DEF DeliveryInv, RingHolds, Once, Place
  <2>3. CASE n # Root
    <3>1. NodeResult(n, Received(n, old, refusing), Len(air.messages))
      <4>1. n \in Nodes \ {Root}
        BY <2>1, <2>3
      <4> QED BY <1>2, <4>1, ReceivedByNode DEF TypeInv
    <3>2. deliveries' = deliveries /\ aged' = aged
      BY <1>2, <2>3, <3>1 DEF Receive, NodeResult
    <3>3. cache'[Root] = cache[Root]
      BY <1>2, <2>1, <2>3, ChainAssumption DEF Receive
    <3> QED BY <3>2, <3>3 DEF DeliveryInv, RingHolds, Once, Place
  <2> QED BY <2>2, <2>3
<1>3. QED
  <2>1. CASE UNCHANGED vars
    BY <1>1, <2>1 DEF vars, history
  <2>2. ASSUME NEW m \in Messages, Submit(m) PROVE DeliveryInv'
    BY <1>1, <2>2 DEF Submit, history
  <2>3. ASSUME NEW n, Detach(n) PROVE DeliveryInv'
    BY <1>1, <2>3 DEF Detach, history
  <2>8. ASSUME NEW n, NEW s, Timeout(n, s) \/ OweDue(n, s) PROVE DeliveryInv'
    BY <1>1, <2>8 DEF Timeout, OweDue, history
  <2>4. ASSUME NEW n, NEW dest, NEW S, NEW heard, Transmit(n, dest, S, heard)
        PROVE  DeliveryInv'
    BY <1>1, <2>4 DEF Transmit, history
  <2>5. ASSUME NEW n, NEW expired, NEW route, ResumeHeld(n, expired, route)
        PROVE  DeliveryInv'
    BY <1>1, <2>5 DEF ResumeHeld, history
  <2>6. ASSUME NEW n, Overhear(n) PROVE DeliveryInv'
    BY <1>1, <2>6 DEF Overhear, history
  <2>7. ASSUME NEW a, OnAck(a) PROVE DeliveryInv'
    BY <1>1, <2>7 DEF OnAck, history
  <2> QED BY <1>2, <2>1, <2>2, <2>3, <2>4, <2>5, <2>6, <2>7, <2>8 DEF Next

\* The root delivers a message again only once its cache has forgotten it, for its age or
\* after CACHE others (link.py, _receive; DuplicateCache).
THEOREM NoEarlyDuplicate == Spec => []DeliveredOnce
<1>1. TypeInv /\ DeliveryInv /\ [Next]_vars => TypeInv' /\ DeliveryInv'
  BY TypeStep, DeliveryStep
<1>2. Init => TypeInv /\ DeliveryInv
  BY TypeInit DEF Init, DeliveryInv, RingHolds, Once
<1>3. DeliveryInv => DeliveredOnce
  BY DEF DeliveryInv, Once, DeliveredOnce
<1>4. QED
  BY <1>1, <1>2, <1>3, PTL DEF Spec

------------------------------------------------------------------------------
(* The refinement of Custody. *)

\* The abstract state has the types of module Custody.
AbstractTypes ==
  /\ [m \in Messages |-> HoldersOf(m)] \in [Messages -> SUBSET Nodes]
  /\ Range(deliveries) \subseteq Messages /\ failed \subseteq Messages

\* So it has, whenever the custody invariant holds.
LEMMA AbstractTyped ==
  ASSUME CustodyInv
  PROVE  AbstractTypes
BY DEF AbstractTypes, CustodyInv, Known, TypeInv, TypeOK, HoldersOf

\* A step of one node changes only where it is among the holders.
LEMMA OneHolder ==
  ASSUME NEW n \in Nodes, \A k \in Nodes \ {n} : queue'[k] = queue[k], NEW m
  PROVE  HoldersOf(m)' \in {HoldersOf(m), HoldersOf(m) \cup {n}, HoldersOf(m) \ {n}}
<1>1. \A k \in Nodes \ {n} : k \in HoldersOf(m)' <=> k \in HoldersOf(m)
  BY DEF HoldersOf, Used
<1>2. HoldersOf(m)' \subseteq Nodes /\ HoldersOf(m) \subseteq Nodes
  BY DEF HoldersOf
<1>3. QED
  BY <1>1, <1>2

\* A step of one node that submits, delivers and fails nothing: what it takes has a
\* copy elsewhere, and so has what it leaves, for nothing is lost before nor after.
LEMMA HandStep ==
  ASSUME CustodyInv, CustodyInv', NEW n \in Nodes, \A k \in Nodes \ {n} : queue'[k] = queue[k],
         UNCHANGED <<submitted, deliveries, failed>>
  PROVE  C!Hand(n)
<1>1. ASSUME NEW m \in Messages
      PROVE  \/ HoldersOf(m)' = HoldersOf(m)
             \/ HoldersOf(m)' = HoldersOf(m) \cup {n} /\ (HoldersOf(m) # {} \/ Over(m))
             \/ HoldersOf(m)' = HoldersOf(m) \ {n} /\ (HoldersOf(m) \ {n} # {} \/ Over(m))
  <2>1. HoldersOf(m) # {} => m \in submitted
    BY DEF CustodyInv, Known, HoldersOf
  <2>2. HoldersOf(m)' # {} => m \in submitted
    BY DEF CustodyInv, Known, HoldersOf
  <2>3. m \in submitted => Over(m) \/ HoldersOf(m) # {}
    BY DEF CustodyInv, NotLost
  <2>4. m \in submitted => Over(m) \/ HoldersOf(m)' # {}
    BY DEF CustodyInv, NotLost, Over
  <2>5. HoldersOf(m)' \in {HoldersOf(m), HoldersOf(m) \cup {n}, HoldersOf(m) \ {n}}
    BY OneHolder
  <2> QED BY <2>1, <2>2, <2>3, <2>4, <2>5
<1>2. QED
  BY <1>1 DEF C!Hand, C!Taken, C!Left, C!Over, Over

\* A submission is the abstract one, at the origin.
LEMMA SubmitStep ==
  ASSUME CustodyInv, NEW m \in Messages, Submit(m)
  PROVE  C!Submit(Origin)
<1> DEFINE e == Entry(m, Origin \in routed, None)
<1>0. queue \in [Nodes -> Queues] /\ Origin \in Nodes
  BY ChainAssumption DEF CustodyInv, TypeInv, TypeOK, Queues
<1>1. PICK s \in Slots : queue[Origin][s] = None /\ Queued(queue[Origin], e) = [queue[Origin] EXCEPT ![s] = e]
  BY <1>0, QueuedInSlot DEF Submit
<1>2. e.msg = m
  BY EntryFresh
<1> HIDE DEF e
<1>3. queue' = [queue EXCEPT ![Origin] = [queue[Origin] EXCEPT ![s] = e]]
  BY <1>1 DEF Submit, e
<1>4. \A k \in Nodes, t \in Slots : queue'[k][t] = IF k = Origin /\ t = s THEN e ELSE queue[k][t]
  BY <1>0, <1>3 DEF Queues
<1>5. \A k \in Nodes \ {Origin} : queue'[k] = queue[k]
  BY <1>0, <1>3
<1>6. ~Over(m) /\ HoldersOf(m) = {}
  BY DEF Submit, CustodyInv, Known, Over, HoldersOf
<1>7. ASSUME NEW x \in Messages, x # m PROVE HoldersOf(x)' = HoldersOf(x)
  <2>1. \A k \in Nodes, t \in Slots :
          queue'[k][t] # None /\ queue'[k][t].msg = x <=> queue[k][t] # None /\ queue[k][t].msg = x
    BY <1>1, <1>2, <1>4, <1>7
  <2> QED BY <2>1 DEF HoldersOf, Used
<1>8. HoldersOf(m)' \in {HoldersOf(m), HoldersOf(m) \cup {Origin}}
  <2>1. HoldersOf(m)' \in {HoldersOf(m), HoldersOf(m) \cup {Origin}, HoldersOf(m) \ {Origin}}
    BY <1>0, <1>5, OneHolder
  <2> QED BY <1>6, <2>1
<1>9. UNCHANGED <<deliveries, failed>>
  BY DEF Submit
<1>10. QED
  BY <1>6, <1>7, <1>8, <1>9 DEF C!Submit, C!Taken, C!Over, Over

\* Messages held for too long are given up, by a node that has them.
LEMMA GiveUpStep ==
  ASSUME CustodyInv, NEW n \in Nodes, NEW expired \in SUBSET Slots, NEW route \in BOOLEAN,
         ResumeHeld(n, expired, route)
  PROVE  C!GiveUp(n)
<1>1. TypeInv /\ queue \in [Nodes -> Queues] /\ Mild
  BY ResumeHeldMild DEF CustodyInv, TypeInv, TypeOK, Queues
<1> DEFINE idle(s) == [queue[n][s] EXCEPT !.state = "IDLE"]
<1>2. queue' = [queue EXCEPT ![n] =
                 [s \in Slots |-> IF s \in expired THEN None
                                  ELSE IF route /\ queue[n][s] # None THEN idle(s)
                                  ELSE queue[n][s]]]
      /\ failed' = failed \cup {queue[n][s].msg : s \in expired}
      /\ deliveries' = deliveries
      /\ \A s \in expired : queue[n][s] # None
  BY DEF ResumeHeld
<1>3. ASSUME NEW s \in Slots, queue[n][s] # None PROVE idle(s) # None /\ idle(s).msg = queue[n][s].msg
  <2>1. idle(s) \in Entries /\ idle(s).msg = queue[n][s].msg
    BY <1>1, <1>3, EntryAt DEF Entries
  <2> QED BY <2>1, NoneAssumption
<1> HIDE DEF idle
<1>4. \A t \in Slots : queue'[n][t] = IF t \in expired THEN None
                                      ELSE IF route /\ queue[n][t] # None THEN idle(t) ELSE queue[n][t]
  BY <1>1, <1>2
<1>5. \A k \in Nodes \ {n} : queue'[k] = queue[k]
  BY <1>1, <1>2
<1>6. ASSUME NEW m \in Messages
      PROVE  \/ HoldersOf(m)' = HoldersOf(m)
             \/ HoldersOf(m)' = HoldersOf(m) \ {n} /\ m \in failed'
  <2>1. HoldersOf(m)' \in {HoldersOf(m), HoldersOf(m) \cup {n}, HoldersOf(m) \ {n}}
    BY <1>5, OneHolder
  <2>2. n \in HoldersOf(m)' => n \in HoldersOf(m)
    BY <1>3, <1>4 DEF HoldersOf, Used
  <2>3. n \in HoldersOf(m) => n \in HoldersOf(m)' \/ m \in failed'
    <3>1. SUFFICES ASSUME NEW s \in Slots, queue[n][s] # None, queue[n][s].msg = m
                   PROVE  n \in HoldersOf(m)' \/ m \in failed'
      BY DEF HoldersOf, Used
    <3>2. CASE s \in expired
      BY <1>2, <3>1, <3>2
    <3>3. CASE s \notin expired
      <4>1. queue'[n][s] # None /\ queue'[n][s].msg = m
        BY <1>3, <1>4, <3>1, <3>3
      <4> QED BY <4>1 DEF HoldersOf, Used
    <3> QED BY <3>2, <3>3
  <2> QED BY <2>1, <2>2, <2>3
<1>7. \A m \in failed' : m \in failed \/ n \in HoldersOf(m)
  BY <1>2 DEF HoldersOf, Used
<1>8. failed' \subseteq Messages
  <2>1. \A s \in expired : queue[n][s].msg \in Messages
    BY <1>1, <1>2, EntryAt DEF Entries
  <2> QED BY <1>1, <1>2, <2>1 DEF TypeInv, TypeOK
<1>9. \A m \in failed' : m \in failed \/ n \in [x \in Messages |-> HoldersOf(x)][m]
  BY <1>7, <1>8
<1>10. failed \subseteq failed'
  BY <1>2
<1>11. QED
  BY <1>2, <1>6, <1>9, <1>10 DEF C!GiveUp, C!Left

\* A frame at the root delivers, for the root takes no copy.
LEMMA DeliverStep ==
  ASSUME CustodyInv, CustodyInv', air # None, Root \in air.to, NEW old, NEW refusing,
         Receive(Root, old, refusing)
  PROVE  C!Deliver
<1>1. Gentle
  BY RootReceiveGentle
<1>2. queue \in [Nodes -> Queues] /\ TypeInv /\ TypeInv'
  BY DEF CustodyInv, TypeInv, TypeOK, Queues
<1>3. \A k \in Nodes \ {Root} : queue'[k] = queue[k]
  BY <1>2 DEF Receive
<1>4. \A m : Root \notin HoldersOf(m) /\ Root \notin HoldersOf(m)'
  BY <1>2 DEF HoldersOf, TypeInv, Hops
<1>5. \A m \in Messages : HoldersOf(m)' = HoldersOf(m)
  BY <1>3, <1>4, OneHolder, ChainAssumption
<1>6. Range(deliveries) \subseteq Range(deliveries')
  BY <1>1 DEF Gentle, OverGrows
<1>7. UNCHANGED <<submitted, failed>>
  BY DEF Receive
<1>8. \A m \in Range(deliveries') : m \in Messages /\ (HoldersOf(m) # {} \/ Over(m))
  <2>1. Range(deliveries') \subseteq submitted
    BY <1>7 DEF CustodyInv, Known
  <2> QED BY <1>2, <2>1 DEF CustodyInv, NotLost, TypeInv, TypeOK
<1>9. QED
  BY <1>5, <1>6, <1>7, <1>8 DEF C!Deliver, C!Over, Over

\* A frame sent, a timer, a detach, an acknowledgement and a frame heard by a node.
LEMMA OthersHand ==
  ASSUME CustodyInv, CustodyInv', [Next]_vars
  PROVE  \/ UNCHANGED C!vars
         \/ \E n \in Nodes : C!Hand(n)
         \/ \E m \in Messages : Submit(m)
         \/ \E n \in Nodes, expired \in SUBSET Slots, route \in BOOLEAN : ResumeHeld(n, expired, route)
         \/ air # None /\ Root \in air.to /\ \E old, refusing : Receive(Root, old, refusing)
<1>0. queue \in [Nodes -> Queues]
  BY DEF CustodyInv, TypeInv, TypeOK, Queues
<1>1. CASE UNCHANGED vars
  BY <1>1 DEF vars, C!vars, HoldersOf, Used
<1>2. ASSUME NEW n \in Nodes \ {Root}, NEW dest, NEW S, NEW heard, Transmit(n, dest, S, heard) PROVE C!Hand(n)
  BY <1>0, <1>2, HandStep DEF Transmit, history
<1>3. ASSUME NEW n \in Nodes \ {Root}, Detach(n) PROVE C!Hand(n)
  BY <1>0, <1>3, HandStep DEF Detach, history
<1>4. ASSUME NEW n \in Nodes \ {Root}, NEW s \in Slots, Timeout(n, s) PROVE C!Hand(n)
  BY <1>0, <1>4, HandStep DEF Timeout, history
<1>5. ASSUME NEW n \in Nodes \ {Root}, NEW s \in Slots, OweDue(n, s) PROVE C!Hand(n)
  BY <1>0, <1>5, HandStep DEF OweDue, history
<1>6. ASSUME NEW a \in acks, OnAck(a) PROVE a.to \in Nodes /\ C!Hand(a.to)
  <2>1. a.to \in Nodes
    BY DEF CustodyInv, TypeInv, TypeOK
  <2> QED BY <1>0, <1>6, <2>1, HandStep DEF OnAck, history
<1>7. ASSUME air # None, NEW n \in air.to PROVE n \in Nodes
  BY <1>7 DEF CustodyInv, TypeInv, TypeOK, Frames
<1>8. ASSUME air # None, NEW n \in air.to, Overhear(n) PROVE C!Hand(n)
  BY <1>0, <1>7, <1>8, HandStep DEF Overhear, history
<1>9. ASSUME air # None, NEW n \in air.to, n # Root, NEW old, NEW refusing, Receive(n, old, refusing)
      PROVE  C!Hand(n)
  <2>1. n \in Nodes \ {Root}
    BY <1>7, <1>9
  <2>2. deliveries' = deliveries
    <3>1. NodeResult(n, Received(n, old, refusing), Len(air.messages))
      BY <1>9, <2>1, ReceivedByNode DEF CustodyInv, TypeInv
    <3> QED BY <1>9, <3>1 DEF Receive, NodeResult
  <2> QED BY <1>0, <1>9, <2>1, <2>2, HandStep DEF Receive
<1>10. QED
  BY <1>1, <1>2, <1>3, <1>4, <1>5, <1>6, <1>7, <1>8, <1>9 DEF Next

\* With one relay, every step hands over, delivers or gives up what Custody allows
\* (reliable.py, "Custody").
THEOREM Refinement == OneRelay => (Spec => KeepsCustody)
<1> SUFFICES ASSUME OneRelay PROVE Spec => KeepsCustody
  OBVIOUS
<1>1. Init => C!Init
  BY DEF Init, C!Init, HoldersOf, Used, Range
<1>2. CustodyInv /\ CustodyInv' /\ [Next]_vars => [C!Next]_(C!vars)
  <2> SUFFICES ASSUME CustodyInv, CustodyInv', [Next]_vars PROVE [C!Next]_(C!vars)
    OBVIOUS
  <2>1. AbstractTypes'
    BY AbstractTyped, PTL
  <2>2. ASSUME \/ C!Deliver
               \/ \E n \in Nodes : C!Submit(n) \/ C!Hand(n) \/ C!GiveUp(n)
        PROVE  C!Next
    BY <2>1, <2>2 DEF AbstractTypes, C!Next
  <2>3. ASSUME NEW m \in Messages, Submit(m) PROVE C!Submit(Origin) /\ Origin \in Nodes
    BY <2>3, SubmitStep, ChainAssumption
  <2>4. ASSUME NEW n \in Nodes, NEW expired \in SUBSET Slots, NEW route \in BOOLEAN,
               ResumeHeld(n, expired, route)
        PROVE  C!GiveUp(n)
    BY <2>4, GiveUpStep
  <2>5. ASSUME air # None, Root \in air.to, NEW old, NEW refusing, Receive(Root, old, refusing)
        PROVE  C!Deliver
    BY <2>5, DeliverStep
  <2> QED BY <2>2, <2>3, <2>4, <2>5, OthersHand
<1>3. CustodyInv /\ [Next]_vars => CustodyInv'
  BY CustodyStep
<1>4. Init => CustodyInv
  BY CustodyInit
<1>5. QED
  BY <1>1, <1>2, <1>3, <1>4, PTL DEF Spec, KeepsCustody, C!Spec

------------------------------------------------------------------------------
(* What the abstract custody promises. *)

\* The types of the abstract state.
THEOREM CustodyTypes == C!Spec => []C!TypeOK
<1>1. C!Init => C!TypeOK
  BY DEF C!Init, C!TypeOK
<1>2. C!TypeOK /\ [C!Next]_(C!vars) => C!TypeOK'
  BY DEF C!TypeOK, C!Next, C!vars
<1>3. QED
  BY <1>1, <1>2, PTL DEF C!Spec

\* A message that a node has keeps a holder, or is over, in any step of Custody: taking
\* it adds a holder, leaving it needs another one or the end of the message.
LEMMA StepKeeps ==
  ASSUME C!Next, NEW m \in Messages, HoldersOf(m) # {} \/ C!Over(m)
  PROVE  (HoldersOf(m) # {} \/ C!Over(m))'
<1>1. CASE C!Deliver
  BY <1>1 DEF C!Deliver, C!Over
<1>2. ASSUME NEW n \in Nodes, C!Submit(n) PROVE (HoldersOf(m) # {} \/ C!Over(m))'
  BY <1>2 DEF C!Submit, C!Taken, C!Over
<1>3. ASSUME NEW n \in Nodes, C!Hand(n) PROVE (HoldersOf(m) # {} \/ C!Over(m))'
  BY <1>3 DEF C!Hand, C!Taken, C!Left, C!Over
<1>4. ASSUME NEW n \in Nodes, C!GiveUp(n) PROVE (HoldersOf(m) # {} \/ C!Over(m))'
  BY <1>4 DEF C!GiveUp, C!Left, C!Over
<1>5. QED
  BY <1>1, <1>2, <1>3, <1>4 DEF C!Next

\* A message never vanishes between nodes, whatever step Custody allows: it is held by a
\* node, delivered or given up (reliable.py, holding; link.py, _receive).
THEOREM MessageNeverLost == C!Spec => C!NeverLost
<1> DEFINE holders == [m \in Messages |-> HoldersOf(m)]
<1>1. [C!Next]_(C!vars) =>
        [\A m \in Messages : holders[m] # {} \/ C!Over(m) =>
           (holders[m] # {} \/ C!Over(m))']_(C!vars)
  <2> SUFFICES ASSUME C!Next, NEW m \in Messages, holders[m] # {} \/ C!Over(m)
               PROVE  (holders[m] # {} \/ C!Over(m))'
    OBVIOUS
  <2>1. (HoldersOf(m) # {} \/ C!Over(m))'
    BY StepKeeps
  <2> QED BY <2>1
<1>2. QED
  BY <1>1, PTL DEF C!Spec, C!NeverLost

\* With one relay no message vanishes on its way, whatever frames and acknowledgements
\* are lost, late or overheard (reliable.py, "Custody").
THEOREM CustodyKept == OneRelay => (Spec => C!NeverLost)
BY Refinement, MessageNeverLost, Zenon DEF KeepsCustody
==============================================================================
