------------------------------- MODULE TxQueue -------------------------------
(***************************************************************************)
(* mesh/txqueue.py: the transmit queue of a board.  A frame takes the head *)
(* of the queue and what else is bound to the same next hop.  Between the  *)
(* packing of a frame and its transmission the queue may change in every   *)
(* way the mesh changes it (mesh/link.py senses the channel in between,    *)
(* and receives).                                                          *)
(*                                                                         *)
(* The entries stand in order of age, oldest first; the slots, which only  *)
(* serve to find an entry again, are left out.  The code checks an entry   *)
(* against the message object it packed: here the entry says whether its   *)
(* message is in the frame packed.  Lengths, the frame limit and the       *)
(* duty-cycle allowances are counted in bytes, less the OVERHEAD of every  *)
(* frame, time on air growing with the length.  A group never reaches the  *)
(* 255 messages of a bundle: SIZE is 254 at most.                          *)
(***************************************************************************)
EXTENDS Integers, FiniteSets, Sequences, SequencesExt

CONSTANTS
  Offers,        \* offers: [origin, cls, port, prio, shape, len, hop, up, replace]
  Hops,          \* next hops
  Parents,       \* next hops a queued message may be moved to
  Local,         \* the origin of the node's own messages
  SIZE,          \* entries (64)
  QUOTA,         \* messages of an origin once the queue is half full (16)
  FRAME,         \* frame limit
  Ends,          \* lengths at which a duty-cycle allowance may end (a bound)
  ATTEMPTS,      \* transmissions of a message to one next hop (3)
  NoOrigin       \* an origin index without origin

ASSUME TxQueueAssumption ==
  /\ SIZE \in Nat /\ SIZE >= 2
  /\ QUOTA \in Nat \ {0}
  /\ FRAME \in Nat /\ Ends \subseteq Nat
  /\ ATTEMPTS \in Nat \ {0}
  /\ \A m \in Offers : m.cls \in 0 .. 2 /\ m.prio \in 1 .. 3 /\ m.len \in Nat
                       /\ m.hop \in Hops /\ m.up \in BOOLEAN /\ m.replace \in BOOLEAN
  /\ Parents \subseteq Hops
  /\ NoOrigin \notin {m.origin : m \in Offers}

Indices == 0 .. SIZE - 1
Priorities == 1 .. 3
Origins == {m.origin : m \in Offers}

VARIABLES
  queue,  \* the entries, oldest first
  okey,   \* the origin of each origin index
  last,   \* origin index served last, per priority
  sel     \* the same once the frame packed is sent (NoOrigin: not served by it)

vars == <<queue, okey, last, sel>>

NothingPacked == [p \in Priorities |-> NoOrigin]

Init ==
  /\ queue = <<>>
  /\ okey = [i \in Indices |-> NoOrigin]
  /\ last = [p \in Priorities |-> SIZE - 1]
  /\ sel = NothingPacked

------------------------------------------------------------------------------
\* Positions in the queue of the messages of origin o, of the messages that do
\* not wait.
OfOrigin(o) == {i \in DOMAIN queue : queue[i].origin = o}
Ready == {i \in DOMAIN queue : ~queue[i].wait}

\* The index of origin o, which holds messages.
Index(o) == CHOOSE i \in Indices : okey[i] = o

\* The entries at positions I leave the queue q.
Without(q, I) == [j \in 1 .. Len(q) - Cardinality(I) |->
                    q[CHOOSE i \in DOMAIN q \ I :
                        Cardinality({k \in DOMAIN q \ I : k <= i}) = j]]

\* Mutant: an origin keeps its index when its last message leaves.
KeysKept(q) == okey

\* The origin indices still in use with the queue q.
KeysOf(q) ==
  [i \in Indices |-> IF \E j \in DOMAIN q : q[j].origin = okey[i] THEN okey[i] ELSE NoOrigin]

\* The indices k once origin o holds messages: the first free one for a new one.
WithKey(k, o) ==
  IF \E i \in Indices : k[i] = o THEN k
  ELSE LET i == CHOOSE i \in Indices : k[i] = NoOrigin
                                       /\ \A j \in 0 .. i - 1 : k[j] # NoOrigin
       IN  [k EXCEPT ![i] = o]

\* The entry of a message just offered: shape stands for its mode, whether it is
\* routed and the length of its payload, len is the length of its element.
Entry(m) ==
  [origin |-> m.origin, cls |-> m.cls, port |-> m.port, prio |-> m.prio,
   shape |-> m.shape, len |-> m.len, hop |-> m.hop, up |-> m.up,
   wait |-> FALSE, attempts |-> 0, packed |-> FALSE]

------------------------------------------------------------------------------
\* _older: queued class 0 messages of the origin and port of m.
Older(m) == {i \in OfOrigin(m.origin) : queue[i].cls = 0 /\ queue[i].port = m.port}

\* Mutant: the quota counts from a full queue on.
OverQuotaLate(o) == Len(queue) = SIZE /\ Cardinality(OfOrigin(o)) >= QUOTA

OverQuota(o) == Len(queue) > SIZE \div 2 /\ Cardinality(OfOrigin(o)) >= QUOTA

\* Mutant: the node's own messages give way too.
EvictableOwn(p) ==
  {i \in DOMAIN queue : queue[i].cls = 0 /\ queue[i].prio >= p}

\* Forwarded class 0 messages, none more urgent than p.
Evictable(p) ==
  {i \in DOMAIN queue :
     queue[i].origin # Local /\ queue[i].cls = 0 /\ queue[i].prio >= p}

\* _eviction: the least urgent one, oldest first.
Victim(p) ==
  CHOOSE v \in Evictable(p) :
    \A i \in Evictable(p) :
      queue[v].prio > queue[i].prio \/ (queue[v].prio = queue[i].prio /\ v <= i)

\* _insert behind the queue q, whose origin indices are k.
Insert(m, q, k) ==
  /\ queue' = Append(q, Entry(m))
  /\ okey' = WithKey(k, m.origin)

\* offer: the newer message takes the place and the age of the oldest queued
\* one; attempts and flags, which class 0 does not use, stay.
Replace(m) ==
  /\ \E i \in Older(m) :
       /\ \A j \in Older(m) : i <= j
       /\ queue' = [queue EXCEPT ![i] = Entry(m)]
  /\ UNCHANGED okey

\* offer: the message is queued, at the end or in place of an older one, if
\* need be after a less urgent forwarded one is dropped.  Any other message is
\* refused and changes nothing.
Offer(m) ==
  /\ UNCHANGED <<last, sel>>
  /\ IF m.cls = 0 /\ m.replace /\ Older(m) # {} THEN Replace(m)
     ELSE /\ ~OverQuota(m.origin)
          /\ \/ /\ Len(queue) < SIZE
                /\ Insert(m, queue, okey)
             \/ /\ Len(queue) = SIZE
                /\ m.origin # Local /\ m.cls = 0 /\ Evictable(m.prio) # {}
                /\ LET q == Without(queue, {Victim(m.prio)}) IN Insert(m, q, KeysOf(q))

------------------------------------------------------------------------------
\* Mutant: a message's rank counts the messages of every origin.
RoundByAge(i) ==
  Cardinality({j \in Ready : queue[j].prio = queue[i].prio /\ j < i})

\* Rank of a ready message within its origin and priority, by age.
Round(i) ==
  Cardinality({j \in Ready : /\ queue[j].prio = queue[i].prio
                             /\ queue[j].origin = queue[i].origin
                             /\ j < i})

\* Cyclic distance of an origin from the one served last at the priority.
Distance(i) == (Index(queue[i].origin) - last[queue[i].prio] - 1) % SIZE

\* Mutant: the round comes before the priority.
BeforeByRound(i, j) ==
  \/ Round(i) < Round(j)
  \/ Round(i) = Round(j) /\ queue[i].prio < queue[j].prio
  \/ Round(i) = Round(j) /\ queue[i].prio = queue[j].prio /\ Distance(i) < Distance(j)

\* Service order: priority, round, turn of the origin.
Before(i, j) ==
  \/ queue[i].prio < queue[j].prio
  \/ queue[i].prio = queue[j].prio /\ Round(i) < Round(j)
  \/ queue[i].prio = queue[j].prio /\ Round(i) = Round(j) /\ Distance(i) < Distance(j)

Larger(x, y) == IF x < y THEN y ELSE x

\* Messages that may share one header, and those of A that may share that of i.
SameGroup(i, j) ==
  /\ queue[i].cls = queue[j].cls
  /\ queue[i].port = queue[j].port
  /\ queue[i].shape = queue[j].shape
Mates(A, i) == {j \in A : SameGroup(i, j)}

\* The messages of A that open a group, and the one that opens the last group:
\* groups stand in the order of their first messages.
Openers(A) == {k \in A : \A j \in Mates(A, k) : ~Before(j, k)}
LastOpener(A) == CHOOSE k \in Openers(A) : \A j \in Openers(A) : ~Before(k, j)

\* What the headers of a frame with the messages A grow by with the one at i: 2 bytes
\* for the last group of one message, 3 for another one, 4 for a bundle.
Header(A, i) ==
  CASE Mates(A, i) = {} ->
         2 + (IF \E k \in A : Mates(A, LastOpener(A)) = {k} THEN 1 ELSE 0)
    [] \E k \in A : Mates(A, i) = {k} -> IF SameGroup(LastOpener(A), i) THEN 2 ELSE 1
    [] OTHER -> 0

\* What the frame grows by.
Growth(A, i) == queue[i].len + Header(A, i)

\* The frame f, with the entry at i if it fits: same next hop as the head,
\* within the frame limit and the allowance of the least urgent priority carried.
Join(f, i, allowance) ==
  LET len == f.len + Growth(f.taken, i)
      prio == Larger(f.prio, queue[i].prio)
  IN  IF /\ \A j \in f.taken : queue[j].hop = queue[i].hop
         /\ len <= FRAME
         /\ len <= allowance[prio]
      THEN [taken |-> f.taken \cup {i}, len |-> len, prio |-> prio,
            last |-> [f.last EXCEPT ![queue[i].prio] = Index(queue[i].origin)]]
      ELSE f

\* The ready messages in service order.
ServiceOrder ==
  CHOOSE order \in [1 .. Cardinality(Ready) -> Ready] :
    \A m, n \in DOMAIN order : m < n => Before(order[m], order[n])

EmptyFrame == [taken |-> {}, len |-> 0, prio |-> 1, last |-> NothingPacked]

\* The frame packed from the messages in this order, with these allowances.
Packed(order, allowance) ==
  LET frame[n \in 0 .. Len(order)] ==
        IF n = 0 THEN EmptyFrame ELSE Join(frame[n - 1], order[n], allowance)
  IN  frame[Len(order)]

\* Less urgent priorities are allowed less.
Allowances == {a \in [Priorities -> Ends] : a[1] >= a[2] /\ a[2] >= a[3]}

\* The queue with exactly the entries at I in the frame packed.
Marked(I) == [i \in DOMAIN queue |-> [queue[i] EXCEPT !.packed = i \in I]]

\* pack: nothing but the selection changes; a former one is forgotten.
Pack ==
  LET order == ServiceOrder
  IN  \E f \in {Packed(order, allowance) : allowance \in Allowances} :
        /\ f.taken # {}
        /\ queue' = Marked(f.taken)
        /\ sel' = f.last
        /\ UNCHANGED <<okey, last>>

\* Mutant: an entry that waits by now is sent again.
SentWaiting == {i \in DOMAIN queue : queue[i].packed}

\* The entries of the selection unchanged since, and not waiting.
Sent == {i \in Ready : queue[i].packed}

\* A class 1 or 2 message sent waits for its acknowledgement.
Await(e) ==
  [e EXCEPT !.wait = TRUE, !.attempts = @ + 1]

\* The indices served last once the frame is on air.
Turns == [p \in Priorities |-> IF sel[p] = NoOrigin THEN last[p] ELSE sel[p]]

\* commit: the frame is on air.
Commit ==
  /\ sel # NothingPacked
  /\ LET on == [i \in DOMAIN queue |-> IF i \in Sent THEN Await(queue[i]) ELSE queue[i]]
         off == [i \in DOMAIN queue |-> [on[i] EXCEPT !.packed = FALSE]]
         q == Without(off, {i \in Sent : queue[i].cls = 0})
     IN  queue' = q /\ okey' = KeysOf(q)
  /\ last' = Turns
  /\ sel' = NothingPacked

------------------------------------------------------------------------------
\* Mutant: the attempts go on towards a new next hop.
RetryKeepsAttempts(i, hop, fresh) ==
  /\ queue[i].wait
  /\ queue[i].attempts < ATTEMPTS \/ fresh \/ hop # queue[i].hop
  /\ queue' = [queue EXCEPT ![i] = [queue[i] EXCEPT !.wait = FALSE, !.hop = hop]]
  /\ UNCHANGED <<okey, last, sel>>

\* The entry e may be packed again, with fresh attempts if it has a new next hop
\* or is resumed.
Released(e, hop, fresh) ==
  [e EXCEPT !.wait = FALSE, !.hop = hop, !.attempts = IF fresh \/ hop # e.hop THEN 0 ELSE @]

\* retry: a waiting message is released.  The caller (mesh/reliable.py) asks for
\* no more than ATTEMPTS towards one next hop.
Retry(i, hop, fresh) ==
  /\ queue[i].wait
  /\ queue[i].attempts < ATTEMPTS \/ fresh \/ hop # queue[i].hop
  /\ queue' = [queue EXCEPT ![i] = Released(queue[i], hop, fresh)]
  /\ UNCHANGED <<okey, last, sel>>

\* hold: a class 1 or 2 message waits without an attempt.
Hold(i) ==
  /\ queue[i].cls # 0
  /\ queue' = [queue EXCEPT ![i].wait = TRUE]
  /\ UNCHANGED <<okey, last, sel>>

\* redirect: the upward messages that do not wait follow a new preferred parent.
Redirect(hop) ==
  /\ queue' = [i \in DOMAIN queue |->
                 IF i \in Ready /\ queue[i].up /\ queue[i].hop # hop
                 THEN [queue[i] EXCEPT !.hop = hop, !.attempts = 0] ELSE queue[i]]
  /\ UNCHANGED <<okey, last, sel>>

\* promote: a message becomes more urgent; the only caller (mesh/dodag.py) asks
\* for the most urgent priority, for an advertisement of the node.
Promote(i) ==
  /\ queue[i].prio > 1 /\ queue[i].origin = Local /\ queue[i].cls = 0
  /\ queue' = [queue EXCEPT ![i].prio = 1]
  /\ UNCHANGED <<okey, last, sel>>

\* remove and drop: the entries at I leave.
Drop(I) ==
  /\ I # {}
  /\ queue' = Without(queue, I)
  /\ okey' = KeysOf(queue')
  /\ UNCHANGED <<last, sel>>

\* Periodic and diagnostic class 0 messages, given up on a busy channel or
\* refused by the allowances (mesh/link.py, _is_report).
Reports(p) == {i \in DOMAIN queue : queue[i].cls = 0 /\ queue[i].prio >= p}

\* What the mesh takes out: one message acknowledged or failed, the reports of
\* the frame packed, the reports of the priorities refused, or all at the end.
TakenOut ==
  {{i} : i \in DOMAIN queue} \cup {Reports(p) : p \in 2 .. 3}
    \cup {{i \in Reports(2) : queue[i].packed}, DOMAIN queue}

\* What mesh/reliable.py, routing.py, dodag.py and link.py ask for.
ByCaller ==
  \/ \E i \in DOMAIN queue, hop \in Hops, fresh \in BOOLEAN :
       /\ hop \in Parents \cup {queue[i].hop}
       /\ Retry(i, hop, fresh)
  \/ \E i \in DOMAIN queue : Hold(i)
  \/ \E hop \in Parents : Redirect(hop)
  \/ \E i \in DOMAIN queue : Promote(i)
  \/ \E I \in TakenOut : Drop(I)

Change == ByCaller \/ \E m \in Offers : Offer(m)

Next == Change \/ Pack \/ Commit

Spec == Init /\ [][Next]_vars

------------------------------------------------------------------------------
Entries ==
  [origin : Origins, cls : 0 .. 2, port : {m.port : m \in Offers}, prio : Priorities,
   shape : {m.shape : m \in Offers}, len : Nat, hop : Hops, up : BOOLEAN, wait : BOOLEAN, attempts : 0 .. ATTEMPTS,
   packed : BOOLEAN]

\* The type invariant of the queue, its tables and the frame packed.
TypeOK ==
  /\ queue \in Seq(Entries)
  /\ Len(queue) <= SIZE
  /\ okey \in [Indices -> Origins \cup {NoOrigin}]
  /\ last \in [Priorities -> Indices]
  /\ sel \in [Priorities -> Indices \cup {NoOrigin}]

\* An origin has an index, and one only, exactly while it holds messages: the
\* table of SIZE indices never runs out (txqueue.py 284-286, index(None)).
IndexExact ==
  /\ \A e \in Range(queue) : \E i \in Indices : okey[i] = e.origin
  /\ \A i \in Indices : okey[i] # NoOrigin => OfOrigin(okey[i]) # {}
  /\ \A i, j \in Indices : okey[i] = okey[j] /\ okey[i] # NoOrigin => i = j

\* No origin ever holds more than its quota, or than what half a queue lets in:
\* a flood leaves the other origins their room (MESH_DESIGN 438-445).
QuotaBound ==
  \A o \in Origins : Cardinality(OfOrigin(o)) <= Larger(QUOTA, SIZE \div 2 + 1)

\* The class 1 and 2 messages of queue q by age, with the attempts that were
\* answered by a retry.
Custodies(q) ==
  LET kept == Without(q, {i \in DOMAIN q : q[i].cls = 0})
  IN  [i \in DOMAIN kept |->
         [origin |-> kept[i].origin, cls |-> kept[i].cls, port |-> kept[i].port,
          hop |-> kept[i].hop,
          retried |-> kept[i].attempts - (IF kept[i].wait THEN 1 ELSE 0)]]

\* Custody: a class 1 or 2 message leaves, moves or is sent again at the request
\* of a caller only; no admission, replacement or eviction, and no frame, even
\* one packed before the queue changed, makes it leave or lose its place, or
\* miscounts its transmissions (txqueue.py 50-53 and 446-451).
Custody ==
  [][IsPrefix(Custodies(queue), Custodies(queue')) \/ ByCaller]_vars

\* The message that makes room for a newcomer is a forwarded class 0 one, no more
\* urgent than the newcomer, and no forwarded class 0 message left in the queue
\* was less urgent, or as urgent and older (txqueue.py 23-26).
EvictionFair ==
  [][\A m \in Offers :
       (Len(queue) = SIZE /\ ~(m.replace /\ Older(m) # {}) /\ Offer(m)) =>
       \E v \in DOMAIN queue :
         /\ \A i \in 1 .. SIZE - 1 : queue'[i] = queue[IF i < v THEN i ELSE i + 1]
         /\ queue[v].cls = 0 /\ queue[v].origin # Local /\ queue[v].prio >= m.prio
         /\ \A i \in DOMAIN queue \ {v} :
              (queue[i].cls = 0 /\ queue[i].origin # Local) =>
                queue[i].prio < queue[v].prio \/ (queue[i].prio = queue[v].prio /\ v < i)]_vars

\* The messages of the frame just packed, the ready ones bound where it goes that
\* it leaves behind, and the packing of a frame that leaves some.
Taken == {i \in DOMAIN queue' : queue'[i].packed}
LeftBehind == {i \in Ready \ Taken : \E j \in Taken : queue[i].hop = queue[j].hop}
Packs == LeftBehind # {} /\ queue' = Marked(Taken) /\ Pack

\* The messages of the frame served before j.
Earlier(j) == {k \in Taken : Before(k, j)}

\* A frame never takes a message before a more urgent one, nor before an older one
\* of the same origin and priority, unless that one, in its stead, would have made
\* the frame longer (txqueue.py 7-10 and 40-44).
NoOvertaking ==
  [][Packs => \A i \in LeftBehind, j \in Taken :
       Growth(Earlier(j), i) <= Growth(Earlier(j), j) =>
         /\ queue[i].prio >= queue[j].prio
         /\ (queue[i].prio = queue[j].prio /\ queue[i].origin = queue[j].origin) => j < i]_vars

\* How many messages of origin o and priority p the frame just packed takes.
Share(o, p) == Cardinality({i \in Taken : queue[i].origin = o /\ queue[i].prio = p})

\* The ready messages of the priority of i may share its header, are as long and
\* have its next hop.
Alike(i) ==
  \A j \in Ready : queue[j].prio = queue[i].prio =>
    SameGroup(i, j) /\ queue[j].len = queue[i].len /\ queue[j].hop = queue[i].hop

\* In a frame, an origin kept waiting has had at most one message fewer than any
\* other origin of the priority, whatever their volumes (txqueue.py 8-13), as long as
\* groups, lengths and next hops are equal: otherwise the turn passes over those that
\* do not fit.
EqualShare ==
  [][Packs => \A i \in LeftBehind, o \in Origins :
       Alike(i) => Share(o, queue[i].prio) <= Share(queue[i].origin, queue[i].prio) + 1]_vars
==============================================================================
