------------------------------ MODULE FrameCodec ------------------------------
(***************************************************************************)
(* Frames as bytes: the size that the packing loop of mesh/txqueue.py      *)
(* keeps, the bundles and fields that mesh/frame.py writes and reads, and  *)
(* the reports of mesh/reports.py with the compression of the first hop,   *)
(* which mesh/routing.py undoes, and the acknowledgements of               *)
(* mesh/reliable.py.                                                       *)
(*                                                                         *)
(* A node packs messages one by one, in any order of service, and sends    *)
(* the frame; another encoder may have written it otherwise: some of its   *)
(* bytes are altered, or its end is cut.                                   *)
(***************************************************************************)
EXTENDS Integers, SequencesExt

CONSTANTS
  Presences,     \* presence reports of the node, [parent, flags, tails, extension]
  Topologies,    \* topology reports: sequences of [address, margin, member, ratio]
  NodeInfos,     \* node informations, [mac, protocol, firmware, name]
  Acks,          \* acknowledgement batches: sequences of [source, counter]
  Others,        \* other messages
  Header,        \* header of the frame; its dest is a relay
  Bytes,         \* what a byte is altered into
  LIMIT,         \* largest frame (255)
  GROUP_MAX,     \* messages of a bundle (255)
  ROUTE_MAX,     \* hops of a source route (7)
  TAILS_MAX,     \* flows of a presence (8)
  MAC_SIZE,      \* bytes of a hardware address (6)
  NAME_MAX,      \* bytes of a node's name
  MAX_MESSAGES,  \* bound: messages of a frame
  MAX_ALTERED,   \* bound: bytes altered
  Absent

ASSUME CodecAssumption ==
  /\ Bytes \subseteq 0 .. 255 /\ LIMIT \in 13 .. 255 /\ GROUP_MAX \in 2 .. 255
  /\ ROUTE_MAX \in 0 .. 127 /\ TAILS_MAX \in 1 .. 51
  /\ MAC_SIZE \in Nat /\ NAME_MAX \in Nat /\ Absent \notin Int

Words == {w \in Nat : w < 65536}

\* The fields of a header are in their ranges, or encode_header refuses it.
ASSUME HeaderAssumption ==
  /\ Header \in [dest : Words, source : Words, counter : Nat, rank : 0 .. 255,
                 version : 0 .. 15, epoch : 0 .. 1]
  /\ Header.counter < 256 * 65536

VARIABLES
  groups,  \* messages chosen, in groups that share one header
  size,    \* length of the frame with them, as the queue counts it
  frame,   \* Absent, or the bytes on air
  altered  \* bytes altered

codecVars == <<groups, size, frame, altered>>

(* Addressing modes. *)
LINK_LOCAL == 0
UPWARD == 1
ROUTED == {2, 3}
FIRST_HOP == 6
HasOrigin(mode) == mode \in {1, 3, 4}
HasDest(mode) == mode \in {2, 3}
HasSequence(mode, cls) == cls \in {1, 2} \/ mode \in {4, 5}

PRESENCE == 1
TOPOLOGY == 2
ACK == 3
NODE_INFO == 5
OVERHEAD == 13

Word(v) == <<v % 256, v \div 256>>
At(b, i) == b[i] + 256 * b[i + 1]
Bit(control, value) == (control \div value) % 2 = 1
If(condition, s) == IF condition THEN s ELSE <<>>

------------------------------------------------------------------------------
(* Reports: payloads. *)

MAX_ENTRIES == 50

\* The reports that encode_presence and encode_topology do not refuse.
ASSUME ReportAssumption ==
  /\ \A p \in Presences : p.flags \in 0 .. 255 /\ Len(p.tails) <= TAILS_MAX
  /\ \A t \in Topologies : Len(t) <= MAX_ENTRIES

TailBytes(t) == <<t.port>> \o Word(t.oldest) \o Word(t.last)

\* encode_presence: flag 8 tells whether there are tails.
EncodePresence(p) ==
  If(p.parent # Absent, Word(p.parent))
  \o <<p.flags - (IF Bit(p.flags, 8) THEN 8 ELSE 0) + IF p.tails = <<>> THEN 0 ELSE 8>>
  \o If(p.tails # <<>>, <<Len(p.tails)>> \o FlattenSeq([i \in DOMAIN p.tails |-> TailBytes(p.tails[i])]))
  \o p.extension

\* decode_presence of a payload with its parent; Absent when it is refused.
DecodePresence(b) ==
  LET flows == b[4]
      end == IF Bit(b[3], 8) THEN 4 + 5 * flows ELSE 3
  IN  IF \/ Len(b) < 3
         \/ Bit(b[3], 8) /\ (Len(b) < 4 \/ flows = 0 \/ flows > TAILS_MAX \/ end > Len(b))
        THEN Absent
        ELSE [parent |-> At(b, 1), flags |-> b[3],
              tails |-> [k \in 1 .. (IF end = 3 THEN 0 ELSE flows) |->
                           [port |-> b[5 * k], oldest |-> At(b, 5 * k + 1), last |-> At(b, 5 * k + 3)]],
              extension |-> SubSeq(b, end + 1, Len(b))]

\* encode_topology
EncodeTopology(entries) ==
  <<Len(entries)>>
  \o FlattenSeq([i \in DOMAIN entries |->
       Word(entries[i].address)
       \o <<entries[i].margin % 256, entries[i].ratio + IF entries[i].member THEN 128 ELSE 0>>])

\* decode_topology
DecodeTopology(b) ==
  IF Len(b) = 0 \/ Len(b) # 1 + 4 * b[1] THEN Absent
  ELSE IF \E k \in 1 .. b[1] : b[4 * k + 1] % 128 > 100 THEN Absent
  ELSE [k \in 1 .. b[1] |->
          [address |-> At(b, 4 * k - 2),
           margin |-> IF b[4 * k] > 127 THEN b[4 * k] - 256 ELSE b[4 * k],
           member |-> b[4 * k + 1] > 127, ratio |-> b[4 * k + 1] % 128]]

\* encode_node_info
EncodeNodeInfo(n) == n.mac \o <<n.protocol>> \o Word(n.firmware) \o n.name

\* decode_node_info; names have characters of one byte here.
DecodeNodeInfo(b) ==
  LET name == SubSeq(b, MAC_SIZE + 4, Len(b))
  IN  IF Len(b) \notin MAC_SIZE + 3 .. MAC_SIZE + 3 + NAME_MAX \/ \E i \in DOMAIN name : name[i] > 127
        THEN Absent
        ELSE [mac |-> SubSeq(b, 1, MAC_SIZE), protocol |-> b[MAC_SIZE + 1],
              firmware |-> At(b, MAC_SIZE + 2), name |-> name]

\* encode_acks: the low 16 bits of the frame counters.
EncodeAcks(entries) ==
  FlattenSeq([i \in DOMAIN entries |-> Word(entries[i].source) \o Word(entries[i].counter % 65536)])

\* decode_acks
DecodeAcks(b) ==
  IF Len(b) = 0 \/ Len(b) % 4 # 0 THEN Absent
  ELSE [k \in 1 .. Len(b) \div 4 |-> [source |-> At(b, 4 * k - 3), counter |-> At(b, 4 * k - 1)]]

\* _send: reports go to the first hop without origin.
Report(port, payload) ==
  [mode |-> FIRST_HOP, cls |-> 0, port |-> port, payload |-> payload,
   origin |-> Absent, dest |-> Absent, seq |-> Absent, route |-> Absent]

\* _send_acks
AckMessage(entries) == [Report(ACK, EncodeAcks(entries)) EXCEPT !.mode = LINK_LOCAL]

Messages ==
  Others \cup {Report(PRESENCE, EncodePresence(p)) : p \in Presences}
         \cup {Report(TOPOLOGY, EncodeTopology(t)) : t \in Topologies}
         \cup {Report(NODE_INFO, EncodeNodeInfo(n)) : n \in NodeInfos} \cup {AckMessage(a) : a \in Acks}

------------------------------------------------------------------------------
(* Encoding. *)

\* check_message: a message that encode does not refuse.
WellFormed(m) ==
  /\ m.mode \in 0 .. FIRST_HOP /\ m.cls \in 0 .. 2 /\ m.port \in 0 .. 255
  /\ m.origin \in IF HasOrigin(m.mode) THEN Words ELSE {Absent}
  /\ m.dest \in IF HasDest(m.mode) THEN Words ELSE {Absent}
  /\ m.seq \in IF HasSequence(m.mode, m.cls) THEN Words ELSE {Absent}
  /\ m.route # Absent =>
       m.mode \in ROUTED /\ Len(m.route) <= ROUTE_MAX /\ \A i \in DOMAIN m.route : m.route[i] \in Words
  /\ Len(m.payload) <= 255

\* Fields that are not carried are absent; addresses and the like are numbers.
MessageType ==
  [mode : Int, cls : Int, port : Int, payload : Seq(0 .. 255),
   origin : Int \cup {Absent}, dest : Int \cup {Absent}, seq : Int \cup {Absent},
   route : Seq(Int) \cup {Absent}]

\* Nodes send messages that check_message accepts.
ASSUME MessageAssumption == \A m \in Messages : m \in MessageType /\ WellFormed(m)

ElementSize(m) ==
  Len(m.payload) + (IF HasOrigin(m.mode) THEN 2 ELSE 0) + (IF HasDest(m.mode) THEN 2 ELSE 0)
  + (IF HasSequence(m.mode, m.cls) THEN 2 ELSE 0)
  + IF m.route = Absent THEN 0 ELSE 1 + 2 * Len(m.route)

SameGroup(a, b) ==
  /\ a.mode = b.mode /\ a.cls = b.cls /\ a.port = b.port
  /\ (a.route = Absent) = (b.route = Absent) /\ Len(a.payload) = Len(b.payload)

\* _group_end: consecutive messages that share one header.
Grouped(ms) ==
  LET gs[n \in 0 .. Len(ms)] ==
        IF n = 0 THEN <<>>
        ELSE LET before == gs[n - 1]
             IN  IF /\ before # <<>> /\ Len(Last(before)) < GROUP_MAX
                    /\ SameGroup(Last(before)[1], ms[n])
                   THEN Append(Front(before), Append(Last(before), ms[n]))
                   ELSE Append(before, <<ms[n]>>)
  IN  gs[Len(ms)]

\* The last group, if it is no bundle, leaves out its length.
Length(g, last) ==
  IF Len(g) > 1 THEN <<Len(g[1].payload), Len(g)>>
  ELSE If(~last, <<Len(g[1].payload)>>)

\* The sum of a sequence of sizes.
Total(s) ==
  LET sum[k \in 0 .. Len(s)] == IF k = 0 THEN 0 ELSE sum[k - 1] + s[k]
  IN  sum[Len(s)]

GroupSize(g, last) ==
  2 + Len(Length(g, last)) + Total([i \in DOMAIN g |-> ElementSize(g[i])])

\* frame_size
FrameSize(ms) ==
  LET gs == Grouped(ms)
  IN  OVERHEAD + Total([k \in DOMAIN gs |-> GroupSize(gs[k], k = Len(gs))])

EncodeElement(m) ==
  If(HasOrigin(m.mode), Word(m.origin)) \o If(HasDest(m.mode), Word(m.dest))
  \o If(m.seq # Absent, Word(m.seq))
  \o If(m.route # Absent, <<Len(m.route)>> \o FlattenSeq([i \in DOMAIN m.route |-> Word(m.route[i])]))
  \o m.payload

EncodeGroup(g, last) ==
  LET control == 32 * g[1].mode + 8 * g[1].cls + (IF g[1].route = Absent THEN 0 ELSE 4)
                 + (IF Len(g) > 1 THEN 2 ELSE 0) + IF last THEN 1 ELSE 0
  IN  <<control, g[1].port>> \o Length(g, last) \o FlattenSeq([i \in DOMAIN g |-> EncodeElement(g[i])])

EncodeHeader(h) ==
  <<64 + 32 * h.epoch + 2 * h.version>> \o Word(h.dest) \o Word(h.source)
  \o Word(h.counter % 65536) \o <<h.counter \div 65536, h.rank>>

\* encode
Encode(h, ms) ==
  LET gs == Grouped(ms)
  IN  EncodeHeader(h) \o FlattenSeq([i \in DOMAIN gs |-> EncodeGroup(gs[i], i = Len(gs))])
      \o <<0, 0, 0, 0>>

------------------------------------------------------------------------------
(* Decoding: [error, messages, next: place after what was read].           *)

Fails(reason) == [error |-> reason, messages |-> <<>>, next |-> 0]

DecodeHeader(b) ==
  IF Len(b) \notin OVERHEAD .. 255 THEN Fails("LENGTH")
  ELSE IF b[1] \div 64 # 1 THEN Fails("VERSION")
  ELSE [epoch |-> IF Bit(b[1], 32) THEN 1 ELSE 0, version |-> (b[1] \div 2) % 16,
        dest |-> At(b, 2), source |-> At(b, 4), counter |-> At(b, 6) + 65536 * b[8], rank |-> b[9]]

\* The control, port, length and count of the group at place i.
GroupHeader(b, i) ==
  LET control == b[i]
      bundle == Bit(control, 2)
      last == Bit(control, 1)
      h == [mode |-> control \div 32, cls |-> (control \div 8) % 4, routed |-> Bit(control, 4),
            last |-> last, port |-> b[i + 1], error |-> "none",
            length |-> IF last /\ ~bundle THEN Absent ELSE b[i + 2],
            count |-> IF bundle THEN b[i + 3] ELSE 1,
            next |-> i + IF bundle THEN 4 ELSE IF last THEN 2 ELSE 3]
  IN  IF i + 1 > Len(b) THEN Fails("TRUNCATED")
      ELSE IF control \div 32 > FIRST_HOP \/ (control \div 8) % 4 = 3
              \/ (Bit(control, 4) /\ control \div 32 \notin ROUTED) THEN Fails("MALFORMED")
      ELSE IF i + (IF bundle THEN 3 ELSE IF last THEN 1 ELSE 2) > Len(b) THEN Fails("TRUNCATED")
      ELSE IF bundle /\ b[i + 3] < 2 THEN Fails("MALFORMED")
      ELSE h

\* A mutant of TooLong: any number of hops.
TooLongNever(hops) == FALSE

TooLong(hops) == hops > ROUTE_MAX

\* The element at place i of a group with header h.
Element(b, h, i) ==
  LET dest == i + IF HasOrigin(h.mode) THEN 2 ELSE 0
      seq == dest + IF HasDest(h.mode) THEN 2 ELSE 0
      route == seq + IF HasSequence(h.mode, h.cls) THEN 2 ELSE 0
      payload == route + IF h.routed THEN 1 + 2 * b[route] ELSE 0
      end == IF h.length = Absent THEN Len(b) ELSE payload + h.length - 1
      word(has, place) == IF has THEN At(b, place) ELSE Absent
  IN  IF route + (IF h.routed THEN 1 ELSE 0) > Len(b) + 1 THEN Fails("TRUNCATED")
      ELSE IF h.routed /\ TooLong(b[route]) THEN Fails("MALFORMED")
      ELSE IF payload > Len(b) + 1 \/ end > Len(b) THEN Fails("TRUNCATED")
      ELSE [error |-> "none", next |-> end + 1,
            messages |-> <<[mode |-> h.mode, cls |-> h.cls, port |-> h.port,
                            payload |-> SubSeq(b, payload, end),
                            origin |-> word(HasOrigin(h.mode), i), dest |-> word(HasDest(h.mode), dest),
                            seq |-> word(HasSequence(h.mode, h.cls), seq),
                            route |-> IF h.routed THEN [k \in 1 .. b[route] |-> At(b, route + 2 * k - 1)]
                                      ELSE Absent]>>]

\* Nothing is read before place i.
Start(i) == [error |-> "none", messages |-> <<>>, next |-> i]

\* What was read, then the result of the next step.
Then(r, further) ==
  IF r.error # "none" THEN r
  ELSE IF further.error # "none" THEN further
  ELSE [further EXCEPT !.messages = r.messages \o @]

\* The elements of a group with header h, one after the other, until one fails.
Elements(b, h) ==
  LET read[k \in 0 .. h.count] ==
        IF k = 0 THEN Start(h.next)
        ELSE LET r == read[k - 1] IN Then(r, Element(b, h, r.next))
  IN  read[CHOOSE k \in 0 .. h.count : k = h.count \/ read[k].error # "none"]

\* A group marked last ends the body.
EndsWell(b, h, r) == r.error = "none" /\ h.last => r.next = Len(b) + 1

\* The group at place i.
Group(b, i) ==
  LET h == GroupHeader(b, i)
      r == Elements(b, h)
  IN  IF h.error # "none" THEN h
      ELSE IF EndsWell(b, h, r) THEN r ELSE Fails("MALFORMED")

\* decode_messages of the clear body b: groups, of two bytes at least, until its end or a failure.
DecodeBody(b) ==
  LET read[k \in 0 .. Len(b)] ==
        IF k = 0 THEN Start(1)
        ELSE LET r == read[k - 1]
             IN  IF r.error # "none" \/ r.next > Len(b) THEN r ELSE Then(r, Group(b, r.next))
  IN  read[CHOOSE k \in 0 .. Len(b) : read[k].error # "none" \/ read[k].next > Len(b)]

\* decode: the body lies between the header and the tag.
Decode(b) == DecodeBody(SubSeq(b, 10, Len(b) - 4))
Accepts(b) == "rank" \in DOMAIN DecodeHeader(b) /\ Decode(b).error = "none"

\* restore_parent
RestoredParent(payload, parent) == Word(parent) \o payload

\* expand_first_hop
FirstHopExpanded(m, h) ==
  IF m.mode = FIRST_HOP THEN [m EXCEPT !.mode = UPWARD, !.origin = h.source] ELSE m

WithParent(m, parent) ==
  IF m.mode = FIRST_HOP /\ m.port = PRESENCE
    THEN [m EXCEPT !.payload = RestoredParent(@, parent)] ELSE m

\* A mutant of Expanded: the parent is the node, not the relay.
ExpandedSource(m, h) == FirstHopExpanded(WithParent(m, h.source), h)

\* _expand: a relay restores the origin, and the parent of a presence, itself.
Expanded(m, h) == FirstHopExpanded(WithParent(m, h.dest), h)

\* priority: ports without one.
Reserved(port) == port = 0 \/ port \in 11 .. 15

\* offer: a message it does not raise ValueError for.
Admitted(m) ==
  ~Reserved(m.port) /\ WellFormed(m) /\ OVERHEAD + 2 + ElementSize(m) <= LIMIT

\* _accept: what a relay other than the root offers to its queue.
Forwarded(ms) ==
  SelectSeq([i \in DOMAIN ms |-> Expanded(ms[i], Header)],
            LAMBDA m : m.mode = UPWARD \/ (m.mode \in ROUTED /\ m.dest # Header.dest))

\* _on_report at the root.
Reported(m) ==
  IF m.mode # UPWARD THEN Absent
  ELSE CASE m.port = PRESENCE -> DecodePresence(m.payload)
         [] m.port = TOPOLOGY -> DecodeTopology(m.payload)
         [] OTHER -> DecodeNodeInfo(m.payload)

------------------------------------------------------------------------------
(* The packing loop. *)

CodecInit == groups = <<>> /\ size = OVERHEAD /\ frame = Absent /\ altered = 0

Selected == FlattenSeq(groups)

HeaderBytes(n, last) == IF n > 1 THEN 4 ELSE IF last THEN 2 ELSE 3

\* A mutant of Grow: a group that is no longer the last one keeps its header.
GrowAlone(g, m) ==
  ElementSize(m)
  + IF g <= Len(groups)
      THEN HeaderBytes(Len(groups[g]) + 1, g = Len(groups)) - HeaderBytes(Len(groups[g]), g = Len(groups))
      ELSE 2

\* What message m adds to the frame, in group g.
Grow(g, m) ==
  ElementSize(m)
  + IF g <= Len(groups)
      THEN HeaderBytes(Len(groups[g]) + 1, g = Len(groups)) - HeaderBytes(Len(groups[g]), g = Len(groups))
      ELSE 2 + IF groups # <<>> /\ Len(Last(groups)) = 1 THEN 1 ELSE 0

\* pack: the next message joins the first group it may share, or a new one, if it fits.
Join(m) ==
  LET same == {k \in DOMAIN groups : SameGroup(groups[k][1], m)}
      g == IF same = {} THEN Len(groups) + 1 ELSE CHOOSE k \in same : \A l \in same : k <= l
  IN  /\ frame = Absent /\ Len(Selected) < MAX_MESSAGES
      /\ same # {} => Len(groups[g]) < GROUP_MAX
      /\ size + Grow(g, m) <= LIMIT
      /\ size' = size + Grow(g, m)
      /\ groups' = IF same = {} THEN Append(groups, <<m>>) ELSE [groups EXCEPT ![g] = Append(@, m)]
      /\ UNCHANGED <<frame, altered>>

Send ==
  /\ frame = Absent /\ groups # <<>>
  /\ frame' = Encode(Header, Selected)
  /\ UNCHANGED <<groups, size, altered>>

\* The body of another encoder.
Alter(i, byte) ==
  /\ frame # Absent /\ altered < MAX_ALTERED /\ i \in 10 .. Len(frame) - 4
  /\ frame' = [frame EXCEPT ![i] = byte] /\ altered' = altered + 1
  /\ UNCHANGED <<groups, size>>

Cut ==
  /\ frame # Absent /\ altered < MAX_ALTERED /\ Len(frame) > OVERHEAD
  /\ frame' = Front(frame) /\ altered' = altered + 1
  /\ UNCHANGED <<groups, size>>

CodecNext ==
  \/ \E m \in Messages : Join(m)
  \/ Send \/ Cut
  \/ \E i \in 10 .. LIMIT, byte \in Bytes : Alter(i, byte)

CodecSpec == CodecInit /\ [][CodecNext]_codecVars

------------------------------------------------------------------------------
\* The size that the queue keeps message by message, from which it admits the air
\* time, is that of the frame encoded; and its receiver reads what was packed, in
\* the same order (txqueue.py, pack; frame.py, encode, decode).
FrameFaithful ==
  frame # Absent /\ altered = 0 =>
    /\ Len(frame) = size /\ FrameSize(Selected) = size
    /\ DecodeHeader(frame) = Header
    /\ Decode(frame).error = "none" /\ Decode(frame).messages = Selected

Relayed == [i \in DOMAIN Selected |-> Expanded(Selected[i], Header)]

\* A report compressed for its first hop, forwarded in a frame of the relay, is read
\* by the root with its fields and the relay as the parent of its node; the entries
\* of an acknowledgement are read as they were owed (routing.py, _expand, _on_report;
\* frame.py, expand_first_hop; reliable.py, decode_acks).
ReportsRestored ==
  frame # Absent /\ altered = 0 =>
    LET read == Decode(Encode(Header, Relayed)).messages
    IN  \A i \in DOMAIN Selected :
          LET m == Selected[i]
              report == Reported(read[i])
          IN  /\ m.mode = FIRST_HOP => read[i].origin = Header.source
              /\ m.mode = FIRST_HOP /\ m.port = PRESENCE =>
                   /\ report.parent = Header.dest
                   /\ EncodePresence([report EXCEPT !.parent = Absent]) = m.payload
              /\ m.mode = FIRST_HOP /\ m.port = TOPOLOGY => report \in Topologies
              /\ m.mode = FIRST_HOP /\ m.port = NODE_INFO => report \in NodeInfos
              /\ m.mode = LINK_LOCAL =>
                   \E a \in Acks : /\ AckMessage(a) = m
                                   /\ DecodeAcks(read[i].payload)
                                        = [k \in DOMAIN a |-> [a[k] EXCEPT !.counter = @ % 65536]]

\* A report read at the root, written again.
Rewritten(port, report) ==
  CASE port = PRESENCE -> EncodePresence(report)
    [] port = TOPOLOGY -> EncodeTopology(report)
    [] port = NODE_INFO -> EncodeNodeInfo(report)

\* What a relay takes from a frame of any encoder it can send on, after the fields it
\* restores: its encoder does not refuse a message its queue admits, each fits in a
\* frame, and the next hop reads them alike, in their order; a message of a known port
\* that offer raises for is one no frame can carry; a report the root accepts has
\* nothing left out (link.py, _accept; txqueue.py, offer; frame.py, decode_messages,
\* check_message; reports.py, decode_presence, decode_topology, decode_node_info).
ForwardedAlike ==
  frame # Absent /\ Accepts(frame) =>
    LET ms == Forwarded(Decode(frame).messages)
        taken == SelectSeq(ms, Admitted)
        again == Encode(Header, taken)
    IN  /\ \A m \in ToSet(ms) : Reserved(m.port) \/ (Admitted(m) <=> Len(Encode(Header, <<m>>)) <= LIMIT)
        /\ Decode(again).error = "none" /\ Decode(again).messages = taken
        /\ \A m \in ToSet(taken) :
             m.port \in {PRESENCE, TOPOLOGY, NODE_INFO} /\ Reported(m) # Absent =>
               m.payload = Rewritten(m.port, Reported(m))

\* A relay offers its queue no message that offer raises for: txqueue.py 200-203, where
\* that is a bug of the caller, whose submissions are checked before.  It does not hold
\* for the frames of other encoders (README, Divergences).
OffersChecked ==
  frame # Absent /\ Accepts(frame) =>
    \A m \in ToSet(Forwarded(Decode(frame).messages)) : Admitted(m)
==============================================================================
