----------------------------- MODULE MCFrameCodec -----------------------------
(***************************************************************************)
(* Small instance of FrameCodec: reports with and without tails, messages  *)
(* that share a header or not, routed or not, of several lengths.          *)
(***************************************************************************)
EXTENDS FrameCodec

Presence(flags, tails) ==
  [parent |-> Absent, flags |-> flags, tails |-> tails, extension |-> <<9>>]

SomePresences ==
  {Presence(1, <<>>), Presence(2, <<[port |-> 130, oldest |-> 255, last |-> 256]>>)}

SomeTopologies ==
  {<<[address |-> 258, margin |-> -128, member |-> TRUE, ratio |-> 100]>>}

SomeNodeInfos == {[mac |-> <<7, 200>>, protocol |-> 1, firmware |-> 511, name |-> <<65>>]}

SomeAcks == {<<[source |-> 259, counter |-> 65536 + 255], [source |-> 515, counter |-> 65535]>>}

Upward(origin, payload) ==
  [mode |-> UPWARD, cls |-> 1, port |-> 130, payload |-> payload, origin |-> origin,
   dest |-> Absent, seq |-> 65535, route |-> Absent]

Downward(dest, route) ==
  [mode |-> 2, cls |-> 0, port |-> 20, payload |-> <<>>, origin |-> Absent, dest |-> dest,
   seq |-> Absent, route |-> route]

\* The longest payload of its flow; compressed, the same bytes have no room for the
\* origin that a relay restores.
Longest == [i \in 1 .. 21 |-> 6]

SomeOthers ==
  {Upward(259, <<>>), Upward(515, <<>>), Upward(259, <<5>>), Upward(259, Longest),
   Downward(259, Absent), Downward(259, <<2>>), Downward(260, <<>>),
   [Upward(259, <<5>>) EXCEPT !.mode = 3, !.cls = 2, !.dest = 260, !.route = <<>>],
   [Upward(Absent, <<5>>) EXCEPT !.mode = 5, !.cls = 0]}

SomeHeader ==
  [dest |-> 513, source |-> 65535, counter |-> 16777215, rank |-> 254, version |-> 15, epoch |-> 1]
==============================================================================
