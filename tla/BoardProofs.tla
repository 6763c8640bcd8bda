------------------------------ MODULE BoardProofs ------------------------------
(***************************************************************************)
(* Proofs about module Board, for any bounds: the runner sleeps over       *)
(* nothing, the answers of the radio find the core waiting for them, and   *)
(* no transmission begins over another one.                                *)
(*                                                                         *)
(* What makes them hold is where the tasks may run.  An answer to a sense  *)
(* stands in the queue only while the runner has its turn (it sleeps on an *)
(* empty queue), so that a channel sensed free is still without            *)
(* transmission when the core answers; and a transmission of the mesh, or  *)
(* its report in the queue, stands for the only thing the core waits for.  *)
(***************************************************************************)
EXTENDS Board, FiniteSetTheorems, SequenceTheorems, TLAPS

\* The events the radio posts.
Events == {"RX", "RX_ERROR", "TX_DONE", "busy", "free"}

\* The states of the transmit path, unbounded here.
Cores ==
  [state : {"IDLE", "SENSING", "BACKOFF", "TRANSMITTING"}, attempts : Nat, dirty : BOOLEAN,
   timer : {"none", "set", "due"}, pending : Nat]

\* The states of the adapter and of its chip.
Radios ==
  [tx : BOOLEAN, raw : BOOLEAN, air : {"rx", "mesh", "raw", "standby"},
   irq : SUBSET {"done", "rx", "crc", "preamble"}, edge : BOOLEAN, late : BOOLEAN,
   window : {"none", "open", "over"}]

------------------------------------------------------------------------------
(* Counting the events of a queue. *)

\* Two events posted one after the other.
LEMMA Pair ==
  ASSUME NEW S, NEW x \in S, NEW y \in S
  PROVE  <<>> \o <<x>> = <<x>> /\ <<x>> \o <<y>> = <<x, y>>
<1> DEFINE s == <<x>> \o <<y>>
           t == <<x, y>>
<1>1. <<>> \o <<x>> = <<x>>
  OBVIOUS
<1>2. s \in Seq(S) /\ Len(s) = 2 /\ s[1] = x /\ s[2] = y
  OBVIOUS
<1>3. t \in Seq(S) /\ Len(t) = 2 /\ t[1] = x /\ t[2] = y
  OBVIOUS
<1>4. s = t
  <2> HIDE DEF s, t
  <2>1. \A i \in 1 .. Len(s) : s[i] = t[i]
    BY <1>2, <1>3
  <2> QED BY <1>2, <1>3, <2>1, SeqEqual
<1>5. QED
  BY <1>1, <1>4

\* Where an event stands in a queue, and how often.
Positions(q, e) == {i \in DOMAIN q : q[i] = e}
CountIn(q, e) == Cardinality(Positions(q, e))

\* What the properties count is counted over the queue.
LEMMA CountOfQueue ==
  ASSUME NEW e
  PROVE  Count(e) = CountIn(queue, e) /\ Count(e)' = CountIn(queue', e)
BY DEF Count, CountIn, Positions

\* A queue is finite, so that its events can be counted.
LEMMA PositionsFinite ==
  ASSUME NEW q \in Seq(Events), NEW e
  PROVE  IsFiniteSet(Positions(q, e)) /\ CountIn(q, e) \in Nat
<1>1. Len(q) \in Nat /\ IsFiniteSet(1 .. Len(q)) /\ Positions(q, e) \subseteq 1 .. Len(q)
  BY FS_Interval DEF Positions
<1>2. QED
  BY <1>1, FS_Subset, FS_CardinalityType DEF CountIn

\* An event at the end counts for one.
LEMMA CountAppend ==
  ASSUME NEW q \in Seq(Events), NEW x \in Events, NEW e
  PROVE  CountIn(Append(q, x), e) = CountIn(q, e) + (IF x = e THEN 1 ELSE 0)
<1> DEFINE P == Positions(q, e)
           n == Len(q) + 1
<1>1. DOMAIN q = 1 .. Len(q) /\ n \notin P
  BY DEF Positions
<1>2. IsFiniteSet(P) /\ CountIn(q, e) = Cardinality(P) /\ Cardinality(P) \in Nat
  BY PositionsFinite DEF CountIn
<1>3. Positions(Append(q, x), e) = IF x = e THEN P \cup {n} ELSE P
  BY DEF Positions
<1> HIDE DEF P, n
<1>4. Cardinality(P \cup {n}) = Cardinality(P) + 1
  BY <1>1, <1>2, FS_AddElement
<1>5. CountIn(Append(q, x), e) = Cardinality(IF x = e THEN P \cup {n} ELSE P)
  BY <1>3 DEF CountIn
<1>6. QED
  BY <1>2, <1>4, <1>5

\* An event taken from the front no longer counts.
LEMMA CountTail ==
  ASSUME NEW q \in Seq(Events), q # <<>>, NEW e
  PROVE  CountIn(q, e) = CountIn(Tail(q), e) + (IF Head(q) = e THEN 1 ELSE 0)
<1> DEFINE P == Positions(q, e) \ {1}
           T == Positions(Tail(q), e)
           f == [i \in T |-> i + 1]
<1>1. Len(q) \in Nat \ {0} /\ DOMAIN q = 1 .. Len(q) /\ Tail(q) \in Seq(Events)
      /\ Len(Tail(q)) = Len(q) - 1 /\ \A i \in 1 .. Len(q) - 1 : Tail(q)[i] = q[i + 1]
  OBVIOUS
<1>2. f \in Bijection(T, P)
  <2>1. f \in [T -> P]
    BY <1>1 DEF Positions
  <2>2. \A i, j \in T : f[i] = f[j] => i = j
    BY <1>1 DEF Positions
  <2>3. \A p \in P : \E i \in T : f[i] = p
    <3>1. ASSUME NEW p \in P PROVE p - 1 \in T /\ f[p - 1] = p
      BY <1>1 DEF Positions
    <3> QED BY <3>1
  <2> QED BY <2>1, <2>2, <2>3 DEF Bijection, Injection, Surjection, IsInjective
<1>3. IsFiniteSet(T) /\ IsFiniteSet(Positions(q, e)) /\ IsFiniteSet(P)
  BY <1>1, PositionsFinite, FS_Subset
<1>4. Cardinality(T) = Cardinality(P) /\ Cardinality(T) \in Nat
  <2> HIDE DEF T, P, f
  <2>1. ExistsBijection(T, P)
    BY <1>2 DEF ExistsBijection
  <2> QED BY <1>3, <2>1, FS_Bijection, FS_CardinalityType
<1>5. Positions(q, e) = IF Head(q) = e THEN P \cup {1} ELSE P
  BY <1>1 DEF Positions
<1>6. 1 \notin P
  OBVIOUS
<1>7. CountIn(Tail(q), e) = Cardinality(T)
  BY DEF CountIn
<1>8. CountIn(q, e) = Cardinality(IF Head(q) = e THEN P \cup {1} ELSE P)
  BY <1>5 DEF CountIn
<1> HIDE DEF T, P
<1>9. Cardinality(P \cup {1}) = Cardinality(P) + 1
  BY <1>3, <1>6, FS_AddElement
<1>10. QED
  BY <1>4, <1>7, <1>8, <1>9

\* The events posted count after those of the queue.
LEMMA PostOne ==
  ASSUME NEW q \in Seq(Events), NEW x \in Events
  PROVE  /\ q \o <<x>> \in Seq(Events)
         /\ \A e : CountIn(q \o <<x>>, e) = CountIn(q, e) + (IF x = e THEN 1 ELSE 0)
<1>1. q \o <<x>> = Append(q, x) /\ Append(q, x) \in Seq(Events)
  OBVIOUS
<1>2. \A e : CountIn(Append(q, x), e) = CountIn(q, e) + (IF x = e THEN 1 ELSE 0)
  BY CountAppend
<1>3. QED
  BY <1>1, <1>2

\* The same for two events.
LEMMA PostTwo ==
  ASSUME NEW q \in Seq(Events), NEW x \in Events, NEW y \in Events
  PROVE  /\ q \o <<x, y>> \in Seq(Events)
         /\ \A e : CountIn(q \o <<x, y>>, e) =
                    CountIn(q, e) + (IF x = e THEN 1 ELSE 0) + (IF y = e THEN 1 ELSE 0)
<1>1. Append(q, x) \in Seq(Events)
  OBVIOUS
<1>2. q \o <<x, y>> = Append(Append(q, x), y) /\ q \o <<x, y>> \in Seq(Events)
  OBVIOUS
<1>3. \A e : CountIn(Append(q, x), e) = CountIn(q, e) + (IF x = e THEN 1 ELSE 0)
  BY CountAppend
<1>4. \A e : CountIn(Append(Append(q, x), y), e) = CountIn(Append(q, x), e) + (IF y = e THEN 1 ELSE 0)
  BY <1>1, CountAppend
<1>5. QED
  BY <1>2, <1>3, <1>4

------------------------------------------------------------------------------
(* The adapter. *)

\* An outcome has its three fields.
Shaped(o) == o = Outcome(o.radio, o.posts, o.errors)

\* A raw transmission is one.
RadioOK(r) == r \in Radios /\ (r.raw => r.tx)

\* An operation that begins no transmission: it reports the end of one of the mesh, or
\* something heard, or nothing.
Quiet(r, o) ==
  /\ RadioOK(o.radio) /\ o.errors \in Nat
  /\ o.radio.tx => /\ r.tx /\ o.radio.raw = r.raw /\ o.radio.air \in {r.air, "standby", "rx"}
                   /\ o.posts = <<>>
  /\ \/ o.posts \in {<<>>, <<"RX">>, <<"RX_ERROR">>}
     \/ o.posts = <<"TX_DONE">> /\ r.tx /\ ~r.raw

\* A transmission begun, or not: then it is reported at once, unless it is a raw one.
Begins(r, kind, o) ==
  /\ RadioOK(o.radio) /\ o.errors \in Nat
  /\ \/ o.radio.tx /\ o.radio.raw = r.raw /\ o.posts = <<>>
     \/ ~o.radio.tx /\ o.posts = IF r.raw THEN <<>> ELSE <<"TX_DONE">>

\* A sense answers once, and finds the channel free without transmission only.
Answers(r, o) ==
  /\ RadioOK(o.radio) /\ o.errors \in Nat
  /\ o.radio.tx => r.tx /\ o.radio.raw = r.raw /\ o.radio.air \in {r.air, "standby", "rx"}
  /\ \E answer \in {"busy", "free"} :
       /\ answer = "free" => ~o.radio.tx
       /\ o.posts \in {<<answer>>, <<"RX", answer>>, <<"RX_ERROR", answer>>}

\* Reception restored, or not.
LEMMA ReceiveOutcome ==
  ASSUME NEW r \in Radios, NEW o \in Receive(r)
  PROVE  /\ o.radio \in Radios /\ o.radio.tx = r.tx /\ o.radio.raw = r.raw
         /\ o.radio.air \in {"rx", "standby"} /\ o.posts = <<>> /\ o.errors \in {0, 1}
         /\ Shaped(o)
<1>1. CASE o = Outcome([r EXCEPT !.air = "rx"], <<>>, 0)
  BY <1>1 DEF Outcome, Radios, Shaped
<1>2. CASE o = Outcome([r EXCEPT !.air = "standby"], <<>>, 1)
  BY <1>2 DEF Outcome, Radios, Shaped
<1>3. QED
  BY <1>1, <1>2 DEF Receive

\* The end of a transmission is reported once, when reception is restored.
LEMMA TxDoneQuiet ==
  ASSUME NEW r, RadioOK(r), r.tx, NEW o \in TxDone(r)
  PROVE  Quiet(r, o)
<1> DEFINE posts == IF r.raw THEN <<>> ELSE <<"TX_DONE">>
<1>1. PICK x \in Receive(r) :
        o = IF x.errors = 0 THEN Outcome([x.radio EXCEPT !.tx = FALSE, !.raw = FALSE], posts, 0) ELSE x
  BY DEF TxDone
<1>2. /\ r \in Radios /\ (r.raw => r.tx)
      /\ x.radio \in Radios /\ x.radio.tx = r.tx /\ x.radio.raw = r.raw
      /\ x.radio.air \in {"rx", "standby"} /\ x.posts = <<>> /\ x.errors \in {0, 1}
  BY ReceiveOutcome DEF RadioOK
<1>3. CASE x.errors = 0
  <2>1. /\ o.radio = [x.radio EXCEPT !.tx = FALSE, !.raw = FALSE]
        /\ o.posts = (IF r.raw THEN <<>> ELSE <<"TX_DONE">>) /\ o.errors = 0
    BY <1>1, <1>3 DEF Outcome
  <2>2. o.radio \in Radios /\ o.radio.tx = FALSE /\ o.radio.raw = FALSE
    BY <1>2, <2>1 DEF Radios
  <2> QED BY <2>1, <2>2 DEF Quiet, RadioOK
<1>4. CASE x.errors # 0
  <2>1. o = x
    BY <1>1, <1>4
  <2> HIDE DEF posts
  <2>2. RadioOK(o.radio) /\ o.errors \in Nat /\ o.posts \in {<<>>, <<"RX">>, <<"RX_ERROR">>}
    <3>1. RadioOK(x.radio)
      BY <1>2 DEF RadioOK
    <3>2. x.errors \in Nat
      BY <1>2
    <3>3. x.posts \in {<<>>, <<"RX">>, <<"RX_ERROR">>}
      BY <1>2
    <3> QED BY <2>1, <3>1, <3>2, <3>3
  <2>3. r.tx /\ o.radio.raw = r.raw /\ o.radio.air \in {r.air, "standby", "rx"} /\ o.posts = <<>>
    BY <1>2, <2>1
  <2> QED BY <2>2, <2>3 DEF Quiet
<1>5. QED
  BY <1>3, <1>4

\* Servicing the interrupts begins no transmission.
LEMMA ServiceQuiet ==
  ASSUME NEW r, RadioOK(r), NEW o \in Service(r)
  PROVE  Quiet(r, o)
<1> DEFINE clear == [r EXCEPT !.irq = {}]
<1>1. r \in Radios /\ (r.raw => r.tx)
  BY DEF RadioOK
<1>2. /\ clear \in Radios /\ clear.tx = r.tx /\ clear.raw = r.raw /\ clear.air = r.air
  BY <1>1 DEF Radios
<1>3. CASE o = Outcome(r, <<>>, 0) \/ o = Outcome(r, <<>>, 1)
  BY <1>1, <1>3 DEF Outcome, Quiet, RadioOK
<1>4. CASE r.tx /\ o \in TxDone(clear)
  <2>1. RadioOK(clear) /\ clear.tx
    BY <1>1, <1>2, <1>4 DEF RadioOK
  <2>2. Quiet(clear, o)
    <3> HIDE DEF clear
    <3> QED BY <1>4, <2>1, TxDoneQuiet
  <2> HIDE DEF clear
  <2> QED BY <1>2, <2>2 DEF Quiet
<1>5. CASE o = Outcome(clear, <<>>, 0)
  <2> HIDE DEF clear
  <2> QED BY <1>1, <1>2, <1>5 DEF Outcome, Quiet, RadioOK
<1>6. CASE ~r.tx /\ \E post \in {"RX", "RX_ERROR"} : o = Outcome([clear EXCEPT !.window = "none"], <<post>>, 0)
  <2> DEFINE c == [clear EXCEPT !.window = "none"]
  <2>1. c \in Radios /\ c.tx = r.tx /\ c.raw = r.raw
    BY <1>2 DEF Radios
  <2>2. o.radio = c /\ o.posts \in {<<"RX">>, <<"RX_ERROR">>} /\ o.errors = 0
    BY <1>6 DEF Outcome
  <2> HIDE DEF c
  <2> QED BY <1>1, <1>6, <2>1, <2>2 DEF Quiet, RadioOK
<1>7. CASE ~r.tx /\ o = Outcome([clear EXCEPT !.window = "open"], <<>>, 0)
  <2> DEFINE c == [clear EXCEPT !.window = "open"]
  <2>1. c \in Radios /\ c.tx = r.tx /\ c.raw = r.raw
    BY <1>2 DEF Radios
  <2>2. o.radio = c /\ o.posts = <<>> /\ o.errors = 0
    BY <1>7 DEF Outcome
  <2> HIDE DEF c
  <2> QED BY <1>1, <1>7, <2>1, <2>2 DEF Quiet, RadioOK
<1>8. QED
  BY <1>3, <1>4, <1>5, <1>6, <1>7 DEF Service

\* A transmission begins, or is reported as not sent.
LEMMA StartTransmitBegins ==
  ASSUME NEW r \in Radios, NEW kind \in {"mesh", "raw"}, NEW o \in StartTransmit(r, kind)
  PROVE  Begins(r, kind, o)
<1> DEFINE sending == [r EXCEPT !.window = "none", !.tx = TRUE, !.late = FALSE, !.air = kind]
           stopping == [r EXCEPT !.window = "none", !.tx = FALSE, !.raw = FALSE]
<1>1. CASE o = Outcome(sending, <<>>, 0)
  <2>1. sending \in Radios /\ sending.tx = TRUE /\ sending.raw = r.raw
    BY DEF Radios
  <2> HIDE DEF sending
  <2> QED BY <1>1, <2>1 DEF Outcome, Begins, RadioOK
<1>2. ASSUME NEW x \in Receive(stopping),
             o = Outcome(x.radio, IF r.raw THEN <<>> ELSE <<"TX_DONE">>, 1 + x.errors)
      PROVE  Begins(r, kind, o)
  <2>1. stopping \in Radios /\ stopping.tx = FALSE /\ stopping.raw = FALSE
    BY DEF Radios
  <2> HIDE DEF stopping
  <2>2. x.radio \in Radios /\ x.radio.tx = FALSE /\ x.radio.raw = FALSE /\ x.errors \in {0, 1}
    BY <1>2, <2>1, ReceiveOutcome
  <2> QED BY <1>2, <2>2 DEF Outcome, Begins, RadioOK
<1>3. QED
  BY <1>1, <1>2 DEF StartTransmit

\* A sense posts what it found, then its answer.
LEMMA SenseAnswers ==
  ASSUME NEW r, RadioOK(r), NEW o \in Sense(r)
  PROVE  Answers(r, o)
<1>1. CASE r.tx
  <2>1. o.radio = r /\ o.posts = <<"busy">> /\ o.errors = 0
    BY <1>1 DEF Sense, Outcome
  <2> QED BY <1>1, <2>1 DEF Answers, RadioOK
<1>2. CASE ~r.tx
  <2>1. PICK s \in Service(r) : o \in Sensed(s)
    BY <1>2 DEF Sense
  <2>2. /\ RadioOK(s.radio) /\ ~s.radio.tx /\ s.errors \in Nat
        /\ s.posts \in {<<>>, <<"RX">>, <<"RX_ERROR">>}
    BY <1>2, <2>1, ServiceQuiet DEF Quiet
  <2> DEFINE past == [s.radio EXCEPT !.window = IF s.radio.window = "open" THEN @ ELSE "none"]
  <2>3. past \in Radios /\ past.tx = s.radio.tx /\ past.raw = s.radio.raw
    BY <2>2 DEF RadioOK, Radios
  <2>4. PICK answer \in {"busy", "free"} : o = Outcome(past, s.posts \o <<answer>>, s.errors)
    BY <2>1 DEF Sensed
  <2> HIDE DEF past
  <2>5. o.radio = past /\ o.posts = s.posts \o <<answer>> /\ o.errors = s.errors
    BY <2>4 DEF Outcome
  <2>6. s.posts \o <<answer>> \in {<<answer>>, <<"RX", answer>>, <<"RX_ERROR", answer>>}
    <3>1. <<>> \o <<answer>> = <<answer>>
      BY Pair
    <3>2. \A x, y \in Events : <<x>> \o <<y>> = <<x, y>>
      BY Pair
    <3>3. <<"RX">> \o <<answer>> = <<"RX", answer>> /\ <<"RX_ERROR">> \o <<answer>> = <<"RX_ERROR", answer>>
      BY <3>2 DEF Events
    <3> QED BY <2>2, <3>1, <3>3
  <2> QED BY <2>2, <2>3, <2>5, <2>6 DEF Answers, RadioOK
<1>3. QED
  BY <1>1, <1>2

\* An abort reports nothing itself.
LEMMA AbortQuiet ==
  ASSUME NEW r, RadioOK(r), NEW o \in Abort(r)
  PROVE  Quiet(r, o) /\ o.posts = <<>> /\ Shaped(o)
<1>1. r \in Radios /\ (r.raw => r.tx)
  BY DEF RadioOK
<1>2. CASE o = Outcome(r, <<>>, 1)
  BY <1>1, <1>2 DEF Outcome, Quiet, RadioOK, Shaped
<1>3. ASSUME NEW x \in Receive(r),
             o = IF x.errors = 0 THEN Outcome([x.radio EXCEPT !.tx = FALSE, !.raw = FALSE], <<>>, 0) ELSE x
      PROVE  Quiet(r, o) /\ o.posts = <<>> /\ Shaped(o)
  <2>1. /\ x.radio \in Radios /\ x.radio.tx = r.tx /\ x.radio.raw = r.raw
        /\ x.radio.air \in {"rx", "standby"} /\ x.posts = <<>> /\ x.errors \in {0, 1} /\ Shaped(x)
    BY <1>1, ReceiveOutcome
  <2>2. CASE x.errors = 0
    <3>1. o.radio = [x.radio EXCEPT !.tx = FALSE, !.raw = FALSE] /\ o.posts = <<>> /\ o.errors = 0
      BY <1>3, <2>2 DEF Outcome
    <3>0. Shaped(o)
      BY <1>3, <2>2 DEF Outcome, Shaped
    <3>2. o.radio \in Radios /\ o.radio.tx = FALSE /\ o.radio.raw = FALSE
      BY <2>1, <3>1 DEF Radios
    <3> QED BY <3>0, <3>1, <3>2 DEF Quiet, RadioOK
  <2>3. CASE x.errors # 0
    <3>1. o = x
      BY <1>3, <2>3
    <3> QED BY <1>1, <2>1, <3>1 DEF Quiet, RadioOK
  <2> QED BY <2>2, <2>3
<1>4. QED
  BY <1>2, <1>3 DEF Abort

\* The watchdog begins no transmission, and reports the one it ends.
LEMMA WatchQuiet ==
  ASSUME NEW r, RadioOK(r), NEW o \in Watch(r)
  PROVE  Quiet(r, o) /\ (~r.tx => o.posts = <<>>) /\ Shaped(o)
<1>1. r \in Radios /\ (r.raw => r.tx)
  BY DEF RadioOK
<1>2. CASE r.tx /\ r.late
  <2>1. PICK x \in Abort(r) : o = [x EXCEPT !.posts = IF x.radio.tx \/ r.raw THEN <<>> ELSE <<"TX_DONE">>]
    BY <1>2 DEF Watch
  <2>2. Quiet(r, x) /\ Shaped(x)
    BY <2>1, AbortQuiet
  <2>3. /\ o.radio = x.radio /\ o.errors = x.errors
        /\ o.posts = (IF x.radio.tx \/ r.raw THEN <<>> ELSE <<"TX_DONE">>) /\ Shaped(o)
    BY <2>1, <2>2 DEF Outcome, Shaped
  <2> QED BY <1>2, <2>2, <2>3 DEF Quiet
<1>3. CASE r.tx /\ ~r.late
  <2>1. o = Outcome(r, <<>>, 0)
    BY <1>3 DEF Watch
  <2> QED BY <1>1, <2>1 DEF Outcome, Quiet, RadioOK, Shaped
<1>4. CASE ~r.tx
  <2> DEFINE w == [r EXCEPT !.window = IF @ = "over" THEN "none" ELSE @]
  <2>1. CASE o = Outcome(w, <<>>, 0)
    <3>1. w \in Radios /\ w.tx = r.tx /\ w.raw = r.raw
      BY <1>1 DEF Radios
    <3> HIDE DEF w
    <3> QED BY <1>1, <1>4, <2>1, <3>1 DEF Outcome, Quiet, RadioOK, Shaped
  <2>2. CASE o \in Receive(r)
    <3>1. /\ o.radio \in Radios /\ o.radio.tx = r.tx /\ o.radio.raw = r.raw
          /\ o.posts = <<>> /\ o.errors \in {0, 1} /\ Shaped(o)
      BY <1>1, <2>2, ReceiveOutcome
    <3> QED BY <1>1, <1>4, <3>1 DEF Quiet, RadioOK
  <2> QED BY <1>4, <2>1, <2>2 DEF Watch
<1>5. QED
  BY <1>2, <1>3, <1>4

\* Housekeeping: the interrupts, then the watchdog.
LEMMA HousekeepingQuiet ==
  ASSUME NEW r, RadioOK(r), NEW s \in Service(r), NEW w \in Watch(s.radio),
         NEW o, o = [w EXCEPT !.posts = s.posts \o @, !.errors = s.errors + @]
  PROVE  Quiet(r, o)
<1>1. Quiet(r, s)
  BY ServiceQuiet
<1>2. Quiet(s.radio, w) /\ (~s.radio.tx => w.posts = <<>>) /\ Shaped(w)
  BY <1>1, WatchQuiet DEF Quiet
<1>3. o.radio = w.radio /\ o.posts = s.posts \o w.posts /\ o.errors = s.errors + w.errors
  BY <1>2 DEF Shaped, Outcome
<1>4. CASE s.posts = <<>>
  <2>1. o.posts = w.posts
    <3>1. w.posts \in {<<>>, <<"RX">>, <<"RX_ERROR">>, <<"TX_DONE">>}
      BY <1>2 DEF Quiet
    <3> QED BY <1>3, <1>4, <3>1
  <2> QED BY <1>1, <1>2, <1>3, <2>1 DEF Quiet
<1>5. CASE s.posts # <<>>
  <2>1. ~s.radio.tx /\ w.posts = <<>>
    BY <1>1, <1>2, <1>5 DEF Quiet
  <2>2. o.posts = s.posts
    <3>1. s.posts \in {<<>>, <<"RX">>, <<"RX_ERROR">>, <<"TX_DONE">>}
      BY <1>1 DEF Quiet
    <3> QED BY <1>3, <2>1, <3>1
  <2> QED BY <1>1, <1>2, <1>3, <2>1, <2>2 DEF Quiet
<1>6. QED
  BY <1>4, <1>5


------------------------------------------------------------------------------
(* What the operations of the adapter make of the reports due. *)

\* One if it holds.
Indicator(b) == IF b THEN 1 ELSE 0

\* A transmission of the mesh, whose end has yet to be reported.
Unreported(r) == Indicator(r.tx /\ ~r.raw)

\* The answers to a sense, and the reports, in the queue or to come.
AnswersIn(q) == CountIn(q, "busy") + CountIn(q, "free")
Reports(q, r) == CountIn(q, "TX_DONE") + Unreported(r)

\* An operation that begins no transmission answers nothing, and no report is due
\* that was not.
LEMMA QuietReports ==
  ASSUME NEW q \in Seq(Events), NEW r, RadioOK(r), NEW o, Quiet(r, o)
  PROVE  /\ q \o o.posts \in Seq(Events)
         /\ CountIn(q \o o.posts, "busy") = CountIn(q, "busy")
         /\ CountIn(q \o o.posts, "free") = CountIn(q, "free")
         /\ Reports(q \o o.posts, o.radio) <= Reports(q, r)
<1>1. /\ CountIn(q, "busy") \in Nat /\ CountIn(q, "free") \in Nat /\ CountIn(q, "TX_DONE") \in Nat
  BY PositionsFinite
<1>2. CASE o.posts = <<>>
  <2>1. q \o o.posts = q
    BY <1>2
  <2>2. Unreported(o.radio) <= Unreported(r)
    BY DEF Unreported, Indicator, Quiet
  <2>3. Unreported(o.radio) \in Nat /\ Unreported(r) \in Nat
    BY DEF Unreported, Indicator
  <2> QED BY <1>1, <2>1, <2>2, <2>3 DEF Reports
<1>3. CASE o.posts \in {<<"RX">>, <<"RX_ERROR">>}
  <2>1. PICK x \in {"RX", "RX_ERROR"} : o.posts = <<x>>
    BY <1>3
  <2>2. ~o.radio.tx
    <3>1. <<x>> # <<>>
      OBVIOUS
    <3> QED BY <2>1, <3>1 DEF Quiet
  <2>3. x \in Events /\ x # "busy" /\ x # "free" /\ x # "TX_DONE"
    BY DEF Events
  <2>4. /\ q \o <<x>> \in Seq(Events)
        /\ \A e : CountIn(q \o <<x>>, e) = CountIn(q, e) + (IF x = e THEN 1 ELSE 0)
    BY <2>3, PostOne
  <2>5. Unreported(o.radio) = 0 /\ Unreported(r) \in Nat
    BY <2>2 DEF Unreported, Indicator
  <2> QED BY <1>1, <2>1, <2>3, <2>4, <2>5 DEF Reports
<1>4. CASE o.posts = <<"TX_DONE">> /\ r.tx /\ ~r.raw
  <2>1. ~o.radio.tx
    <3>1. <<"TX_DONE">> # <<>>
      OBVIOUS
    <3> QED BY <1>4, <3>1 DEF Quiet
  <2>2. "TX_DONE" \in Events
    BY DEF Events
  <2>3. /\ q \o o.posts \in Seq(Events)
        /\ \A e : CountIn(q \o o.posts, e) = CountIn(q, e) + (IF "TX_DONE" = e THEN 1 ELSE 0)
    BY <1>4, <2>2, PostOne
  <2>4. Unreported(o.radio) = 0 /\ Unreported(r) = 1
    BY <1>4, <2>1 DEF Unreported, Indicator
  <2> QED BY <1>1, <2>3, <2>4 DEF Reports
<1>5. QED
  BY <1>2, <1>3, <1>4 DEF Quiet

\* A sense posts one answer, and no report.
LEMMA SenseReports ==
  ASSUME NEW q \in Seq(Events), NEW r, RadioOK(r), NEW o, Answers(r, o)
  PROVE  /\ q \o o.posts \in Seq(Events)
         /\ AnswersIn(q \o o.posts) = AnswersIn(q) + 1
         /\ CountIn(q \o o.posts, "free") > CountIn(q, "free") => ~o.radio.tx
         /\ Reports(q \o o.posts, o.radio) <= Reports(q, r)
<1>1. /\ CountIn(q, "busy") \in Nat /\ CountIn(q, "free") \in Nat /\ CountIn(q, "TX_DONE") \in Nat
  BY PositionsFinite
<1>2. PICK answer \in {"busy", "free"} :
        /\ answer = "free" => ~o.radio.tx
        /\ o.posts \in {<<answer>>, <<"RX", answer>>, <<"RX_ERROR", answer>>}
  BY DEF Answers
<1>3. Unreported(o.radio) <= Unreported(r) /\ Unreported(o.radio) \in Nat /\ Unreported(r) \in Nat
  BY DEF Unreported, Indicator, Answers
<1>4. answer \in Events /\ answer # "TX_DONE"
  BY DEF Events
<1>5. /\ q \o o.posts \in Seq(Events)
      /\ \A e \in {"busy", "free", "TX_DONE"} :
           CountIn(q \o o.posts, e) = CountIn(q, e) + (IF answer = e THEN 1 ELSE 0)
  <2>1. CASE o.posts = <<answer>>
    BY <1>4, <2>1, PostOne
  <2>2. ASSUME NEW x \in {"RX", "RX_ERROR"}, o.posts = <<x, answer>>
        PROVE  /\ q \o o.posts \in Seq(Events)
               /\ \A e \in {"busy", "free", "TX_DONE"} :
                    CountIn(q \o o.posts, e) = CountIn(q, e) + (IF answer = e THEN 1 ELSE 0)
    <3>1. x \in Events /\ x \notin {"busy", "free", "TX_DONE"}
      BY DEF Events
    <3>2. /\ q \o o.posts \in Seq(Events)
          /\ \A e : CountIn(q \o o.posts, e)
                      = CountIn(q, e) + (IF x = e THEN 1 ELSE 0) + (IF answer = e THEN 1 ELSE 0)
      BY <1>4, <2>2, <3>1, PostTwo
    <3> QED BY <1>1, <3>1, <3>2
  <2> QED BY <1>2, <2>1, <2>2
<1>6. QED
  BY <1>1, <1>2, <1>3, <1>4, <1>5 DEF Reports, AnswersIn

\* A transmission of the mesh begun, or not, makes one report due; a raw one none.
LEMMA TransmitReports ==
  ASSUME NEW q \in Seq(Events), NEW r \in Radios, NEW kind, NEW o, Begins(r, kind, o)
  PROVE  /\ q \o o.posts \in Seq(Events)
         /\ CountIn(q \o o.posts, "busy") = CountIn(q, "busy")
         /\ CountIn(q \o o.posts, "free") = CountIn(q, "free")
         /\ Reports(q \o o.posts, o.radio) = CountIn(q, "TX_DONE") + Indicator(~r.raw)
<1>1. /\ CountIn(q, "busy") \in Nat /\ CountIn(q, "free") \in Nat /\ CountIn(q, "TX_DONE") \in Nat
      /\ r.raw \in BOOLEAN
  BY PositionsFinite DEF Radios
<1>2. CASE o.radio.tx /\ o.radio.raw = r.raw /\ o.posts = <<>>
  BY <1>1, <1>2 DEF Reports, Unreported, Indicator
<1>3. CASE ~o.radio.tx /\ r.raw /\ o.posts = <<>>
  BY <1>1, <1>3 DEF Reports, Unreported, Indicator
<1>4. CASE ~o.radio.tx /\ ~r.raw /\ o.posts = <<"TX_DONE">>
  <2>1. "TX_DONE" \in Events
    BY DEF Events
  <2>2. /\ q \o o.posts \in Seq(Events)
        /\ \A e : CountIn(q \o o.posts, e) = CountIn(q, e) + (IF "TX_DONE" = e THEN 1 ELSE 0)
    BY <1>4, <2>1, PostOne
  <2>3. Unreported(o.radio) = 0 /\ Indicator(~r.raw) = 1
    BY <1>4 DEF Unreported, Indicator
  <2> QED BY <1>1, <2>2, <2>3 DEF Reports
<1>5. QED
  BY <1>2, <1>3, <1>4 DEF Begins

------------------------------------------------------------------------------
(* The steps of the core. *)

\* A core that waits for nothing but the radio has a deadline, or something new to
\* look at, if it has a message or a backoff.
CoreOK(c) ==
  /\ c \in Cores
  /\ c.state = "SENSING" => c.pending > 0
  /\ c.state = "BACKOFF" => c.timer # "none"
  /\ c.state = "IDLE" /\ c.pending > 0 => c.timer # "none" \/ c.dirty

\* After a step it has looked at what was new.
Settled(c) == CoreOK(c) /\ (c.state = "IDLE" => ~c.dirty)

\* Where the transmit path may go: it senses or waits, or a free sense transmits.
Goes(c, event, s) ==
  \/ /\ s.action = "TX" /\ c.state = "SENSING" /\ event = "free" /\ s.core.state = "TRANSMITTING"
  \/ /\ s.action = "SENSE" /\ s.core.state = "SENSING" /\ c.state # "SENSING"
     /\ c.state = "TRANSMITTING" => event = "TX_DONE"
  \/ /\ s.action = "none" /\ s.core.state \in {"IDLE", "BACKOFF"}
     /\ c.state = "SENSING" => event \in {"busy", "free"}
     /\ c.state = "TRANSMITTING" => event = "TX_DONE"
  \/ /\ s.action = "none" /\ s.core.state = c.state
     /\ c.state = "SENSING" => event \notin {"busy", "free"}
     /\ c.state = "TRANSMITTING" => event # "TX_DONE"

\* Access leaves the transmit path settled: it senses, or waits.
LEMMA AccessSettles ==
  ASSUME NEW c \in Cores, NEW s \in Access(c)
  PROVE  /\ Settled(s.core)
         /\ \/ s.action = "SENSE" /\ s.core.state = "SENSING"
            \/ s.action = "none" /\ s.core.state = "IDLE"
<1> DEFINE idle == [c EXCEPT !.dirty = FALSE, !.timer = "none", !.state = "IDLE"]
<1>1. /\ idle \in Cores /\ idle.pending = c.pending /\ idle.dirty = FALSE /\ idle.timer = "none"
      /\ idle.state = "IDLE"
  BY DEF Cores
<1> HIDE DEF idle
<1>2. CASE c.pending = 0 /\ s = Result([idle EXCEPT !.attempts = 0], "none")
  <2> DEFINE d == [idle EXCEPT !.attempts = 0]
  <2>1. d \in Cores /\ d.pending = c.pending /\ d.dirty = FALSE /\ d.state = "IDLE"
    BY <1>1 DEF Cores
  <2>2. s.core = d /\ s.action = "none"
    BY <1>2 DEF Result
  <2> HIDE DEF d
  <2> QED BY <1>2, <2>1, <2>2 DEF Settled, CoreOK
<1>3. CASE c.pending # 0 /\ s = Result([idle EXCEPT !.state = "SENSING", !.attempts = @ + 1], "SENSE")
  <2> DEFINE d == [idle EXCEPT !.state = "SENSING", !.attempts = @ + 1]
  <2>0. idle.attempts + 1 \in Nat /\ c.pending \in Nat
    BY <1>1 DEF Cores
  <2>1. d \in Cores /\ d.pending = c.pending /\ d.state = "SENSING"
    BY <1>1, <2>0 DEF Cores
  <2>2. s.core = d /\ s.action = "SENSE"
    BY <1>3 DEF Result
  <2> HIDE DEF d
  <2> QED BY <1>3, <2>0, <2>1, <2>2 DEF Settled, CoreOK
<1>4. CASE c.pending # 0 /\ s = Result([idle EXCEPT !.attempts = 0, !.timer = "set"], "none")
  <2> DEFINE d == [idle EXCEPT !.attempts = 0, !.timer = "set"]
  <2>1. d \in Cores /\ d.timer = "set" /\ d.dirty = FALSE /\ d.state = "IDLE"
    BY <1>1 DEF Cores
  <2>2. s.core = d /\ s.action = "none"
    BY <1>4 DEF Result
  <2> HIDE DEF d
  <2> QED BY <1>4, <2>1, <2>2 DEF Settled, CoreOK
<1>5. QED
  BY <1>2, <1>3, <1>4 DEF Access, idle

\* So does the end of a step, which looks at what was new.
LEMMA EndSettles ==
  ASSUME NEW c, CoreOK(c), NEW s \in EndOfStep(c)
  PROVE  /\ Settled(s.core)
         /\ \/ /\ c.state = "IDLE" \/ (c.state = "BACKOFF" /\ c.timer = "due")
               /\ \/ s.action = "SENSE" /\ s.core.state = "SENSING"
                  \/ s.action = "none" /\ s.core.state = "IDLE"
            \/ s.action = "none" /\ s.core.state = c.state
<1>1. CASE s \in Access(c) /\ (c.state = "IDLE" \/ (c.state = "BACKOFF" /\ c.timer = "due"))
  BY <1>1, AccessSettles DEF CoreOK
<1>2. CASE s = Result(c, "none") /\ ~(c.state = "IDLE" /\ c.dirty)
  BY <1>2 DEF Result, Settled
<1>3. QED
  BY <1>1, <1>2 DEF EndOfStep

\* What an event makes of the transmit path, before the end of the step.
LEMMA HandleGoes ==
  ASSUME NEW c, CoreOK(c), NEW event, NEW h \in Handle(c, event)
  PROVE  /\ CoreOK(h.core)
         /\ \/ /\ h.action = "TX" /\ c.state = "SENSING" /\ event = "free"
               /\ h.core.state = "TRANSMITTING" /\ Settled(h.core)
            \/ /\ h.action = "none" /\ h.core.state = "BACKOFF" /\ h.core.timer = "set"
               /\ c.state = "SENSING" /\ event \in {"busy", "free"}
            \/ h.action = "none" /\ h.core.state = "IDLE" /\ c.state = "TRANSMITTING" /\ event = "TX_DONE"
            \/ /\ h.action = "none" /\ h.core.state = c.state
               /\ c.state = "SENSING" => event \notin {"busy", "free"}
               /\ c.state = "TRANSMITTING" => event # "TX_DONE"
<1> USE BoardAssumption
<1>1. CASE event \in {"busy", "free"}
  <2>1. h \in Channel(c, event)
    BY <1>1 DEF Handle
  <2>2. CASE c.state # "SENSING"
    BY <1>1, <2>1, <2>2 DEF Channel, Result
  <2>3. CASE c.state = "SENSING" /\ event = "free"
    <3> DEFINE d == [c EXCEPT !.state = "TRANSMITTING", !.attempts = 0, !.pending = @ - 1]
    <3>1. h = Result(d, "TX")
      BY <2>1, <2>3 DEF Channel
    <3>3. c \in Cores /\ c.pending - 1 \in Nat
      BY <2>3 DEF CoreOK, Cores
    <3>2. d \in Cores /\ d.state = "TRANSMITTING"
      BY <3>3 DEF Cores
    <3> HIDE DEF d
    <3> QED BY <2>3, <3>1, <3>2 DEF Result, CoreOK, Settled
  <2>4. CASE c.state = "SENSING" /\ event # "free"
    <3> DEFINE d == [c EXCEPT !.state = "BACKOFF", !.timer = "set",
                              !.attempts = IF @ >= MAX_ATTEMPTS THEN 0 ELSE @]
    <3>1. h = Result(d, "none")
      BY <2>1, <2>4 DEF Channel
    <3>2. d \in Cores /\ d.state = "BACKOFF" /\ d.timer = "set"
      BY DEF CoreOK, Cores
    <3> HIDE DEF d
    <3> QED BY <1>1, <2>4, <3>1, <3>2 DEF Result, CoreOK
  <2> QED BY <2>2, <2>3, <2>4
<1>2. CASE event = "TX_DONE"
  <2> DEFINE d == [c EXCEPT !.state = "IDLE", !.dirty = TRUE]
  <2>1. h = Result(IF c.state = "TRANSMITTING" THEN d ELSE c, "none")
    BY <1>2 DEF Handle
  <2>2. d \in Cores /\ d.state = "IDLE" /\ d.dirty
    BY DEF CoreOK, Cores
  <2> HIDE DEF d
  <2>3. CASE c.state = "TRANSMITTING"
    BY <1>2, <2>1, <2>2, <2>3 DEF Result, CoreOK
  <2>4. CASE c.state # "TRANSMITTING"
    BY <1>2, <2>1, <2>4 DEF Result
  <2> QED BY <2>3, <2>4
<1>3. CASE event = "RX"
  <2> DEFINE d == [c EXCEPT !.pending = @ + 1, !.dirty = TRUE]
  <2>0. c \in Cores
    BY DEF CoreOK
  <2>1. h = Result(c, "none") \/ h = Result(d, "none")
    BY <1>3 DEF Handle
  <2>5. c.pending + 1 \in Nat /\ c.pending \in Nat
    BY <2>0 DEF Cores
  <2>2. d \in Cores /\ d.state = c.state /\ d.dirty = TRUE /\ d.timer = c.timer /\ d.pending = c.pending + 1
    BY <2>0, <2>5 DEF Cores
  <2> HIDE DEF d
  <2>3. CASE h = Result(c, "none")
    BY <1>3, <2>3 DEF Result
  <2>4. CASE h = Result(d, "none")
    <3>1. h.core = d /\ h.action = "none"
      BY <2>4 DEF Result
    <3>2. CoreOK(d)
      BY <2>2, <2>5 DEF CoreOK
    <3> QED BY <1>3, <2>2, <3>1, <3>2
  <2> QED BY <2>1, <2>3, <2>4
<1>4. CASE event \notin {"busy", "free", "TX_DONE", "RX"}
  BY <1>4 DEF Handle, Result
<1>5. QED
  BY <1>1, <1>2, <1>3, <1>4

\* A step of the core: the event, then what is due.
LEMMA CoreStepGoes ==
  ASSUME CoreOK(core), NEW event, NEW s \in CoreStep(event)
  PROVE  Settled(s.core) /\ Goes(core, event, s)
<1>1. PICK h \in Handle(core, event) : s \in (IF h.action = "none" THEN EndOfStep(h.core) ELSE {h})
  BY DEF CoreStep
<1>2. CoreOK(h.core)
  BY HandleGoes
<1>3. CASE h.action = "none"
  <2>1. /\ Settled(s.core)
        /\ \/ /\ h.core.state = "IDLE" \/ (h.core.state = "BACKOFF" /\ h.core.timer = "due")
              /\ \/ s.action = "SENSE" /\ s.core.state = "SENSING"
                 \/ s.action = "none" /\ s.core.state = "IDLE"
           \/ s.action = "none" /\ s.core.state = h.core.state
    BY <1>1, <1>2, <1>3, EndSettles
  <2>2. CASE /\ h.core.state = "BACKOFF" /\ h.core.timer = "set"
             /\ core.state = "SENSING" /\ event \in {"busy", "free"}
    BY <2>1, <2>2 DEF Goes
  <2>3. CASE h.core.state = "IDLE" /\ core.state = "TRANSMITTING" /\ event = "TX_DONE"
    BY <2>1, <2>3 DEF Goes
  <2>4. CASE /\ h.core.state = core.state
             /\ core.state = "SENSING" => event \notin {"busy", "free"}
             /\ core.state = "TRANSMITTING" => event # "TX_DONE"
    BY <2>1, <2>4 DEF Goes
  <2> QED BY <1>3, <2>2, <2>3, <2>4, HandleGoes
<1>4. CASE h.action # "none"
  BY <1>1, <1>4, HandleGoes DEF Goes
<1>5. QED
  BY <1>3, <1>4

------------------------------------------------------------------------------
(* The inductive invariant. *)

\* The answer the core senses for, and the report of what it transmits, are the only
\* ones in the queue or to come.
AnswersDue ==
  /\ AnswersIn(queue) = Indicator(core.state = "SENSING")
  /\ Reports(queue, radio) <= Indicator(core.state = "TRANSMITTING")

\* The channel stays free from the sense to the transmission, as the runner keeps its
\* turn.
StillFree == run # "ended" /\ CountIn(queue, "free") > 0 => ~radio.tx

\* What the runner looks at before it sleeps, and what wakes it.
Awake ==
  /\ core.state = "IDLE" /\ core.dirty => woken
  /\ run = "drain" => ~stopped
  /\ run = "wait" => core.state # "SENSING"
  /\ run = "wait" /\ ~flag => queue = <<>> /\ ~woken /\ ~stopped

BoardInv ==
  /\ run \in {"start", "outer", "drain", "wait", "ended"}
  /\ queue \in Seq(Events)
  /\ woken \in BOOLEAN /\ stopped \in BOOLEAN /\ flag \in BOOLEAN
  /\ RadioOK(radio) /\ CoreOK(core)
  /\ AnswersDue /\ StillFree /\ Awake

\* What a step does to a transmission under way: it goes on, or ends.
Alone ==
  radio'.tx /\ radio.tx => radio'.raw = radio.raw /\ radio'.air \in {radio.air, "standby", "rx"}

\* An empty queue holds no event.
LEMMA EmptyCounts ==
  ASSUME NEW e
  PROVE  CountIn(<<>>, e) = 0
<1>1. Positions(<<>>, e) = {}
  BY DEF Positions
<1>2. QED
  BY <1>1, FS_EmptySet DEF CountIn

\* The initial state satisfies the invariant.
LEMMA InitInv == Init => BoardInv
<1> SUFFICES ASSUME Init PROVE BoardInv
  OBVIOUS
<1>1. RadioOK(radio) /\ ~radio.tx
  BY DEF Init, RadioOK, Radios
<1>2. CoreOK(core) /\ core.state = "IDLE" /\ ~core.dirty
  BY DEF Init, CoreOK, Cores
<1>3. queue = <<>> /\ queue \in Seq(Events)
  BY DEF Init
<1>4. AnswersIn(queue) = 0 /\ Reports(queue, radio) = 0 /\ CountIn(queue, "free") = 0
  BY <1>1, <1>3, EmptyCounts DEF AnswersIn, Reports, Unreported, Indicator
<1>5. AnswersDue
  BY <1>2, <1>4 DEF AnswersDue, Indicator
<1>6. QED
  BY <1>1, <1>2, <1>3, <1>4, <1>5 DEF Init, BoardInv, StillFree, Awake

\* A step of the core, on an event taken from the queue or on none.
LEMMA StepKeeps ==
  ASSUME BoardInv, run # "ended", NEW event, NEW before \in Seq(Events),
         \A e \in Events : CountIn(queue, e) = CountIn(before, e) + Indicator(event = e),
         Step(event, before)
  PROVE  /\ queue' \in Seq(Events) /\ flag' \in BOOLEAN
         /\ RadioOK(radio') /\ Settled(core')
         /\ AnswersDue' /\ (CountIn(queue', "free") > 0 => ~radio'.tx)
         /\ Alone
<1>1. PICK s \in CoreStep(event) :
        /\ core' = s.core
        /\ \E o \in Execute(s.action) : Takes(o, before) /\ flag' = (flag \/ o.posts # <<>>)
  BY DEF Step
<1>2. PICK o \in Execute(s.action) : Takes(o, before) /\ flag' = (flag \/ o.posts # <<>>)
  BY <1>1
<1>3. radio' = o.radio /\ queue' = before \o o.posts /\ flag' \in BOOLEAN
  BY <1>2 DEF Takes
<1>4. Settled(core') /\ Goes(core, event, s)
  BY <1>1, CoreStepGoes DEF BoardInv
<1>5. /\ CountIn(before, "busy") \in Nat /\ CountIn(before, "free") \in Nat /\ CountIn(before, "TX_DONE") \in Nat
  BY PositionsFinite
<1>6. /\ CountIn(queue, "busy") = CountIn(before, "busy") + Indicator(event = "busy")
      /\ CountIn(queue, "free") = CountIn(before, "free") + Indicator(event = "free")
      /\ CountIn(queue, "TX_DONE") = CountIn(before, "TX_DONE") + Indicator(event = "TX_DONE")
  BY DEF Events
<1>7. /\ CountIn(before, "busy") + CountIn(before, "free") + Indicator(event = "busy") + Indicator(event = "free")
           = Indicator(core.state = "SENSING")
      /\ CountIn(before, "TX_DONE") + Indicator(event = "TX_DONE") + Unreported(radio)
           <= Indicator(core.state = "TRANSMITTING")
  BY <1>5, <1>6 DEF BoardInv, AnswersDue, AnswersIn, Reports, Indicator
<1>8. RadioOK(radio) /\ radio \in Radios /\ (CountIn(queue, "free") > 0 => ~radio.tx)
  BY DEF BoardInv, StillFree, RadioOK
<1>9. Unreported(radio) \in Nat
  BY DEF Unreported, Indicator
<1>10. CASE s.action = "TX" /\ core.state = "SENSING" /\ event = "free" /\ s.core.state = "TRANSMITTING"
  <2>1. ~radio.tx /\ ~radio.raw
    BY <1>5, <1>6, <1>8, <1>10 DEF Indicator, RadioOK
  <2>2. o \in StartTransmit(radio, "mesh")
    BY <1>2, <1>10 DEF Execute
  <2>3. Begins(radio, "mesh", o)
    BY <1>8, <2>2, StartTransmitBegins
  <2>4. /\ queue' \in Seq(Events)
        /\ CountIn(queue', "busy") = CountIn(before, "busy")
        /\ CountIn(queue', "free") = CountIn(before, "free")
        /\ Reports(queue', radio') = CountIn(before, "TX_DONE") + Indicator(~radio.raw)
    BY <1>3, <1>8, <2>3, TransmitReports
  <2>5. CountIn(before, "busy") = 0 /\ CountIn(before, "free") = 0 /\ CountIn(before, "TX_DONE") = 0
    BY <1>5, <1>7, <1>9, <1>10 DEF Indicator
  <2>6. AnswersDue'
    BY <1>1, <1>10, <2>1, <2>4, <2>5 DEF AnswersDue, AnswersIn, Indicator
  <2>7. RadioOK(radio')
    BY <1>3, <2>3 DEF Begins
  <2> QED BY <1>3, <1>4, <2>1, <2>4, <2>5, <2>6, <2>7 DEF Alone
<1>11. CASE /\ s.action = "SENSE" /\ s.core.state = "SENSING" /\ core.state # "SENSING"
            /\ core.state = "TRANSMITTING" => event = "TX_DONE"
  <2>1. o \in Sense(radio)
    BY <1>2, <1>11 DEF Execute
  <2>2. Answers(radio, o)
    BY <1>8, <2>1, SenseAnswers
  <2>3. /\ queue' \in Seq(Events)
        /\ AnswersIn(queue') = AnswersIn(before) + 1
        /\ CountIn(queue', "free") > CountIn(before, "free") => ~radio'.tx
        /\ Reports(queue', radio') <= Reports(before, radio)
    BY <1>3, <1>8, <2>2, SenseReports
  <2>4. CountIn(before, "busy") = 0 /\ CountIn(before, "free") = 0
    BY <1>5, <1>7, <1>11 DEF Indicator
  <2>5. AnswersIn(before) = 0
    BY <2>4 DEF AnswersIn
  <2>6. Reports(before, radio) = 0
    BY <1>5, <1>7, <1>9, <1>11 DEF Indicator, Reports
  <2>7. AnswersDue'
    BY <1>1, <1>11, <2>3, <2>5, <2>6 DEF AnswersDue, Indicator
  <2>8. RadioOK(radio') /\ Alone
    BY <1>3, <2>2 DEF Answers, Alone
  <2> QED BY <1>3, <1>4, <2>3, <2>4, <2>7, <2>8
<1>12. CASE /\ s.action = "none" /\ s.core.state \in {"IDLE", "BACKOFF"}
            /\ core.state = "SENSING" => event \in {"busy", "free"}
            /\ core.state = "TRANSMITTING" => event = "TX_DONE"
  <2>1. o = Outcome(radio, <<>>, 0)
    BY <1>2, <1>12 DEF Execute
  <2>2. radio' = radio /\ queue' = before
    BY <1>3, <2>1 DEF Outcome
  <2>3. CountIn(before, "busy") = 0 /\ CountIn(before, "free") = 0
    BY <1>5, <1>7, <1>12 DEF Indicator
  <2>4. CountIn(before, "TX_DONE") = 0 /\ Unreported(radio) = 0
    BY <1>5, <1>7, <1>9, <1>12 DEF Indicator
  <2>5. AnswersDue'
    BY <1>1, <1>12, <2>2, <2>3, <2>4 DEF AnswersDue, AnswersIn, Reports, Indicator
  <2> QED BY <1>3, <1>4, <1>8, <2>2, <2>3, <2>5 DEF Alone
<1>13. CASE /\ s.action = "none" /\ s.core.state = core.state
            /\ core.state = "SENSING" => event \notin {"busy", "free"}
            /\ core.state = "TRANSMITTING" => event # "TX_DONE"
  <2>1. o = Outcome(radio, <<>>, 0)
    BY <1>2, <1>13 DEF Execute
  <2>2. radio' = radio /\ queue' = before
    BY <1>3, <2>1 DEF Outcome
  <2>3. AnswersIn(before) = Indicator(core.state = "SENSING")
    BY <1>5, <1>7, <1>13 DEF Indicator, AnswersIn
  <2>4. Reports(before, radio) <= Indicator(core.state = "TRANSMITTING")
    BY <1>5, <1>7, <1>9, <1>13 DEF Indicator, Reports
  <2>5. AnswersDue'
    BY <1>1, <1>13, <2>2, <2>3, <2>4 DEF AnswersDue
  <2>6. CountIn(before, "free") > 0 => ~radio.tx
    BY <1>5, <1>6, <1>8 DEF Indicator
  <2> QED BY <1>3, <1>4, <1>8, <2>2, <2>5, <2>6 DEF Alone
<1>14. QED
  BY <1>4, <1>10, <1>11, <1>12, <1>13 DEF Goes

\* A task of the board, while the runner waits or has ended, that transmits nothing of
\* the mesh.
LEMMA TaskKeeps ==
  ASSUME BoardInv, Free, RadioOK(radio'), queue' \in Seq(Events), flag' \in BOOLEAN,
         CountIn(queue', "busy") = CountIn(queue, "busy"),
         CountIn(queue', "free") = CountIn(queue, "free"),
         Reports(queue', radio') <= Reports(queue, radio),
         ~flag' => ~flag /\ queue' = queue,
         UNCHANGED <<run, woken, stopped, core>>
  PROVE  BoardInv'
<1>1. AnswersDue'
  <2>1. /\ CountIn(queue, "TX_DONE") \in Nat /\ CountIn(queue', "TX_DONE") \in Nat
        /\ Unreported(radio) \in Nat /\ Unreported(radio') \in Nat
    BY PositionsFinite DEF BoardInv, Unreported, Indicator
  <2>2. Indicator(core.state = "TRANSMITTING") \in Nat
    BY DEF Indicator
  <2> QED BY <2>1, <2>2 DEF BoardInv, AnswersDue, AnswersIn, Reports
<1>2. run = "wait" => CountIn(queue', "free") = 0
  <2>1. CountIn(queue, "free") \in Nat /\ CountIn(queue, "busy") \in Nat
    BY PositionsFinite DEF BoardInv
  <2> QED BY <2>1 DEF BoardInv, AnswersDue, AnswersIn, Awake, Indicator
<1>3. StillFree'
  BY <1>2 DEF StillFree, Free
<1>4. Awake'
  BY DEF BoardInv, Awake
<1>5. QED
  BY <1>1, <1>3, <1>4 DEF BoardInv

\* A task whose operation begins no transmission.
LEMMA QuietTask ==
  ASSUME BoardInv, NEW r, RadioOK(r), r.tx = radio.tx, r.raw = radio.raw, r.air = radio.air,
         NEW outcomes, \A o \in outcomes : Quiet(r, o), Task(outcomes)
  PROVE  BoardInv' /\ Alone
<1>1. PICK o \in outcomes : Takes(o, queue) /\ flag' = (flag \/ o.posts # <<>>)
  BY DEF Task
<1>2. /\ Free /\ UNCHANGED <<run, woken, stopped, core>>
      /\ radio' = o.radio /\ queue' = queue \o o.posts /\ Quiet(r, o)
  BY <1>1 DEF Task, Takes
<1>3. /\ queue \o o.posts \in Seq(Events)
      /\ CountIn(queue \o o.posts, "busy") = CountIn(queue, "busy")
      /\ CountIn(queue \o o.posts, "free") = CountIn(queue, "free")
      /\ Reports(queue \o o.posts, o.radio) <= Reports(queue, r)
  BY <1>2, QuietReports DEF BoardInv
<1>4. Reports(queue, r) = Reports(queue, radio)
  BY DEF Reports, Unreported
<1>5. RadioOK(radio') /\ Alone
  BY <1>2 DEF Quiet, Alone
<1>6. ~flag' => ~flag /\ queue' = queue
  <2>1. o.posts = <<>> => queue \o o.posts = queue
    BY DEF BoardInv
  <2> QED BY <1>1, <1>2, <2>1
<1>7. flag' \in BOOLEAN
  BY <1>1
<1>8. QED
  BY <1>2, <1>3, <1>4, <1>5, <1>6, <1>7, TaskKeeps

\* The chip and the time change neither the transmission nor what was posted.
LEMMA RadioKeeps ==
  ASSUME BoardInv, RadioOK(radio'), radio'.tx = radio.tx, radio'.raw = radio.raw,
         UNCHANGED <<run, queue, woken, stopped, flag, core>>
  PROVE  BoardInv'
<1>1. AnswersDue'
  BY DEF BoardInv, AnswersDue, Reports, Unreported
<1>2. StillFree' /\ Awake'
  BY DEF BoardInv, StillFree, Awake
<1>3. QED
  BY <1>1, <1>2 DEF BoardInv

\* Every step of the runner keeps the invariant.
LEMMA RunnerKeeps ==
  ASSUME BoardInv, Runner
  PROVE  BoardInv' /\ Alone
<1>1. ASSUME run \in {"start", "drain"}, Step("none", queue), run' = "outer",
             UNCHANGED stopped, woken' \in BOOLEAN
      PROVE  BoardInv' /\ Alone
  <2>1. \A e \in Events : CountIn(queue, e) = CountIn(queue, e) + Indicator("none" = e)
    <3>1. \A e \in Events : CountIn(queue, e) \in Nat /\ Indicator("none" = e) = 0
      BY PositionsFinite DEF BoardInv, Events, Indicator
    <3> QED BY <3>1
  <2>2. /\ queue' \in Seq(Events) /\ flag' \in BOOLEAN
        /\ RadioOK(radio') /\ Settled(core')
        /\ AnswersDue' /\ (CountIn(queue', "free") > 0 => ~radio'.tx)
        /\ Alone
    BY <1>1, <2>1, StepKeeps DEF BoardInv
  <2>3. StillFree' /\ Awake'
    BY <1>1, <2>2 DEF StillFree, Awake, Settled
  <2> QED BY <1>1, <2>2, <2>3 DEF BoardInv, Settled
<1>2. CASE Start
  BY <1>1, <1>2 DEF Start, BoardInv
<1>3. CASE Outer
  <2>1. AnswersDue'
    BY <1>3 DEF Outer, BoardInv, AnswersDue
  <2>2. StillFree' /\ Awake'
    BY <1>3 DEF Outer, BoardInv, StillFree, Awake
  <2>3. Alone
    BY <1>3 DEF Outer, Alone
  <2> QED BY <1>3, <2>1, <2>2, <2>3 DEF Outer, BoardInv
<1>4. CASE Drain
  <2>1. /\ run = "drain" /\ queue \in Seq(Events) /\ queue # <<>> /\ Step(Head(queue), Tail(queue))
        /\ UNCHANGED <<run, woken, stopped>>
    BY <1>4 DEF Drain, BoardInv
  <2>2. Tail(queue) \in Seq(Events)
    BY <2>1
  <2>3. \A e \in Events : CountIn(queue, e) = CountIn(Tail(queue), e) + Indicator(Head(queue) = e)
    BY <2>1, CountTail DEF Indicator
  <2>4. /\ queue' \in Seq(Events) /\ flag' \in BOOLEAN
        /\ RadioOK(radio') /\ Settled(core')
        /\ AnswersDue' /\ (CountIn(queue', "free") > 0 => ~radio'.tx)
        /\ Alone
    BY <2>1, <2>2, <2>3, StepKeeps
  <2>5. StillFree' /\ Awake'
    BY <2>1, <2>4 DEF BoardInv, StillFree, Awake, Settled
  <2> QED BY <2>1, <2>4, <2>5 DEF BoardInv, Settled
<1>5. CASE Woken
  BY <1>1, <1>5 DEF Woken
<1>6. CASE Due
  BY <1>1, <1>6 DEF Due, BoardInv
<1>7. CASE Sleep
  <2>1. queue = <<>> /\ core.state # "SENSING"
    <3>1. queue = <<>>
      BY <1>7 DEF Sleep
    <3>2. AnswersIn(queue) = 0
      BY <3>1, EmptyCounts DEF AnswersIn
    <3> QED BY <3>1, <3>2 DEF BoardInv, AnswersDue, Indicator
  <2>2. AnswersDue'
    BY <1>7 DEF Sleep, BoardInv, AnswersDue
  <2>3. StillFree' /\ Awake'
    BY <1>7, <2>1 DEF Sleep, BoardInv, StillFree, Awake
  <2>4. Alone
    BY <1>7 DEF Sleep, Alone
  <2> QED BY <1>7, <2>2, <2>3, <2>4 DEF Sleep, BoardInv
<1>8. CASE WakeUp
  <2>1. AnswersDue'
    BY <1>8 DEF WakeUp, BoardInv, AnswersDue
  <2>2. StillFree' /\ Awake'
    BY <1>8 DEF WakeUp, BoardInv, StillFree, Awake
  <2>3. Alone
    BY <1>8 DEF WakeUp, Alone
  <2> QED BY <1>8, <2>1, <2>2, <2>3 DEF WakeUp, BoardInv
<1>9. QED
  BY <1>2, <1>3, <1>4, <1>5, <1>6, <1>7, <1>8 DEF Runner

\* Every step of the board keeps the invariant, and transmits over nothing.
LEMMA NextKeeps ==
  ASSUME BoardInv, [Next]_vars
  PROVE  BoardInv' /\ (Alone \/ UNCHANGED vars)
<1>0. RadioOK(radio) /\ radio \in Radios /\ (radio.raw => radio.tx) /\ CoreOK(core)
  BY DEF BoardInv, RadioOK
<1>1. CASE Runner
  BY <1>1, RunnerKeeps
<1>2. CASE Submit
  <2> DEFINE d == [core EXCEPT !.pending = @ + 1, !.dirty = TRUE]
  <2>1. /\ core' = d /\ woken' = TRUE /\ flag' = TRUE /\ Free
        /\ UNCHANGED <<run, queue, stopped, radio>>
    BY <1>2 DEF Submit
  <2>2. core \in Cores /\ core.pending \in Nat /\ core.pending + 1 \in Nat
    BY <1>0 DEF CoreOK, Cores
  <2>3. /\ d \in Cores /\ d.state = core.state /\ d.timer = core.timer /\ d.dirty = TRUE
        /\ d.pending = core.pending + 1
    BY <2>2 DEF Cores
  <2> HIDE DEF d
  <2>4. CoreOK(core')
    BY <1>0, <2>1, <2>2, <2>3 DEF CoreOK
  <2>5. AnswersDue'
    BY <2>1, <2>3 DEF BoardInv, AnswersDue
  <2>6. StillFree' /\ Awake'
    BY <2>1, <2>3 DEF BoardInv, StillFree, Awake
  <2>7. Alone
    BY <2>1 DEF Alone
  <2> QED BY <2>1, <2>4, <2>5, <2>6, <2>7 DEF BoardInv
<1>3. CASE Stop
  <2>1. AnswersDue'
    BY <1>3 DEF Stop, BoardInv, AnswersDue
  <2>2. StillFree' /\ Awake'
    BY <1>3 DEF Stop, Free, BoardInv, StillFree, Awake
  <2>3. Alone
    BY <1>3 DEF Stop, Alone
  <2> QED BY <1>3, <2>1, <2>2, <2>3 DEF Stop, BoardInv
<1>4. CASE ServiceTask
  <2> DEFINE r == [radio EXCEPT !.edge = FALSE]
  <2>1. RadioOK(r) /\ r.tx = radio.tx /\ r.raw = radio.raw /\ r.air = radio.air
    BY <1>0 DEF RadioOK, Radios
  <2>2. Task(Service(r))
    BY <1>4 DEF ServiceTask
  <2> HIDE DEF r
  <2>3. \A o \in Service(r) : Quiet(r, o)
    BY <2>1, ServiceQuiet
  <2> QED BY <2>1, <2>2, <2>3, QuietTask
<1>5. CASE Housekeeping
  <2> DEFINE outcomes == UNION {{[w EXCEPT !.posts = s.posts \o @, !.errors = s.errors + @] :
                                   w \in Watch(s.radio)} : s \in Service(radio)}
  <2>1. Task(outcomes)
    BY <1>5 DEF Housekeeping
  <2>2. \A o \in outcomes : Quiet(radio, o)
    BY <1>0, HousekeepingQuiet
  <2> HIDE DEF outcomes
  <2> QED BY <1>0, <2>1, <2>2, QuietTask
<1>6. CASE RawCut
  <2> DEFINE outcomes == IF radio.tx THEN Abort(radio) ELSE {Outcome(radio, <<>>, 0)}
  <2>1. Task(outcomes)
    BY <1>6 DEF RawCut
  <2>2. ASSUME NEW o \in outcomes PROVE Quiet(radio, o)
    <3>1. CASE radio.tx
      BY <1>0, <2>2, <3>1, AbortQuiet
    <3>2. CASE ~radio.tx
      BY <1>0, <2>2, <3>2 DEF Outcome, Quiet
    <3> QED BY <3>1, <3>2
  <2> HIDE DEF outcomes
  <2> QED BY <1>0, <2>1, <2>2, QuietTask
<1>7. ASSUME NEW cut \in BOOLEAN, RawStart(cut) PROVE BoardInv' /\ Alone
  <2> DEFINE r == [radio EXCEPT !.raw = TRUE]
  <2>1. r \in Radios /\ r.raw = TRUE
    BY <1>0 DEF Radios
  <2>2. ~radio.tx /\ Task(StartTransmit(r, "raw"))
    BY <1>7 DEF RawStart
  <2> HIDE DEF r
  <2>3. PICK o \in StartTransmit(r, "raw") : Takes(o, queue) /\ flag' = (flag \/ o.posts # <<>>)
    BY <2>2 DEF Task
  <2>4. /\ Free /\ UNCHANGED <<run, woken, stopped, core>>
        /\ radio' = o.radio /\ queue' = queue \o o.posts
    BY <2>2, <2>3 DEF Task, Takes
  <2>5. Begins(r, "raw", o)
    BY <2>1, StartTransmitBegins
  <2>6. o.posts = <<>> /\ RadioOK(o.radio) /\ Unreported(o.radio) = 0
    BY <2>1, <2>5 DEF Begins, Unreported, Indicator
  <2>7. queue' = queue /\ queue \in Seq(Events)
    BY <2>4, <2>6 DEF BoardInv
  <2>8. Reports(queue', radio') <= Reports(queue, radio)
    <3>1. CountIn(queue, "TX_DONE") \in Nat /\ Unreported(radio) \in Nat
      BY <2>7, PositionsFinite DEF Unreported, Indicator
    <3> QED BY <2>4, <2>6, <2>7, <3>1 DEF Reports
  <2>9. flag' \in BOOLEAN /\ (~flag' => ~flag)
    BY <2>3
  <2>10. BoardInv'
    BY <2>4, <2>6, <2>7, <2>8, <2>9, TaskKeeps
  <2> QED BY <2>2, <2>10 DEF Alone
<1>8. ASSUME NEW flags \in SUBSET {"done", "rx", "crc", "preamble"}, Interrupt(flags)
      PROVE  BoardInv' /\ Alone
  <2> DEFINE r == [radio EXCEPT !.irq = @ \cup flags, !.edge = @ \/ radio.irq = {},
                                !.air = IF "done" \in flags THEN "standby" ELSE @]
  <2>1. radio' = r /\ UNCHANGED <<run, queue, woken, stopped, flag, core>>
    BY <1>8 DEF Interrupt
  <2>2. radio.irq \cup flags \in SUBSET {"done", "rx", "crc", "preamble"}
    BY <1>0 DEF Radios
  <2>3. (radio.edge \/ radio.irq = {}) \in BOOLEAN
    OBVIOUS
  <2>4. /\ r \in Radios /\ r.tx = radio.tx /\ r.raw = radio.raw /\ r.air \in {radio.air, "standby"}
    BY <1>0, <2>2, <2>3 DEF Radios
  <2> HIDE DEF r
  <2>5. RadioOK(radio') /\ Alone
    BY <1>0, <2>1, <2>4 DEF RadioOK, Alone
  <2> QED BY <2>1, <2>4, <2>5, RadioKeeps
<1>9. CASE TxEnds \/ Hears
  BY <1>8, <1>9 DEF TxEnds, Hears
<1>10. CASE TransmissionLate
  <2> DEFINE r == [radio EXCEPT !.late = TRUE]
  <2>1. radio' = r /\ UNCHANGED <<run, queue, woken, stopped, flag, core>>
    BY <1>10 DEF TransmissionLate
  <2>2. /\ r \in Radios /\ r.tx = radio.tx /\ r.raw = radio.raw /\ r.air = radio.air
    BY <1>0 DEF Radios
  <2> HIDE DEF r
  <2>3. RadioOK(radio') /\ Alone
    BY <1>0, <2>1, <2>2 DEF RadioOK, Alone
  <2> QED BY <2>1, <2>2, <2>3, RadioKeeps
<1>11. CASE WindowOver
  <2> DEFINE r == [radio EXCEPT !.window = "over"]
  <2>1. radio' = r /\ UNCHANGED <<run, queue, woken, stopped, flag, core>>
    BY <1>11 DEF WindowOver
  <2>2. /\ r \in Radios /\ r.tx = radio.tx /\ r.raw = radio.raw /\ r.air = radio.air
    BY <1>0 DEF Radios
  <2> HIDE DEF r
  <2>3. RadioOK(radio') /\ Alone
    BY <1>0, <2>1, <2>2 DEF RadioOK, Alone
  <2> QED BY <2>1, <2>2, <2>3, RadioKeeps
<1>12. CASE TimerDue
  <2> DEFINE d == [core EXCEPT !.timer = "due"]
  <2>1. core' = d /\ UNCHANGED <<run, queue, woken, stopped, flag, radio>>
    BY <1>12 DEF TimerDue
  <2>2. /\ d \in Cores /\ d.state = core.state /\ d.timer = "due" /\ d.dirty = core.dirty
        /\ d.pending = core.pending
    BY <1>0 DEF CoreOK, Cores
  <2> HIDE DEF d
  <2>3. CoreOK(core')
    BY <1>0, <2>1, <2>2 DEF CoreOK
  <2>4. AnswersDue'
    BY <2>1, <2>2 DEF BoardInv, AnswersDue
  <2>5. StillFree' /\ Awake'
    BY <2>1, <2>2 DEF BoardInv, StillFree, Awake
  <2>6. Alone
    BY <2>1 DEF Alone
  <2> QED BY <2>1, <2>3, <2>4, <2>5, <2>6 DEF BoardInv
<1>13. CASE UNCHANGED vars
  <2>1. RadioOK(radio') /\ UNCHANGED <<run, queue, woken, stopped, flag, core, radio>>
    BY <1>0, <1>13 DEF vars
  <2> QED BY <1>13, <2>1, RadioKeeps
<1>14. QED
  BY <1>1, <1>2, <1>3, <1>4, <1>5, <1>6, <1>7, <1>9, <1>10, <1>11, <1>12, <1>13 DEF Next
------------------------------------------------------------------------------

\* The invariant holds in every state.
LEMMA Invariant == Spec => []BoardInv
<1>1. BoardInv /\ [Next]_vars => BoardInv'
  BY NextKeeps
<1>2. QED
  BY InitInv, <1>1, PTL DEF Spec

\* The runner never sleeps over something to do: an event, a wake or a stop sets the
\* flag after it was cleared, and a core that waits for nothing but the radio has a
\* deadline if it has a message or a backoff (mesh/runner.py, run).
THEOREM Sleepless == Spec => []NothingSleptOver
<1>1. BoardInv => NothingSleptOver
  <2> SUFFICES ASSUME BoardInv, run = "wait", ~flag PROVE
        /\ queue = <<>> /\ ~woken /\ ~stopped
        /\ core.state # "SENSING"
        /\ (core.state = "BACKOFF" \/ (core.state = "IDLE" /\ core.pending > 0)) => core.timer # "none"
    BY DEF NothingSleptOver
  <2> QED BY DEF BoardInv, Awake, CoreOK
<1>2. QED
  BY Invariant, <1>1, PTL

\* A sense is answered once and the core waits for that answer; a transmission is
\* reported at most once, never while it is on air, and the core waits for the report
\* of whatever it has on air (the contract of mesh/radio.py).
THEOREM Contract == Spec => []AnswersExpected
<1>1. BoardInv => AnswersExpected
  <2> SUFFICES ASSUME BoardInv PROVE AnswersExpected
    OBVIOUS
  <2>1. \A e : Count(e) = CountIn(queue, e)
    BY CountOfQueue
  <2>2. Count("busy") + Count("free") = IF core.state = "SENSING" THEN 1 ELSE 0
    BY <2>1 DEF BoardInv, AnswersDue, AnswersIn, Indicator
  <2>3. Count("TX_DONE") + (IF radio.tx /\ ~radio.raw THEN 1 ELSE 0) <=
          IF core.state = "TRANSMITTING" THEN 1 ELSE 0
    BY <2>1 DEF BoardInv, AnswersDue, Reports, Unreported, Indicator
  <2> QED BY <2>2, <2>3 DEF AnswersExpected
<1>2. QED
  BY Invariant, <1>1, PTL

\* The mesh never transmits over a raw frame, nor the bench over a frame of the mesh:
\* from a free sense to the transmission the runner keeps its turn (sx1262.py,
\* transmit_raw).
THEOREM OneTransmission == Spec => NeverOver
<1>1. BoardInv /\ [Next]_vars =>
        [radio'.tx /\ radio.tx => radio'.raw = radio.raw /\ radio'.air \in {radio.air, "standby", "rx"}]_vars
  BY NextKeeps DEF Alone
<1>2. QED
  BY Invariant, <1>1, PTL DEF Spec, NeverOver
==============================================================================
