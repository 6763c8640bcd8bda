---------------------------- MODULE FrameProofs ----------------------------
(***************************************************************************)
(* Proofs about frames: what keeps them unique, what refuses a repeated    *)
(* one, and what reads their bytes, for any set of senders, capacity,      *)
(* block size and storage failure, and any messages and limits.            *)
(*                                                                         *)
(* The frame counter of a sender (module FrameCounter): it never repeats,  *)
(* and its record is always ahead.                                         *)
(*                                                                         *)
(* The replay table of a receiver (module ReplayTable): how often a frame  *)
(* can get in, that no baseline is ahead of its sender, and which senders  *)
(* the table keeps.                                                        *)
(*                                                                         *)
(* The bytes of a frame (module FrameCodec): the size that the packing     *)
(* loop keeps is that of the frame encoded, and the receiver reads what    *)
(* was packed.  The argument goes from a field to the frame: a sequence    *)
(* "stands" at a place of another, words, fields, elements, group headers  *)
(* and groups that stand somewhere are read there, and the groups that the *)
(* loop keeps apart are the groups that the encoder finds again.           *)
(***************************************************************************)
EXTENDS FrameCounter, ReplayTable, FrameCodec, SequenceTheorems,
        WellFoundedInduction, TLAPS

------------------------------------------------------------------------------
(* The frame counter. *)

\* While the board runs, flash holds the record of _limit, or the one above it
\* after a reservation that raised at commit.
RunningRecord ==
  up => /\ found \subseteq {limit, limit + BLOCK}
        /\ next <= limit

\* While the board runs, the counters sealed are below the next one.
RunningUsed == up => \A u \in used : u < next

CounterInv ==
  /\ CounterTypeOK
  /\ RunningRecord
  /\ RunningUsed
  /\ UsedBelowRecord
  /\ SkipBound

\* Half a block, for any block size.
LEMMA HalfFact == Half \in Nat /\ 2 * Half <= BLOCK /\ BLOCK < 2 * Half + 2
  BY CounterAssumption DEF Half

\* A board without a record starts from a natural number.
LEMMA RandomStartsNat == RandomStarts \subseteq Nat
  BY CounterAssumption DEF RandomStarts

\* The first start establishes the invariant of the counter.
LEMMA CounterStart == CounterInit => CounterInv
<1> SUFFICES ASSUME CounterInit PROVE CounterInv
  OBVIOUS
<1>1. CounterTypeOK
  BY DEF CounterInit, CounterTypeOK
<1>2. RunningRecord /\ RunningUsed /\ UsedBelowRecord /\ SkipBound
  BY DEF CounterInit, RunningRecord, RunningUsed, UsedBelowRecord, SkipBound
<1>. QED
  BY <1>1, <1>2 DEF CounterInv

\* A reservation that raises while the board runs keeps the invariant, whether
\* next() has consumed its counter already or not.
LEMMA RaisesKeeps ==
  ASSUME CounterInv, up, ReserveRaises(found, limit), UNCHANGED <<up, used>>,
         next' = next \/ next' = next + 1, next' <= limit,
         limit - next' <= Half
  PROVE  CounterInv'
<1> USE CounterAssumption, HalfFact DEF CounterInv, CounterTypeOK
<1>1. found' = found \/ (found' = found \cup {limit + BLOCK} /\ limit + BLOCK \in Records)
  BY DEF ReserveRaises, Records
<1>2. limit' = limit
  BY DEF ReserveRaises
<1>3. found' \in SUBSET (Records \cup {NoRecord})
  BY <1>1
<1>4. CounterTypeOK'
  BY <1>2, <1>3
<1>5. found' \subseteq {limit, limit + BLOCK}
  BY <1>1 DEF RunningRecord
<1>6. next' \in Nat /\ next <= next'
  OBVIOUS
<1>9. RunningRecord'
  BY <1>2, <1>5 DEF RunningRecord
<1>10. RunningUsed'
  BY <1>6 DEF RunningUsed
<1>7. UsedBelowRecord'
  BY <1>5 DEF UsedBelowRecord, RunningRecord, RunningUsed
<1>8. SkipBound'
  <2>1. CASE next' = next
    BY <1>2, <1>5, <2>1 DEF SkipBound
  <2>2. CASE next' = next + 1
    BY <1>2, <1>5, <2>2 DEF SkipBound
  <2>. QED
    BY <2>1, <2>2
<1>. QED
  BY <1>4, <1>7, <1>8, <1>9, <1>10 DEF CounterInv

\* Every step preserves the inductive invariant.
LEMMA CounterStep == CounterInv /\ [CounterNext]_counterVars => CounterInv'
<1> SUFFICES ASSUME CounterInv, [CounterNext]_counterVars PROVE CounterInv'
  OBVIOUS
<1> USE CounterAssumption, HalfFact DEF CounterInv, CounterTypeOK, RunningRecord,
        RunningUsed, UsedBelowRecord, SkipBound, Records, Exhausted
<1>1. CASE Boot
  <2> DEFINE Outcome(r, start) ==
        /\ next' = start
        /\ \/ Reserve(start) /\ up' = TRUE
           \/ ReserveRaises({r}, start) /\ up' = FALSE
  <2>0. PICK r \in found : \E start \in StartsFrom(r) : Outcome(r, start)
    BY <1>1 DEF Boot
  <2>1. PICK start \in StartsFrom(r) : Outcome(r, start)
    BY <2>0
  <2>2. start \in Nat
    BY RandomStartsNat DEF StartsFrom
  <2>3. \A u \in used : r # NoRecord /\ u < r /\ u < start
    BY DEF StartsFrom
  <2>4. CASE Reserve(start) /\ up' = TRUE
    BY <1>1, <2>1, <2>2, <2>3, <2>4 DEF Boot, Reserve
  <2>5. CASE ReserveRaises({r}, start) /\ up' = FALSE
    <3>1. found' \subseteq {r, start + BLOCK} /\ found' \subseteq Records \cup {NoRecord}
      BY <2>2, <2>5 DEF ReserveRaises
    <3>2. \A u \in used : u < start + BLOCK /\ start + BLOCK # NoRecord
      BY <2>2, <2>3
    <3>. QED
      BY <1>1, <2>1, <2>2, <2>3, <2>5, <3>1, <3>2 DEF Boot, ReserveRaises
  <2>. QED
    BY <2>1, <2>4, <2>5
<1>2. CASE NextPlain
  BY <1>2 DEF NextPlain
<1>3. CASE NextReserving
  <2>1. CASE Reserve(limit) /\ used' = used \cup {next}
    BY <1>3, <2>1 DEF NextReserving, Reserve
  <2>2. CASE ReserveRaises(found, limit) /\ UNCHANGED used
    BY <1>3, <2>2, RaisesKeeps DEF NextReserving
  <2>. QED
    BY <1>3, <2>1, <2>2 DEF NextReserving
<1>4. CASE NextCatchingUp
  <2>1. CASE Reserve(limit) /\ next' = next + 1 /\ used' = used \cup {next}
    BY <1>4, <2>1 DEF NextCatchingUp, Reserve
  <2>2. CASE ReserveRaises(found, limit) /\ UNCHANGED <<next, used>>
    BY <1>4, <2>2, RaisesKeeps DEF NextCatchingUp
  <2>. QED
    BY <1>4, <2>1, <2>2 DEF NextCatchingUp
<1>5. CASE Reset
  BY <1>5 DEF Reset
<1>6. CASE Erase
  BY <1>6 DEF Erase
<1>7. CASE UNCHANGED counterVars
  BY <1>7 DEF counterVars
<1>. QED
  BY <1>1, <1>2, <1>3, <1>4, <1>5, <1>6, <1>7 DEF CounterNext

\* The counter keeps its invariant for ever.
LEMMA CounterAlways == CounterSpec => []CounterInv
  BY CounterStart, CounterStep, PTL DEF CounterSpec

\* The state of the counter stays within its types (counter.py 45-60).
THEOREM CounterTypeCorrect == CounterSpec => []CounterTypeOK
  BY CounterAlways, PTL DEF CounterInv

\* Whatever write failed and whenever the board stops, the records a restart
\* can find are above every counter sealed (counter.py 7-9).
THEOREM RecordAhead == CounterSpec => []UsedBelowRecord
  BY CounterAlways, PTL DEF CounterInv

\* A restart never skips more than a block and a half (counter.py 13-14).
THEOREM BoundedSkip == CounterSpec => []SkipBound
  BY CounterAlways, PTL DEF CounterInv

\* Every step that seals a frame leaves more than half a block recorded
\* (counter.py 10-12).
THEOREM NoWaitForFlash == CounterSpec => RecordedAhead
<1>1. ASSUME CounterInv, [CounterNext]_counterVars, up', used' # used
      PROVE  limit' - next' > Half
  <2> USE <1>1, CounterAssumption, HalfFact DEF CounterInv, CounterTypeOK, RunningRecord
  <2>1. CASE NextPlain
    BY <2>1 DEF NextPlain
  <2>2. CASE NextReserving
    BY <2>2 DEF NextReserving, Reserve
  <2>3. CASE NextCatchingUp
    BY <2>3 DEF NextCatchingUp, Reserve
  <2>. QED
    BY <2>1, <2>2, <2>3 DEF CounterNext, Boot, Reset, Erase, counterVars
<1>2. CounterInv /\ [CounterNext]_counterVars => [up' /\ used' # used => limit' - next' > Half]_counterVars
  BY <1>1
<1>. QED
  BY CounterAlways, <1>2, PTL DEF CounterSpec, RecordedAhead

\* The counter implements a nonce source: across restarts and failed writes,
\* no counter is sealed twice under one key, and they increase (counter.py 3-5).
THEOREM NeverRepeats == CounterSpec => NonceSpec
<1>1. CounterInit => Nonces!Init
  BY DEF CounterInit, Nonces!Init
<1>2. CounterInv /\ [CounterNext]_counterVars => [Nonces!Next]_used
  <2> SUFFICES ASSUME CounterInv, [CounterNext]_counterVars PROVE [Nonces!Next]_used
    OBVIOUS
  <2> USE DEF CounterInv, CounterTypeOK, RunningUsed, Exhausted
  <2>1. ASSUME up, ~Exhausted, used' = used \cup {next}
        PROVE  Nonces!Next
    <3>1. next \in 0 .. COUNTER_LIMIT - 1
      BY <2>1, CounterAssumption
    <3>2. Nonces!Issue(next)
      BY <2>1, <3>1 DEF Nonces!Issue
    <3>. QED
      BY <3>1, <3>2 DEF Nonces!Next
  <2>2. CASE Boot
    BY <2>2 DEF Boot
  <2>3. CASE NextPlain
    BY <2>1, <2>3 DEF NextPlain
  <2>4. CASE NextReserving
    BY <2>1, <2>4 DEF NextReserving
  <2>5. CASE NextCatchingUp
    BY <2>1, <2>5 DEF NextCatchingUp
  <2>6. CASE Reset
    BY <2>6 DEF Reset
  <2>7. CASE Erase
    BY <2>7 DEF Erase, Nonces!Next, Nonces!ChangeKey
  <2>8. CASE UNCHANGED counterVars
    BY <2>8 DEF counterVars
  <2>. QED
    BY <2>2, <2>3, <2>4, <2>5, <2>6, <2>7, <2>8 DEF CounterNext
<1>. QED
  BY <1>1, <1>2, CounterAlways, PTL DEF CounterSpec, NonceSpec, Nonces!Spec

------------------------------------------------------------------------------
(* The replay table. *)

\* Entries are packed at positions 1 .. count, and retained memory is current.
Packed == saved = table /\ \A s \in Senders : pos[s] <= count

\* The acceptances of a frame are paid for by the baselines lost, but for the
\* one its sender's present baseline stands for.
Covered(f) == Known(f.source) /\ f.counter <= highest[f.source]
Accounted ==
  \A f \in Frames :
    accepted[f] <= lost[f.source] + (IF Covered(f) THEN 1 ELSE 0)

\* No baseline is ahead of its sender: it is a counter really sealed.
GenuineBaseline ==
  \A s \in Senders : Known(s) => [source |-> s, counter |-> highest[s]] \in sent

IInv == TypeOK /\ Packed /\ Accounted /\ GenuineBaseline

\* The empty table is of the type of the tables.
LEMMA EmptyTable == Empty \in Tables
  BY ReplayAssumption DEF Empty, Tables

\* The first start establishes the invariant of the table.
LEMMA InitIInv == Init => IInv
<1> SUFFICES ASSUME Init PROVE IInv
  OBVIOUS
<1>1. table = Empty /\ saved = Empty
  BY DEF Init, table, Empty
<1>2. TypeOK
  BY <1>1, EmptyTable DEF Init, TypeOK
<1>3. Packed
  BY <1>1 DEF Packed, Init, Empty
<1>4. Accounted /\ GenuineBaseline
  BY DEF Init, Accounted, Covered, GenuineBaseline, Known, Empty, Frames
<1>. QED
  BY <1>2, <1>3, <1>4 DEF IInv

\* What an update leaves in the table.
LEMMA UpdateTable ==
  ASSUME IInv, NEW f \in Frames, Update(f)
  PROVE  /\ table' \in Tables
         /\ Packed'
         /\ pos'[f.source] # 0 /\ highest'[f.source] = f.counter
         /\ \A t \in Senders \ {f.source} :
              IF t \in Evicted(f.source)
              THEN pos'[t] = 0
              ELSE highest'[t] = highest[t] /\ (pos'[t] = 0 <=> pos[t] = 0)
<1> DEFINE s == f.source
<1> USE ReplayAssumption
<1>1. /\ highest \in [Senders -> Counters \cup {None}]
      /\ pos \in [Senders -> 0 .. CAPACITY]
      /\ count \in 0 .. CAPACITY
  BY DEF IInv, TypeOK, table, Tables
<1>2. s \in Senders /\ f.counter \in Counters
  BY DEF Frames
<1>3. Freed(s) \in 1 .. CAPACITY /\ Freed(s) \in 1 .. count + 1
  BY <1>1, <1>2 DEF Freed, Known, IInv, Packed
<1>4. Grown(s) \in 1 .. CAPACITY /\ Grown(s) \in {count, count + 1}
  BY <1>1, <1>2, <1>3 DEF Grown, Freed, Known, IInv, Packed
<1>5. highest' \in [Senders -> Counters \cup {None}]
  BY <1>1, <1>2 DEF Update
<1>6. pos' \in [Senders -> 0 .. CAPACITY] /\ count' \in 0 .. CAPACITY
  BY <1>1, <1>2, <1>3, <1>4 DEF Update
<1>7. table' \in Tables
  BY <1>5, <1>6 DEF table, Tables
<1>8. \A t \in Senders : pos'[t] <= count'
  BY <1>1, <1>2, <1>3, <1>4 DEF Update, IInv, Packed
<1>9. Packed'
  BY <1>8 DEF Packed, Update, Save
<1>10. pos'[s] # 0 /\ highest'[s] = f.counter
  BY <1>2, <1>4 DEF Update
<1>11. ASSUME NEW t \in Senders \ {s}
       PROVE  IF t \in Evicted(s)
              THEN pos'[t] = 0
              ELSE highest'[t] = highest[t] /\ (pos'[t] = 0 <=> pos[t] = 0)
  BY <1>1, <1>2, <1>3, <1>11 DEF Update
<1>. QED
  BY <1>7, <1>9, <1>10, <1>11

\* Every step preserves the inductive invariant.
LEMMA NextIInv == IInv /\ [Next]_vars => IInv'
<1> SUFFICES ASSUME IInv, [Next]_vars PROVE IInv'
  OBVIOUS
<1>1. ASSUME NEW f \in Frames, Seal(f) PROVE IInv'
  <2> USE <1>1 DEF Seal, IInv
  <2>1. TypeOK' /\ Packed' /\ Accounted'
    BY DEF TypeOK, Packed, Accounted, Covered, Known, table
  <2>2. GenuineBaseline'
    BY DEF GenuineBaseline, Known
  <2>. QED
    BY <2>1, <2>2
<1>2. ASSUME NEW f \in Frames, Receive(f) PROVE IInv'
  <2> DEFINE s == f.source
  <2>1. Update(f) /\ f \in sent /\ Check(f) /\ UNCHANGED sent
    BY <1>2 DEF Receive, Authentic
  <2>2. s \in Senders /\ f.counter \in Counters
    BY DEF Frames
  <2>3. /\ accepted \in [Frames -> Nat] /\ lost \in [Senders -> Nat]
        /\ highest \in [Senders -> Counters \cup {None}]
        /\ highest' \in [Senders -> Counters \cup {None}]
    BY <2>1, UpdateTable DEF IInv, TypeOK, table, Tables
  <2>4. /\ lost' = [t \in Senders |-> IF t \in Evicted(s) THEN lost[t] + 1 ELSE lost[t]]
        /\ accepted' = [accepted EXCEPT ![f] = @ + 1]
    BY <1>2 DEF Receive
  <2>5. TypeOK'
    <3>1. table' \in Tables /\ saved' \in Tables
      BY <2>1, UpdateTable DEF Packed
    <3>2. accepted' \in [Frames -> Nat] /\ lost' \in [Senders -> Nat]
      BY <2>3, <2>4
    <3>. QED
      BY <2>1, <3>1, <3>2 DEF IInv, TypeOK
  <2>6. Accounted'
    <3> SUFFICES ASSUME NEW g \in Frames
                 PROVE  accepted'[g] <= lost'[g.source] + (IF Covered(g)' THEN 1 ELSE 0)
      BY DEF Accounted
    <3>0. g.source \in Senders /\ g.counter \in Counters
      BY DEF Frames
    <3>1. accepted[g] <= lost[g.source] + (IF Covered(g) THEN 1 ELSE 0)
      BY DEF IInv, Accounted
    <3>2. CASE g = f
      <4>1. ~Covered(f)
        BY <2>1, <2>2, <2>3 DEF Check, Covered, Counters, None
      <4>2. Covered(f)'
        BY <2>1, <2>2, UpdateTable DEF Covered, Known, Counters
      <4>3. lost'[s] = lost[s]
        BY <2>2, <2>3, <2>4 DEF Evicted
      <4>. QED
        BY <2>2, <2>3, <2>4, <3>1, <3>2, <4>1, <4>2, <4>3
    <3>3. CASE g # f /\ g.source = s
      <4>1. Covered(g) => Covered(g)'
        BY <2>1, <2>2, <2>3, <3>0, <3>3, UpdateTable
        DEF Covered, Known, Check, Counters, None
      <4>2. lost'[s] = lost[s] /\ accepted'[g] = accepted[g]
        BY <2>2, <2>3, <2>4, <3>3 DEF Evicted
      <4>. QED
        BY <2>3, <3>0, <3>1, <3>3, <4>1, <4>2
    <3>4. CASE g.source # s
      <4>1. accepted'[g] = accepted[g]
        BY <2>3, <2>4, <3>4
      <4>2. CASE g.source \in Evicted(s)
        BY <2>3, <2>4, <3>0, <3>1, <4>1, <4>2
      <4>3. CASE g.source \notin Evicted(s)
        <5>1. Covered(g)' <=> Covered(g)
          BY <2>1, <3>0, <3>4, <4>3, UpdateTable DEF Covered, Known
        <5>. QED
          BY <2>3, <2>4, <3>0, <3>1, <4>1, <4>3, <5>1
      <4>. QED
        BY <4>2, <4>3
    <3>. QED
      BY <3>2, <3>3, <3>4
  <2>7. GenuineBaseline'
    <3> SUFFICES ASSUME NEW t \in Senders, Known(t)'
                 PROVE  [source |-> t, counter |-> highest'[t]] \in sent
      BY <2>1 DEF GenuineBaseline
    <3>1. CASE t = s
      BY <2>1, <3>1, UpdateTable DEF Frames
    <3>2. CASE t # s
      BY <2>1, <3>2, UpdateTable DEF IInv, GenuineBaseline, Known
    <3>. QED
      BY <3>1, <3>2
  <2>. QED
    BY <2>1, <2>5, <2>6, <2>7, UpdateTable DEF IInv
<1>3. CASE SoftReset
  <2>1. table' = table
    BY <1>3 DEF SoftReset, Restore, IInv, Packed, table
  <2>2. UNCHANGED <<highest, pos, count, sent, saved, accepted, lost>>
    BY <1>3, <2>1 DEF SoftReset, table
  <2>. QED
    BY <2>2 DEF IInv, TypeOK, Packed, Accounted, Covered, Known, GenuineBaseline, table
<1>4. CASE PowerLoss
  <2> USE <1>4 DEF PowerLoss, Restore
  <2>1. table' = Empty /\ saved' = Empty
    BY DEF Empty, table
  <2>2. /\ accepted \in [Frames -> Nat] /\ lost \in [Senders -> Nat]
    BY DEF IInv, TypeOK
  <2>3. TypeOK'
    BY <2>1, <2>2, EmptyTable DEF IInv, TypeOK
  <2>4. Packed'
    BY <2>1 DEF Packed, Empty
  <2>5. \A s \in Senders : ~Known(s)'
    BY DEF Known, Empty
  <2>6. Accounted'
    <3> SUFFICES ASSUME NEW f \in Frames
                 PROVE  accepted'[f] <= lost'[f.source] + (IF Covered(f)' THEN 1 ELSE 0)
      BY DEF Accounted
    <3>1. f.source \in Senders
      BY DEF Frames
    <3>2. accepted[f] <= lost[f.source] + (IF Covered(f) THEN 1 ELSE 0)
      BY DEF IInv, Accounted
    <3>3. lost'[f.source] \in Nat
          /\ lost'[f.source] = IF Known(f.source) THEN lost[f.source] + 1 ELSE lost[f.source]
      BY <2>2, <3>1
    <3>4. accepted[f] <= lost'[f.source]
      BY <2>2, <3>1, <3>2, <3>3 DEF Covered
    <3>. QED
      BY <2>2, <2>5, <3>1, <3>3, <3>4 DEF Covered
  <2>7. GenuineBaseline'
    BY <2>5 DEF GenuineBaseline
  <2>. QED
    BY <2>3, <2>4, <2>6, <2>7 DEF IInv
<1>5. CASE UNCHANGED vars
  BY <1>5 DEF vars, IInv, TypeOK, Packed, Accounted, Covered, Known, GenuineBaseline, table
<1>. QED
  BY <1>1, <1>2, <1>3, <1>4, <1>5 DEF Next

\* The table keeps its invariant for ever.
LEMMA AlwaysIInv == Spec => []IInv
  BY InitIInv, NextIInv, PTL DEF Spec

\* The table and its retained copy stay within their types (replay.py 42-72).
THEOREM TypeCorrect == Spec => []TypeOK
  BY AlwaysIInv, PTL DEF IInv

\* However frames are repeated, delayed or reordered, a frame is accepted at
\* most once per baseline of its sender (replay.py 3-11).
THEOREM AcceptedOncePerBaseline == Spec => []ReplayBound
<1>1. IInv => ReplayBound
  <2> SUFFICES ASSUME IInv, NEW f \in Frames PROVE accepted[f] <= 1 + lost[f.source]
    BY DEF ReplayBound
  <2>1. accepted[f] \in Nat /\ lost[f.source] \in Nat
    BY DEF IInv, TypeOK, Frames
  <2>2. accepted[f] <= lost[f.source] + (IF Covered(f) THEN 1 ELSE 0)
    BY DEF IInv, Accounted
  <2>. QED
    BY <2>1, <2>2
<1>. QED
  BY <1>1, AlwaysIInv, PTL

\* The next frame of a sender is always accepted (security.py 18-20).
THEOREM GenuineNeverLockedOut == Spec => []GenuineAccepted
<1>1. IInv => GenuineAccepted
  <2> SUFFICES ASSUME IInv, NEW f \in Frames, Known(f.source),
                      \A g \in sent : g.source = f.source => g.counter < f.counter
               PROVE  f.counter > highest[f.source]
    BY DEF GenuineAccepted, Check
  <2>1. f.source \in Senders
    BY DEF Frames
  <2>2. [source |-> f.source, counter |-> highest[f.source]] \in sent
    BY <2>1 DEF IInv, GenuineBaseline
  <2>3. highest[f.source] \in Int /\ f.counter \in Int
    BY <2>1 DEF IInv, TypeOK, table, Tables, Frames, Counters, None
  <2>. QED
    BY <2>2, <2>3
<1>. QED
  BY <1>1, AlwaysIInv, PTL

------------------------------------------------------------------------------
(* Which senders the table keeps. *)

\* The senders heard stand in `heard` once each, and those the table knows are
\* among them, at the places RecentKept says.
HeardInv ==
  /\ heard \in Seq(Senders)
  /\ \A i, j \in DOMAIN heard : heard[i] = heard[j] => i = j
  /\ \A s \in Senders : Known(s) => \E i \in DOMAIN heard : heard[i] = s
  /\ RecentKept

\* The sender s moves to the end of `heard`, from place p or as a new one.
LEMMA HeardAgainAt ==
  ASSUME heard \in Seq(Senders), NEW s \in Senders
  PROVE  \/ /\ \A i \in DOMAIN heard : heard[i] # s
            /\ HeardAgain(s) = [i \in 1 .. Len(heard) + 1 |-> IF i = Len(heard) + 1 THEN s ELSE heard[i]]
         \/ \E p \in DOMAIN heard :
              /\ heard[p] = s
              /\ HeardAgain(s) = [i \in 1 .. Len(heard) |->
                                    IF i = Len(heard) THEN s ELSE heard[IF i < p THEN i ELSE i + 1]]
<1> DEFINE before == {i \in DOMAIN heard : heard[i] = s}
           p == CHOOSE i \in before : TRUE
<1>1. CASE before = {}
  <2>1. HeardAgain(s) = [i \in 1 .. Len(heard) + 1 |->
                           IF i = Len(heard) + 1 THEN s
                           ELSE heard[IF i < Len(heard) + 1 THEN i ELSE i + 1]]
    BY <1>1 DEF HeardAgain
  <2>2. \A i \in 1 .. Len(heard) + 1 : i # Len(heard) + 1 => i < Len(heard) + 1
    OBVIOUS
  <2> QED BY <1>1, <2>1, <2>2
<1>2. CASE before # {}
  <2>1. p \in before
    BY <1>2
  <2>2. HeardAgain(s) = [i \in 1 .. Len(heard) |->
                           IF i = Len(heard) THEN s ELSE heard[IF i < p THEN i ELSE i + 1]]
    BY <1>2 DEF HeardAgain
  <2> QED BY <2>1, <2>2
<1> QED BY <1>1, <1>2

\* The table after an update, in numbers.
LEMMA UpdatePlaces ==
  ASSUME IInv, NEW f \in Frames, Update(f)
  PROVE  LET s == f.source
         IN  /\ s \in Senders /\ CAPACITY \in Nat \ {0}
             /\ pos \in [Senders -> Nat] /\ count \in 0 .. CAPACITY
             /\ \A t \in Senders : pos[t] <= count
             /\ count' = (IF pos[s] = 0 /\ count # CAPACITY THEN count + 1 ELSE count)
             /\ pos'[s] = count'
             /\ \A t \in Senders \ {s} :
                  pos'[t] = IF pos[s] # 0
                              THEN IF pos[t] = pos[s] THEN 0
                                   ELSE IF pos[t] > pos[s] THEN pos[t] - 1 ELSE pos[t]
                            ELSE IF count = CAPACITY
                              THEN IF pos[t] = 1 THEN 0 ELSE IF pos[t] > 1 THEN pos[t] - 1 ELSE pos[t]
                            ELSE pos[t]
<1> DEFINE s == f.source
<1>1. /\ pos \in [Senders -> 0 .. CAPACITY] /\ count \in 0 .. CAPACITY /\ CAPACITY \in Nat \ {0}
      /\ \A t \in Senders : pos[t] <= count
  BY ReplayAssumption DEF IInv, TypeOK, Packed, table, Tables
<1>2. s \in Senders
  BY DEF Frames
<1>3. Freed(s) = IF pos[s] # 0 THEN pos[s] ELSE IF count = CAPACITY THEN 1 ELSE count + 1
  BY DEF Freed, Known
<1>4. Grown(s) = IF pos[s] = 0 /\ count # CAPACITY THEN count + 1 ELSE count
  BY <1>1, <1>2, <1>3 DEF Grown
<1>5. \A t \in Senders \ {s} : t \in Evicted(s) <=> pos[t] = Freed(s)
  BY DEF Evicted
<1>6. /\ pos'[s] = Grown(s) /\ count' = Grown(s)
      /\ \A t \in Senders \ {s} :
           pos'[t] = IF pos[t] = Freed(s) THEN 0 ELSE IF pos[t] > Freed(s) THEN pos[t] - 1 ELSE pos[t]
  BY <1>2, <1>5 DEF Update
<1> HIDE DEF s
<1>7. \A t \in Senders \ {s} :
        pos'[t] = IF pos[s] # 0
                    THEN IF pos[t] = pos[s] THEN 0
                         ELSE IF pos[t] > pos[s] THEN pos[t] - 1 ELSE pos[t]
                  ELSE IF count = CAPACITY
                    THEN IF pos[t] = 1 THEN 0 ELSE IF pos[t] > 1 THEN pos[t] - 1 ELSE pos[t]
                  ELSE pos[t]
  BY <1>1, <1>2, <1>3, <1>6
<1>8. pos \in [Senders -> Nat]
  BY <1>1
<1>9. QED
  BY <1>1, <1>2, <1>4, <1>6, <1>7, <1>8 DEF s

\* Where the entry of another sender stands once s, heard before at place p of
\* the history, is heard again: the one at place k moves to place i.  d senders
\* have left the table, full being true only if some have.
LEMMA PlaceAgain ==
  ASSUME NEW d \in Nat, NEW p \in Nat \ {0}, NEW i \in Nat \ {0}, NEW full \in BOOLEAN,
         d > 0 => full,
         NEW k \in Nat, k = IF i < p THEN i ELSE i + 1,
         NEW g \in Nat, g = IF k > d THEN k - d ELSE 0,
         NEW h \in Nat, h = IF p > d THEN p - d ELSE 0
  PROVE  (IF h # 0 THEN IF g = h THEN 0 ELSE IF g > h THEN g - 1 ELSE g
          ELSE IF full THEN IF g = 1 THEN 0 ELSE IF g > 1 THEN g - 1 ELSE g
          ELSE g) = IF i > d THEN i - d ELSE 0
<1>1. CASE p > d /\ i < p
  BY <1>1
<1>2. CASE p > d /\ ~(i < p)
  BY <1>2
<1>3. CASE ~(p > d) /\ i < p
  BY <1>3
<1>4. CASE ~(p > d) /\ ~(i < p)
  <2>1. full /\ h = 0
    BY <1>4
  <2>2. CASE i > d
    BY <1>4, <2>1, <2>2
  <2>3. CASE ~(i > d)
    BY <1>4, <2>1, <2>3
  <2> QED BY <2>2, <2>3
<1> QED BY <1>1, <1>2, <1>3, <1>4

\* A frame accepted keeps the invariant: its sender is at the end, the others stay
\* in order, and the one evicted was the first of the last CAPACITY heard.
LEMMA ReceiveHeard ==
  ASSUME IInv, HeardInv, NEW f \in Frames, Receive(f)
  PROVE  HeardInv'
<1> DEFINE s == f.source
           L == Len(heard)
           d == L - count
<1>1. Update(f) /\ heard' = HeardAgain(s)
  BY DEF Receive
<1>2. /\ s \in Senders /\ CAPACITY \in Nat \ {0}
      /\ pos \in [Senders -> Nat] /\ count \in 0 .. CAPACITY
      /\ \A t \in Senders : pos[t] <= count
      /\ count' = (IF pos[s] = 0 /\ count # CAPACITY THEN count + 1 ELSE count)
      /\ pos'[s] = count'
      /\ \A t \in Senders \ {s} :
           pos'[t] = IF pos[s] # 0
                       THEN IF pos[t] = pos[s] THEN 0
                            ELSE IF pos[t] > pos[s] THEN pos[t] - 1 ELSE pos[t]
                     ELSE IF count = CAPACITY
                       THEN IF pos[t] = 1 THEN 0 ELSE IF pos[t] > 1 THEN pos[t] - 1 ELSE pos[t]
                     ELSE pos[t]
  BY <1>1, UpdatePlaces
<1>3. /\ heard \in Seq(Senders) /\ L \in Nat /\ DOMAIN heard = 1 .. L
      /\ \A i \in 1 .. L : heard[i] \in Senders
      /\ \A i, j \in 1 .. L : heard[i] = heard[j] => i = j
      /\ \A t \in Senders : pos[t] # 0 => \E i \in 1 .. L : heard[i] = t
  BY DEF HeardInv, Known
<1>4. /\ count = (IF L < CAPACITY THEN L ELSE CAPACITY)
      /\ \A i \in 1 .. L : pos[heard[i]] = IF i > d THEN i - d ELSE 0
  <2>1. /\ count = (IF L < CAPACITY THEN L ELSE CAPACITY)
        /\ \A i \in 1 .. L : pos[heard[i]] = IF i - d > 0 THEN i - d ELSE 0
    BY <1>3 DEF HeardInv, RecentKept
  <2>2. \A i \in 1 .. L : i > d <=> i - d > 0
    BY <1>2, <1>3
  <2> QED BY <2>1, <2>2
<1>5. CASE /\ \A i \in 1 .. L : heard[i] # s
           /\ heard' = [i \in 1 .. L + 1 |-> IF i = L + 1 THEN s ELSE heard[i]]
  <2> HIDE DEF s, L, d
  <2>1. /\ heard' \in Seq(Senders) /\ Len(heard') = L + 1 /\ DOMAIN heard' = 1 .. L + 1
        /\ heard'[L + 1] = s /\ \A i \in 1 .. L : heard'[i] = heard[i]
    BY <1>2, <1>3, <1>5
  <2>2. \A i, j \in 1 .. L + 1 : heard'[i] = heard'[j] => i = j
    BY <1>3, <1>5, <2>1
  <2>3. pos[s] = 0
    BY <1>2, <1>3, <1>5
  <2>4. count' = IF L + 1 < CAPACITY THEN L + 1 ELSE CAPACITY
    BY <1>2, <1>3, <1>4, <2>3
  <2>5. ASSUME NEW i \in 1 .. L + 1
        PROVE  pos'[heard'[i]] = IF i - (Len(heard') - count') > 0 THEN i - (Len(heard') - count') ELSE 0
    <3>1. CASE i = L + 1
      BY <1>2, <1>3, <2>1, <2>4, <3>1
    <3>2. CASE i # L + 1
      <4> DEFINE t == heard[i]
      <4>1. i \in 1 .. L /\ heard'[i] = t /\ t \in Senders \ {s}
        BY <1>3, <1>5, <2>1, <3>2
      <4>2. pos[t] = IF i > d THEN i - d ELSE 0
        BY <1>4, <4>1
      <4> HIDE DEF t
      <4>3. pos'[t] = IF count = CAPACITY
                        THEN IF pos[t] = 1 THEN 0 ELSE IF pos[t] > 1 THEN pos[t] - 1 ELSE pos[t]
                      ELSE pos[t]
        BY <1>2, <2>3, <4>1
      <4> DEFINE g == pos[t]
      <4>5. /\ L \in Nat /\ count \in Nat /\ CAPACITY \in Nat \ {0} /\ i \in 1 .. L
            /\ g \in Nat /\ d = L - count
            /\ count = (IF L < CAPACITY THEN L ELSE CAPACITY)
        BY <1>2, <1>3, <1>4, <4>1 DEF d
      <4> HIDE DEF g
      <4>6. g = IF i > d THEN i - d ELSE 0
        BY <4>2 DEF g
      <4>7. pos'[t] = IF count = CAPACITY
                        THEN IF g = 1 THEN 0 ELSE IF g > 1 THEN g - 1 ELSE g
                      ELSE g
        BY <4>3 DEF g
      <4> DEFINE m == Len(heard') - count'
      <4>8. m = IF count = CAPACITY THEN d + 1 ELSE d
        BY <2>1, <2>4, <4>5
      <4> HIDE DEF m
      <4>9. count # CAPACITY => d = 0
        BY <4>5
      <4>4. pos'[t] = IF i - m > 0 THEN i - m ELSE 0
        <5>1. CASE count = CAPACITY
          BY <4>5, <4>6, <4>7, <4>8, <5>1
        <5>2. CASE count # CAPACITY
          BY <4>5, <4>6, <4>7, <4>8, <4>9, <5>2
        <5> QED BY <5>1, <5>2
      <4>10. heard'[i] = t
        BY <4>1
      <4> USE DEF m
      <4> QED BY <4>4, <4>10
    <3> QED BY <3>1, <3>2
  <2>6. \A t \in Senders : pos'[t] # 0 => \E i \in 1 .. L + 1 : heard'[i] = t
    <3>1. \A t \in Senders : pos'[t] # 0 => t = s \/ pos[t] # 0
      BY <1>2, <2>3
    <3> QED BY <1>3, <2>1, <3>1
  <2>7. RecentKept'
    <3>1. count' = IF Len(heard') < CAPACITY THEN Len(heard') ELSE CAPACITY
      BY <2>1, <2>4
    <3>2. DOMAIN heard' = 1 .. L + 1
      BY <2>1
    <3> QED BY <2>5, <3>1, <3>2 DEF RecentKept
  <2> QED BY <2>1, <2>2, <2>6, <2>7 DEF HeardInv, Known
<1>6. ASSUME NEW p \in 1 .. L, heard[p] = s,
             heard' = [i \in 1 .. L |-> IF i = L THEN s ELSE heard[IF i < p THEN i ELSE i + 1]]
      PROVE  HeardInv'
  <2> HIDE DEF s, L, d
  <2> DEFINE From(i) == IF i = L THEN p ELSE IF i < p THEN i ELSE i + 1
  <2>1. \A i \in 1 .. L : From(i) \in 1 .. L /\ heard'[i] = heard[From(i)]
    BY <1>3, <1>6
  <2>2. heard' \in Seq(Senders) /\ Len(heard') = L /\ DOMAIN heard' = 1 .. L
    BY <1>2, <1>3, <1>6
  <2>3. \A i, j \in 1 .. L : From(i) = From(j) => i = j
    BY <1>3
  <2>4. \A k \in 1 .. L : \E i \in 1 .. L : From(i) = k
    <3>1. ASSUME NEW k \in 1 .. L
          PROVE  From(IF k = p THEN L ELSE IF k < p THEN k ELSE k - 1) = k
                 /\ (IF k = p THEN L ELSE IF k < p THEN k ELSE k - 1) \in 1 .. L
      BY <1>3
    <3> QED BY <3>1
  <2>5. pos[s] = (IF p > d THEN p - d ELSE 0)
    BY <1>4, <1>6
  <2>6. count' = count /\ count' = IF L < CAPACITY THEN L ELSE CAPACITY
    BY <1>2, <1>3, <1>4, <2>5 DEF d
  <2>7. ASSUME NEW i \in 1 .. L
        PROVE  pos'[heard'[i]] = IF i - (L - count') > 0 THEN i - (L - count') ELSE 0
    <3>1. CASE i = L
      BY <1>2, <1>3, <1>4, <1>6, <2>1, <2>6, <3>1
    <3>2. CASE i # L
      <4> DEFINE t == heard[From(i)]
      <4>1. From(i) \in 1 .. L /\ From(i) # p /\ heard'[i] = t
        BY <1>3, <2>1, <3>2
      <4>2. t \in Senders \ {s}
        BY <1>3, <1>6, <4>1
      <4>3. pos[t] = IF From(i) > d THEN From(i) - d ELSE 0
        BY <1>4, <4>1
      <4>4. From(i) = IF i < p THEN i ELSE i + 1
        BY <3>2
      <4> HIDE DEF t, From
      <4>5. pos'[t] = IF pos[s] # 0
                       THEN IF pos[t] = pos[s] THEN 0
                            ELSE IF pos[t] > pos[s] THEN pos[t] - 1 ELSE pos[t]
                     ELSE IF count = CAPACITY
                       THEN IF pos[t] = 1 THEN 0 ELSE IF pos[t] > 1 THEN pos[t] - 1 ELSE pos[t]
                     ELSE pos[t]
        BY <1>2, <4>2
      <4> DEFINE k == From(i)  g == pos[t]  h == pos[s]  full == count = CAPACITY
      <4>6. /\ d \in Nat /\ p \in Nat \ {0} /\ i \in Nat \ {0} /\ full \in BOOLEAN
            /\ k \in Nat /\ g \in Nat /\ h \in Nat /\ d = L - count
        <5>1. /\ count \in Nat /\ L \in Nat /\ count =< L /\ CAPACITY \in Nat
              /\ pos[t] \in Nat /\ pos[s] \in Nat
          BY <1>2, <1>3, <1>4, <4>2
        <5>2. d \in Nat /\ d = L - count
          BY <5>1 DEF d
        <5>3. p \in Nat \ {0} /\ i \in Nat \ {0} /\ From(i) \in Nat
          BY <1>3, <4>1
        <5> QED BY <5>1, <5>2, <5>3
      <4>7. d > 0 => full
        BY <1>2, <1>3, <1>4 DEF d
      <4>8. /\ k = (IF i < p THEN i ELSE i + 1)
            /\ g = (IF k > d THEN k - d ELSE 0)
            /\ h = (IF p > d THEN p - d ELSE 0)
        BY <2>5, <4>3, <4>4
      <4>9. pos'[t] = IF h # 0 THEN IF g = h THEN 0 ELSE IF g > h THEN g - 1 ELSE g
                      ELSE IF full THEN IF g = 1 THEN 0 ELSE IF g > 1 THEN g - 1 ELSE g
                      ELSE g
        BY <4>5
      <4> HIDE DEF k, g, h, full
      <4>10. pos'[t] = IF i > d THEN i - d ELSE 0
        BY <4>6, <4>7, <4>8, <4>9, PlaceAgain
      <4>11. L - count' = d
        BY <2>6, <4>6
      <4>12. i > d <=> i - d > 0
        BY <4>6
      <4> QED BY <4>1, <4>10, <4>11, <4>12
    <3> QED BY <3>1, <3>2
  <2>8. \A t \in Senders : pos'[t] # 0 => \E i \in 1 .. L : heard'[i] = t
    <3>1. \A t \in Senders : pos'[t] # 0 => t = s \/ pos[t] # 0
      BY <1>2
    <3>2. \A t \in Senders : pos'[t] # 0 => \E k \in 1 .. L : heard[k] = t
      BY <1>3, <1>6, <3>1
    <3> HIDE DEF From
    <3> QED BY <2>1, <2>4, <3>2
  <2>9. \A i, j \in 1 .. L : heard'[i] = heard'[j] => i = j
    <3> HIDE DEF From
    <3> QED BY <1>3, <2>1, <2>3
  <2> QED BY <2>2, <2>6, <2>7, <2>8, <2>9 DEF HeardInv, RecentKept, Known
<1>7. QED
  BY <1>1, <1>2, <1>3, <1>5, <1>6, HeardAgainAt

\* So does every other step.
LEMMA HeardStep ==
  ASSUME IInv, HeardInv, [Next]_vars
  PROVE  HeardInv'
<1>1. CASE UNCHANGED <<pos, count, heard>>
  BY <1>1 DEF HeardInv, RecentKept, Known
<1>2. ASSUME NEW f \in Frames, Receive(f) PROVE HeardInv'
  BY <1>2, ReceiveHeard
<1>3. CASE SoftReset
  BY <1>1, <1>3 DEF SoftReset, Restore, IInv, Packed, table
<1>4. CASE PowerLoss
  <2>1. heard' = <<>> /\ count' = 0 /\ \A s \in Senders : pos'[s] = 0
    BY <1>4 DEF PowerLoss, Restore, Empty
  <2> QED BY <2>1, ReplayAssumption DEF HeardInv, RecentKept, Known
<1>5. QED
  BY <1>1, <1>2, <1>3, <1>4 DEF Next, vars, Seal

\* The table keeps the senders heard most recently, in their order, as many as it
\* can hold, whatever frames arrive and however often the board restarts (replay.py
\* 5-7 and 13-16).
THEOREM MostRecentKept == Spec => []RecentKept
<1>1. Init => HeardInv
  BY ReplayAssumption DEF Init, HeardInv, RecentKept, Known, Empty
<1>2. IInv /\ HeardInv /\ [Next]_vars => HeardInv'
  BY HeardStep
<1>3. HeardInv => RecentKept
  BY DEF HeardInv
<1>4. QED
  BY <1>1, <1>2, <1>3, AlwaysIInv, PTL DEF Spec

------------------------------------------------------------------------------
(* Induction on the naturals, stated for a set instead of a predicate, and the *)
(* recursive functions that it gives.                                          *)

\* Every nonempty set of naturals has a least element.
LEMMA LeastNatural ==
  ASSUME NEW S \in SUBSET Nat, S # {}
  PROVE  \E m \in S : \A k \in S : m <= k
<1> DEFINE R == OpToRel(<, Nat)
<1>1. IsWellFoundedOn(R, Nat)
  BY NatLessThanWellFounded
<1>2. \A x, y \in Nat : x < y <=> <<x, y>> \in R
  BY DEF OpToRel
<1> HIDE DEF R
<1>3. \E x \in S : \A y \in S : <<y, x>> \notin R
  BY <1>1, WFMin
<1>4. PICK x \in S : \A y \in S : <<y, x>> \notin R
  BY <1>3
<1>5. \A y \in S : ~(y < x) /\ y \in Nat /\ x \in Nat
  BY <1>2, <1>4
<1>6. QED
  BY <1>5

\* A set that holds 0, and the successor of each of its elements up to N.
LEMMA Induction ==
  ASSUME NEW N \in Nat, NEW S, 0 \in S, \A i \in 0 .. N - 1 : i \in S => i + 1 \in S
  PROVE  0 .. N \subseteq S
<1> DEFINE T == (0 .. N) \ S
<1>1. SUFFICES ASSUME T # {} PROVE FALSE
  OBVIOUS
<1>2. T \in SUBSET Nat
  OBVIOUS
<1>3. PICK m \in T : \A k \in T : m <= k
  <2> HIDE DEF T
  <2> QED BY <1>1, <1>2, LeastNatural
<1>4. m # 0 /\ m - 1 \in 0 .. N - 1 /\ m - 1 \notin T
  BY <1>3
<1>5. QED
  BY <1>4

\* The same, stated from the successor.
LEMMA Upward ==
  ASSUME NEW N \in Nat, NEW S, 0 \in S, \A i \in 1 .. N : i - 1 \in S => i \in S
  PROVE  0 .. N \subseteq S
<1>1. ASSUME NEW i \in 0 .. N - 1, i \in S PROVE i + 1 \in S
  <2>1. i + 1 \in 1 .. N /\ i + 1 - 1 = i
    OBVIOUS
  <2> QED BY <1>1, <2>1
<1>2. QED
  BY <1>1, Induction

\* f iterates F, which maps a value of X and a step to a value, N times from x.
Iterates(f, F, N, X, x) ==
  /\ f \in [0 .. N -> X]
  /\ f[0] = x
  /\ \A i \in 1 .. N : f[i] = F[<<f[i - 1], i>>]

\* The sequence of the iterations exists.
LEMMA Recursion ==
  ASSUME NEW N \in Nat, NEW X, NEW x \in X, NEW F \in [X \X (1 .. N) -> X]
  PROVE  \E f : Iterates(f, F, N, X, x)
<1> DEFINE S == {n \in 0 .. N : \E f : Iterates(f, F, n, X, x)}
<1>1. 0 \in S
  <2>1. Iterates([i \in 0 .. 0 |-> x], F, 0, X, x)
    BY DEF Iterates
  <2>2. QED
    BY <2>1
<1>2. ASSUME NEW n \in 0 .. N - 1, n \in S PROVE n + 1 \in S
  <2>1. PICK f : Iterates(f, F, n, X, x)
    BY <1>2
  <2> USE DEF Iterates
  <2> DEFINE g == [i \in 0 .. n + 1 |-> IF i = n + 1 THEN F[<<f[n], n + 1>>] ELSE f[i]]
  <2>2. g \in [0 .. n + 1 -> X]
    <3>1. <<f[n], n + 1>> \in X \X (1 .. N)
      BY <2>1
    <3>2. \A i \in 0 .. n + 1 : i # n + 1 => i \in 0 .. n
      OBVIOUS
    <3> QED BY <2>1, <3>1, <3>2
  <2>3. g[0] = x
    BY <2>1
  <2>4. ASSUME NEW i \in 1 .. n + 1 PROVE g[i] = F[<<g[i - 1], i>>]
    <3>1. CASE i = n + 1
      <4>1. g[i] = F[<<f[n], n + 1>>] /\ g[i - 1] = f[n]
        BY <3>1
      <4> QED BY <4>1, <3>1
    <3>2. CASE i # n + 1
      <4>1. i \in 1 .. n /\ g[i] = f[i] /\ g[i - 1] = f[i - 1]
        BY <3>2
      <4> QED BY <4>1, <2>1
    <3> QED BY <3>1, <3>2
  <2>5. Iterates(g, F, n + 1, X, x)
    <3> HIDE DEF g
    <3> QED BY <2>2, <2>3, <2>4
  <2> HIDE DEF Iterates, g
  <2>6. QED
    BY <2>5
<1>3. N \in S
  <2> HIDE DEF S
  <2> QED BY <1>1, <1>2, Induction
<1>4. QED
  BY <1>3

------------------------------------------------------------------------------
(* Sums and concatenations. *)

\* c holds the sums of the first elements of s.
Sums(c, s) ==
  /\ c \in [0 .. Len(s) -> Int]
  /\ c[0] = 0
  /\ \A k \in 1 .. Len(s) : c[k] = c[k - 1] + s[k]

\* A sum is the last of them.
LEMMA TotalIs ==
  ASSUME NEW s \in Seq(Int)
  PROVE  \E c : Sums(c, s) /\ Total(s) = c[Len(s)]
<1> DEFINE n == Len(s)
           F == [z \in Int \X (1 .. n) |-> z[1] + s[z[2]]]
           Good(f) == f = [k \in 0 .. Len(s) |-> IF k = 0 THEN 0 ELSE f[k - 1] + s[k]]
           r == CHOOSE f : Good(f)
<1>1. n \in Nat /\ \A k \in 1 .. n : s[k] \in Int /\ k - 1 \in 0 .. n
  OBVIOUS
<1>2. F \in [Int \X (1 .. n) -> Int]
  BY <1>1
<1>3. PICK f : Iterates(f, F, n, Int, 0)
  <2>1. 0 \in Int
    OBVIOUS
  <2> HIDE DEF F, n
  <2> QED BY <1>1, <1>2, <2>1, Recursion
<1>4. f \in [0 .. n -> Int] /\ f[0] = 0 /\ \A k \in 1 .. n : f[k] = f[k - 1] + s[k]
  <2>1. f \in [0 .. n -> Int] /\ f[0] = 0 /\ \A k \in 1 .. n : f[k] = F[<<f[k - 1], k>>]
    <3> HIDE DEF F, n
    <3> QED BY <1>3 DEF Iterates
  <2>2. \A k \in 1 .. n : <<f[k - 1], k>> \in Int \X (1 .. n)
    BY <1>1, <2>1
  <2> QED BY <2>1, <2>2
<1>5. Good(f)
  <2> HIDE DEF F
  <2> QED BY <1>1, <1>4
<1>6. Good(r)
  <2> HIDE DEF Good
  <2> QED BY <1>5
<1>7. DOMAIN r = 0 .. n /\ r[0] = 0 /\ \A k \in 1 .. n : r[k] = r[k - 1] + s[k]
  <2> HIDE DEF r, F
  <2> QED BY <1>1, <1>6
<1>8. \A k \in 0 .. n : r[k] \in Int
  <2> DEFINE S == {k \in 0 .. n : r[k] \in Int}
  <2> HIDE DEF r, F, n
  <2>1. 0 \in S
    BY <1>1, <1>7
  <2>2. ASSUME NEW k \in 1 .. n, k - 1 \in S PROVE k \in S
    <3>1. r[k] = r[k - 1] + s[k] /\ s[k] \in Int /\ r[k - 1] \in Int /\ k \in 0 .. n
      BY <1>1, <1>7, <2>2
    <3> QED BY <3>1
  <2>3. 0 .. n \subseteq S
    <3> HIDE DEF S
    <3> QED BY <1>1, <2>1, <2>2, Upward
  <2> QED BY <2>3
<1>9. r \in [0 .. n -> Int]
  <2>1. r = [k \in 0 .. n |-> r[k]]
    <3> HIDE DEF r, F
    <3> QED BY <1>6, <1>7
  <2> HIDE DEF r, F, n
  <2> QED BY <1>8, <2>1
<1>10. Total(s) = r[n]
  BY DEF Total
<1>11. Sums(r, s)
  <2> HIDE DEF r, F, Good
  <2> QED BY <1>7, <1>9 DEF Sums
<1>. QED
  <2> HIDE DEF r, F, Good
  <2> QED BY <1>10, <1>11

\* c holds the concatenations of the first elements of ss.
Concats(c, ss, T) ==
  /\ c \in [0 .. Len(ss) -> Seq(T)]
  /\ c[0] = <<>>
  /\ \A k \in 1 .. Len(ss) : c[k] = c[k - 1] \o ss[k]

\* Sequences put end to end are the last of them.
LEMMA FlattenIs ==
  ASSUME NEW T, NEW ss \in Seq(Seq(T))
  PROVE  \E c : Concats(c, ss, T) /\ FlattenSeq(ss) = c[Len(ss)]
<1> DEFINE n == Len(ss)
           F == [z \in Seq(T) \X (1 .. n) |-> z[1] \o ss[z[2]]]
           Good(f) == f = [k \in 1 .. Len(ss) |-> IF k = 1 THEN ss[k] ELSE f[k - 1] \o ss[k]]
           r == CHOOSE f : Good(f)
           c == [k \in 0 .. n |-> IF k = 0 THEN <<>> ELSE r[k]]
<1>1. n \in Nat /\ \A k \in 1 .. n : ss[k] \in Seq(T) /\ k - 1 \in 0 .. n
  OBVIOUS
<1>2. F \in [Seq(T) \X (1 .. n) -> Seq(T)]
  <2>1. \A s \in Seq(T), k \in 1 .. n : s \o ss[k] \in Seq(T)
    BY <1>1
  <2> HIDE DEF n
  <2> QED BY <2>1
<1>3. PICK f : Iterates(f, F, n, Seq(T), <<>>)
  <2>1. <<>> \in Seq(T)
    OBVIOUS
  <2> HIDE DEF F, n
  <2> QED BY <1>1, <1>2, <2>1, Recursion
<1>4. f \in [0 .. n -> Seq(T)] /\ f[0] = <<>> /\ \A k \in 1 .. n : f[k] = f[k - 1] \o ss[k]
  <2>1. f \in [0 .. n -> Seq(T)] /\ f[0] = <<>> /\ \A k \in 1 .. n : f[k] = F[<<f[k - 1], k>>]
    <3> HIDE DEF F, n
    <3> QED BY <1>3 DEF Iterates
  <2>2. \A k \in 1 .. n : <<f[k - 1], k>> \in Seq(T) \X (1 .. n)
    BY <1>1, <2>1
  <2> HIDE DEF n
  <2> QED BY <2>1, <2>2
<1>5. Good([k \in 1 .. n |-> f[k]])
  <2>1. ASSUME NEW k \in 1 .. n, k = 1 PROVE f[k] = ss[k]
    <3>1. ss[k] \in Seq(T) /\ f[k] = f[k - 1] \o ss[k]
      <4> HIDE DEF n, F
      <4> QED BY <1>1, <1>4
    <3>4. k - 1 = 0
      BY <2>1
    <3>2. <<>> \o ss[k] = ss[k]
      BY <3>1, ConcatEmptySeq
    <3> QED BY <1>4, <3>1, <3>2, <3>4
  <2>2. \A k \in 1 .. n : k # 1 => k - 1 \in 1 .. n
    BY <1>1
  <2> HIDE DEF F
  <2> QED BY <1>4, <2>1, <2>2
<1>6. Good(r)
  <2> HIDE DEF Good
  <2> QED BY <1>5
<1>7. /\ DOMAIN r = 1 .. n
      /\ \A k \in 1 .. n : r[k] = IF k = 1 THEN ss[k] ELSE r[k - 1] \o ss[k]
  <2> HIDE DEF r, F
  <2> QED BY <1>1, <1>6
<1>8. DOMAIN c = 0 .. n /\ c[0] = <<>> /\ \A k \in 1 .. n : c[k] = r[k]
  <2> HIDE DEF r, F
  <2> QED BY <1>1
<1>9. \A k \in 1 .. n : c[k] = c[k - 1] \o ss[k]
  <2> SUFFICES ASSUME NEW k \in 1 .. n PROVE c[k] = c[k - 1] \o ss[k]
    OBVIOUS
  <2> HIDE DEF r, F, c
  <2>1. CASE k = 1
    <3>1. c[k] = ss[k] /\ ss[k] \in Seq(T)
      BY <1>1, <1>7, <1>8, <2>1
    <3>2. c[k - 1] = <<>>
      BY <1>8, <2>1
    <3>3. <<>> \o ss[k] = ss[k]
      BY <3>1, ConcatEmptySeq
    <3> QED BY <3>1, <3>2, <3>3
  <2>2. CASE k # 1
    <3>1. k - 1 \in 1 .. n
      BY <1>1, <2>2
    <3> QED BY <1>7, <1>8, <2>2, <3>1
  <2> QED BY <2>1, <2>2
<1>10. \A k \in 0 .. n : c[k] \in Seq(T)
  <2> DEFINE S == {k \in 0 .. n : c[k] \in Seq(T)}
  <2> HIDE DEF r, F, n, c
  <2>1. 0 \in S
    BY <1>1, <1>8
  <2>2. ASSUME NEW k \in 1 .. n, k - 1 \in S PROVE k \in S
    <3>1. c[k] = c[k - 1] \o ss[k] /\ ss[k] \in Seq(T) /\ c[k - 1] \in Seq(T)
      BY <1>1, <1>9, <2>2
    <3>2. c[k - 1] \o ss[k] \in Seq(T)
      BY <3>1
    <3>3. k \in 0 .. n
      BY <1>1
    <3> QED BY <3>1, <3>2, <3>3
  <2>3. 0 .. n \subseteq S
    <3> HIDE DEF S
    <3> QED BY <1>1, <2>1, <2>2, Upward
  <2> QED BY <2>3
<1>11. c \in [0 .. n -> Seq(T)]
  <2>1. c = [k \in 0 .. n |-> c[k]]
    <3> HIDE DEF r, F
    <3> QED BY <1>8
  <2> HIDE DEF r, F, n, c
  <2> QED BY <1>10, <2>1
<1>12. FlattenSeq(ss) = c[n]
  <2>1. CASE n = 0
    <3>1. FlattenSeq(ss) = ss /\ ss = <<>>
      BY <2>1 DEF FlattenSeq
    <3> HIDE DEF r, F, c
    <3> QED BY <1>8, <2>1, <3>1
  <2>2. CASE n # 0
    <3>1. FlattenSeq(ss) = r[n]
      BY <2>2 DEF FlattenSeq
    <3>2. n \in 1 .. n
      BY <1>1, <2>2
    <3> HIDE DEF r, F, c
    <3> QED BY <1>8, <3>1, <3>2
  <2> QED BY <2>1, <2>2
<1>13. Concats(c, ss, T)
  <2> HIDE DEF r, F, Good, c
  <2> QED BY <1>8, <1>9, <1>11 DEF Concats
<1>. QED
  <2> HIDE DEF r, F, Good, c
  <2> QED BY <1>12, <1>13

\* Sums of sequences that agree on their first m elements agree there.
LEMMA SumsAgree ==
  ASSUME NEW s \in Seq(Int), NEW t \in Seq(Int), NEW c, NEW d, Sums(c, s), Sums(d, t),
         NEW m \in Nat, m <= Len(s), m <= Len(t), \A k \in 1 .. m : s[k] = t[k]
  PROVE  \A k \in 0 .. m : c[k] = d[k]
<1> DEFINE S == {k \in 0 .. m : c[k] = d[k]}
<1>1. Len(s) \in Nat /\ Len(t) \in Nat
  OBVIOUS
<1>2. 0 \in S
  BY DEF Sums
<1>3. ASSUME NEW k \in 1 .. m, k - 1 \in S PROVE k \in S
  <2>1. k \in 1 .. Len(s) /\ k \in 1 .. Len(t) /\ k \in 0 .. m
    BY <1>1
  <2>2. c[k] = c[k - 1] + s[k] /\ d[k] = d[k - 1] + t[k]
    BY <2>1 DEF Sums
  <2> QED BY <1>3, <2>1, <2>2
<1>4. 0 .. m \subseteq S
  <2> HIDE DEF S
  <2> QED BY <1>2, <1>3, Upward
<1>. QED
  BY <1>4

\* Sums of sequences that differ in their element g only differ by it from there on.
LEMMA SumsDiffer ==
  ASSUME NEW s \in Seq(Int), NEW t \in Seq(Int), NEW c, NEW d, Sums(c, s), Sums(d, t),
         Len(s) = Len(t), NEW g \in 1 .. Len(s), \A k \in 1 .. Len(s) : k # g => s[k] = t[k]
  PROVE  d[Len(s)] = c[Len(s)] + t[g] - s[g]
<1> DEFINE n == Len(s)
           S == {k \in 0 .. n : d[k] = IF k < g THEN c[k] ELSE c[k] + t[g] - s[g]}
<1>1. n \in Nat /\ g \in 1 .. n /\ \A k \in 1 .. n : s[k] \in Int /\ t[k] \in Int
  OBVIOUS
<1>2. \A k \in 0 .. n : c[k] \in Int /\ d[k] \in Int
  BY DEF Sums
<1>3. \A k \in 1 .. n : c[k] = c[k - 1] + s[k] /\ d[k] = d[k - 1] + t[k]
  BY DEF Sums
<1>4. c[0] = 0 /\ d[0] = 0
  BY DEF Sums
<1>5. \A k \in 1 .. n : k # g => s[k] = t[k]
  OBVIOUS
<1> HIDE DEF n
<1>6. 0 \in S
  BY <1>1, <1>4
<1>7. ASSUME NEW k \in 1 .. n, k - 1 \in S PROVE k \in S
  <2>1. k \in 0 .. n /\ k - 1 \in 0 .. n
    BY <1>1
  <2>2. CASE k < g
    BY <1>1, <1>2, <1>3, <1>5, <1>7, <2>1, <2>2
  <2>3. CASE k = g
    BY <1>1, <1>2, <1>3, <1>7, <2>1, <2>3
  <2>4. CASE k > g
    <3>1. d[k - 1] = c[k - 1] + t[g] - s[g]
      BY <1>1, <1>7, <2>1, <2>4
    <3>2. s[k] = t[k] /\ c[k] = c[k - 1] + s[k] /\ d[k] = d[k - 1] + t[k]
      BY <1>1, <1>3, <1>5, <2>4
    <3>3. c[k - 1] \in Int /\ s[k] \in Int /\ s[g] \in Int /\ t[g] \in Int
      BY <1>1, <1>2, <2>1
    <3>4. d[k] = c[k] + t[g] - s[g]
      BY <3>1, <3>2, <3>3
    <3> QED BY <1>1, <2>1, <2>4, <3>4
  <2> QED BY <1>1, <2>2, <2>3, <2>4
<1>8. 0 .. n \subseteq S
  <2> HIDE DEF S
  <2> QED BY <1>1, <1>6, <1>7, Upward
<1>9. n \in S
  BY <1>1, <1>8
<1>. QED
  BY <1>1, <1>9 DEF n

\* A sum with one element changed.
LEMMA TotalChanged ==
  ASSUME NEW s \in Seq(Int), NEW t \in Seq(Int), Len(s) = Len(t), NEW g \in 1 .. Len(s),
         \A k \in 1 .. Len(s) : k # g => s[k] = t[k]
  PROVE  Total(t) = Total(s) + t[g] - s[g]
<1>1. PICK c : Sums(c, s) /\ Total(s) = c[Len(s)]
  BY TotalIs
<1>2. PICK d : Sums(d, t) /\ Total(t) = d[Len(t)]
  BY TotalIs
<1>3. d[Len(s)] = c[Len(s)] + t[g] - s[g]
  BY <1>1, <1>2, SumsDiffer
<1>. QED
  BY <1>1, <1>2, <1>3

\* A sum with one element more.
LEMMA TotalLonger ==
  ASSUME NEW s \in Seq(Int), NEW t \in Seq(Int), Len(t) = Len(s) + 1,
         \A k \in 1 .. Len(s) : s[k] = t[k]
  PROVE  Total(t) = Total(s) + t[Len(t)]
<1>1. PICK c : Sums(c, s) /\ Total(s) = c[Len(s)]
  BY TotalIs
<1>2. PICK d : Sums(d, t) /\ Total(t) = d[Len(t)]
  BY TotalIs
<1>3. Len(s) \in Nat /\ Len(t) \in Nat
  OBVIOUS
<1>4. \A k \in 0 .. Len(s) : c[k] = d[k]
  <2>1. Len(s) <= Len(s) /\ Len(s) <= Len(t) /\ Sums(c, s) /\ Sums(d, t)
    BY <1>1, <1>2, <1>3
  <2>2. \A k \in 1 .. Len(s) : s[k] = t[k]
    OBVIOUS
  <2> DEFINE m == Len(s)
  <2>3. m \in Nat /\ m <= Len(s) /\ m <= Len(t) /\ \A k \in 1 .. m : s[k] = t[k]
    BY <1>3, <2>1, <2>2
  <2> HIDE DEF m
  <2>4. \A k \in 0 .. m : c[k] = d[k]
    BY <2>1, <2>3, SumsAgree
  <2> QED BY <2>4 DEF m
<1>5. Len(t) \in 1 .. Len(t) /\ Len(t) - 1 = Len(s) /\ Len(s) \in 0 .. Len(s)
  BY <1>3
<1>6. d[Len(t)] = d[Len(t) - 1] + t[Len(t)]
  BY <1>2, <1>5 DEF Sums
<1>. QED
  BY <1>1, <1>2, <1>4, <1>5, <1>6

\* A sum of integers is one.
LEMMA TotalType ==
  ASSUME NEW s \in Seq(Int)
  PROVE  Total(s) \in Int
<1>1. PICK c : Sums(c, s) /\ Total(s) = c[Len(s)]
  BY TotalIs
<1>2. Len(s) \in 0 .. Len(s)
  OBVIOUS
<1>. QED
  BY <1>1, <1>2 DEF Sums

\* The same sequences, put end to end.
LEMMA FlattenType ==
  ASSUME NEW T, NEW ss \in Seq(Seq(T))
  PROVE  FlattenSeq(ss) \in Seq(T)
<1>1. PICK c : Concats(c, ss, T) /\ FlattenSeq(ss) = c[Len(ss)]
  BY FlattenIs
<1>2. Len(ss) \in 0 .. Len(ss)
  OBVIOUS
<1>. QED
  BY <1>1, <1>2 DEF Concats

\* Concatenations of sequences that agree on their first m elements agree there.
LEMMA ConcatsAgree ==
  ASSUME NEW T, NEW ss \in Seq(Seq(T)), NEW tt \in Seq(Seq(T)), NEW c, NEW d,
         Concats(c, ss, T), Concats(d, tt, T),
         NEW m \in Nat, m <= Len(ss), m <= Len(tt), \A k \in 1 .. m : ss[k] = tt[k]
  PROVE  \A k \in 0 .. m : c[k] = d[k]
<1> DEFINE S == {k \in 0 .. m : c[k] = d[k]}
<1>1. Len(ss) \in Nat /\ Len(tt) \in Nat
  OBVIOUS
<1>2. 0 \in S
  BY DEF Concats
<1>3. ASSUME NEW k \in 1 .. m, k - 1 \in S PROVE k \in S
  <2>1. k \in 1 .. Len(ss) /\ k \in 1 .. Len(tt) /\ k \in 0 .. m
    BY <1>1
  <2>2. c[k] = c[k - 1] \o ss[k] /\ d[k] = d[k - 1] \o tt[k]
    BY <2>1 DEF Concats
  <2> QED BY <1>3, <2>1, <2>2
<1>4. 0 .. m \subseteq S
  <2> HIDE DEF S
  <2> QED BY <1>2, <1>3, Upward
<1>. QED
  BY <1>4

\* One more sequence at the end.
LEMMA FlattenLonger ==
  ASSUME NEW T, NEW ss \in Seq(Seq(T)), NEW s \in Seq(T)
  PROVE  FlattenSeq(Append(ss, s)) = FlattenSeq(ss) \o s
<1> DEFINE tt == Append(ss, s)
           n == Len(ss)
<1>1. /\ tt \in Seq(Seq(T)) /\ n \in Nat /\ Len(tt) = n + 1 /\ tt[n + 1] = s
      /\ \A k \in 1 .. n : tt[k] = ss[k]
  BY AppendProperties
<1> HIDE DEF tt
<1>2. PICK c : Concats(c, ss, T) /\ FlattenSeq(ss) = c[n]
  BY FlattenIs
<1>3. PICK d : Concats(d, tt, T) /\ FlattenSeq(tt) = d[Len(tt)]
  BY <1>1, FlattenIs
<1>4. \A k \in 0 .. n : c[k] = d[k]
  <2>1. n <= Len(tt) /\ n <= Len(ss) /\ \A k \in 1 .. n : ss[k] = tt[k]
    BY <1>1
  <2>2. Concats(c, ss, T) /\ Concats(d, tt, T) /\ tt \in Seq(Seq(T)) /\ n \in Nat
    BY <1>1, <1>2, <1>3
  <2> HIDE DEF n
  <2> QED BY <2>1, <2>2, ConcatsAgree
<1>5. c[n] = d[n]
  BY <1>1, <1>4
<1>6. Len(tt) \in 1 .. Len(tt) /\ Len(tt) - 1 = n
  BY <1>1
<1>7. d[Len(tt)] = d[Len(tt) - 1] \o tt[Len(tt)]
  BY <1>3, <1>6 DEF Concats
<1>8. d[Len(tt)] = d[n] \o s
  BY <1>1, <1>6, <1>7
<1>. QED
  BY <1>2, <1>3, <1>5, <1>8 DEF tt

------------------------------------------------------------------------------
(* Places. *)

Lens(ss) == [k \in DOMAIN ss |-> Len(ss[k])]

\* The k-th sequence of ss comes after place e[k - 1] of b, up to place e[k].
Places(e, ss, b) ==
  /\ Sums(e, Lens(ss))
  /\ \A k \in 0 .. Len(ss) : e[k] \in Nat /\ e[k] <= Len(b)
  /\ \A k \in 1 .. Len(ss) :
       /\ e[k] = e[k - 1] + Len(ss[k])
       /\ \A j \in 1 .. Len(ss[k]) : b[e[k - 1] + j] = ss[k][j]

\* Two intervals from 1 with the same elements end alike.
LEMMA SameUpper ==
  ASSUME NEW m \in Nat, NEW n \in Nat, 1 .. m = 1 .. n
  PROVE  m = n
<1>1. (m > 0 => m \in 1 .. n) /\ (n > 0 => n \in 1 .. m)
  OBVIOUS
<1>. QED
  BY <1>1

\* The elements of two sequences put end to end.
LEMMA ConcatIs ==
  ASSUME NEW T, NEW s \in Seq(T), NEW t \in Seq(T)
  PROVE  /\ s \o t \in Seq(T)
         /\ Len(s) \in Nat /\ Len(t) \in Nat /\ Len(s \o t) = Len(s) + Len(t)
         /\ \A x \in 1 .. Len(s) : (s \o t)[x] = s[x]
         /\ \A x \in 1 .. Len(t) : (s \o t)[Len(s) + x] = t[x]
<1>1. Len(s) \in Nat /\ Len(t) \in Nat
  BY LenProperties
<1>2. /\ s \o t \in Seq(T) /\ Len(s \o t) = Len(s) + Len(t)
      /\ \A x \in 1 .. Len(s) + Len(t) :
           (s \o t)[x] = IF x <= Len(s) THEN s[x] ELSE t[x - Len(s)]
  BY ConcatProperties
<1>3. ASSUME NEW x \in 1 .. Len(s) PROVE (s \o t)[x] = s[x]
  <2>1. x \in 1 .. Len(s) + Len(t) /\ x <= Len(s)
    BY <1>1
  <2> QED BY <1>2, <2>1
<1>4. ASSUME NEW x \in 1 .. Len(t) PROVE (s \o t)[Len(s) + x] = t[x]
  <2>1. /\ Len(s) + x \in 1 .. Len(s) + Len(t) /\ ~(Len(s) + x <= Len(s))
        /\ Len(s) + x - Len(s) = x
    BY <1>1
  <2> QED BY <1>2, <2>1
<1>. QED
  BY <1>1, <1>2, <1>3, <1>4

\* The lengths of sequences are natural numbers.
LEMMA LensType ==
  ASSUME NEW T, NEW ss \in Seq(Seq(T))
  PROVE  /\ Lens(ss) \in Seq(Int) /\ Len(Lens(ss)) = Len(ss) /\ Len(ss) \in Nat
         /\ \A k \in 1 .. Len(ss) : Lens(ss)[k] = Len(ss[k]) /\ Len(ss[k]) \in Nat
<1>1. /\ Len(ss) \in Nat /\ DOMAIN ss = 1 .. Len(ss)
      /\ \A k \in 1 .. Len(ss) : ss[k] \in Seq(T)
  BY LenProperties, ElementOfSeq
<1>2. \A k \in 1 .. Len(ss) : Lens(ss)[k] = Len(ss[k]) /\ Len(ss[k]) \in Nat
  <2>1. \A s \in Seq(T) : Len(s) \in Nat
    OBVIOUS
  <2> QED BY <1>1, <2>1 DEF Lens
<1>3. Lens(ss) \in [1 .. Len(ss) -> Int]
  BY <1>1, <1>2 DEF Lens
<1>4. Lens(ss) \in Seq(Int)
  BY <1>1, <1>3, IsASeq
<1>5. Len(Lens(ss)) = Len(ss)
  <2>1. DOMAIN Lens(ss) = 1 .. Len(Lens(ss)) /\ Len(Lens(ss)) \in Nat
    BY <1>4, LenProperties
  <2>2. DOMAIN Lens(ss) = 1 .. Len(ss)
    BY <1>3
  <2> QED BY <1>1, <2>1, <2>2, SameUpper
<1>. QED
  BY <1>1, <1>2, <1>4, <1>5

\* Sequences put end to end are found at their places.
LEMMA PlacesAre ==
  ASSUME NEW T, NEW ss \in Seq(Seq(T))
  PROVE  \E e : /\ Places(e, ss, FlattenSeq(ss))
                /\ Len(FlattenSeq(ss)) = e[Len(ss)] /\ Total(Lens(ss)) = e[Len(ss)]
<1> DEFINE n == Len(ss)
<1>1. /\ Lens(ss) \in Seq(Int) /\ Len(Lens(ss)) = n /\ n \in Nat
      /\ \A k \in 1 .. n : Lens(ss)[k] = Len(ss[k]) /\ Len(ss[k]) \in Nat
  BY LensType
<1>2. PICK e : Sums(e, Lens(ss)) /\ Total(Lens(ss)) = e[Len(Lens(ss))]
  BY <1>1, TotalIs
<1>3. /\ \A k \in 0 .. n : e[k] \in Int
      /\ e[0] = 0 /\ \A k \in 1 .. n : e[k] = e[k - 1] + Len(ss[k])
  BY <1>1, <1>2 DEF Sums
<1>4. PICK c : Concats(c, ss, T) /\ FlattenSeq(ss) = c[n]
  BY FlattenIs
<1>5. /\ \A k \in 0 .. n : c[k] \in Seq(T)
      /\ c[0] = <<>> /\ \A k \in 1 .. n : c[k] = c[k - 1] \o ss[k]
  BY <1>4 DEF Concats
<1>6. \A k \in 1 .. n : ss[k] \in Seq(T)
  BY ElementOfSeq
<1> DEFINE S == {m \in 0 .. n : /\ Len(c[m]) = e[m] /\ e[m] \in Nat
                                /\ \A k \in 0 .. m : e[k] \in Nat /\ e[k] <= e[m]
                                /\ \A k \in 1 .. m : \A j \in 1 .. Len(ss[k]) :
                                     c[m][e[k - 1] + j] = ss[k][j]}
<1> HIDE DEF n
<1>7. 0 \in S
  <2>1. Len(c[0]) = 0 /\ 0 .. 0 = {0} /\ 1 .. 0 = {} /\ 0 \in 0 .. n
    BY <1>1, <1>5
  <2> QED BY <1>3, <2>1
<1>8. ASSUME NEW m \in 1 .. n, m - 1 \in S PROVE m \in S
  <2>1. /\ Len(c[m - 1]) = e[m - 1] /\ e[m - 1] \in Nat
        /\ \A k \in 0 .. m - 1 : e[k] \in Nat /\ e[k] <= e[m - 1]
        /\ \A k \in 1 .. m - 1 : \A j \in 1 .. Len(ss[k]) : c[m - 1][e[k - 1] + j] = ss[k][j]
    BY <1>8
  <2>2. m \in 0 .. n /\ m - 1 \in 0 .. n
    BY <1>1
  <2> DEFINE s == c[m - 1]
             t == ss[m]
  <2>a. s \in Seq(T) /\ t \in Seq(T) /\ c[m] = s \o t
    BY <1>5, <1>6, <2>2
  <2>b. e[m] = e[m - 1] + Len(t)
    BY <1>3
  <2>c. Len(s) = e[m - 1]
    BY <2>1
  <2> HIDE DEF s
  <2>3. /\ Len(s) \in Nat /\ Len(t) \in Nat /\ Len(c[m]) = Len(s) + Len(t)
        /\ \A x \in 1 .. Len(s) : c[m][x] = s[x]
        /\ \A x \in 1 .. Len(t) : c[m][Len(s) + x] = t[x]
    <3> HIDE DEF t
    <3> QED BY <2>a, ConcatIs
  <2>4. Len(c[m]) = e[m] /\ e[m] \in Nat /\ e[m - 1] <= e[m]
    BY <2>b, <2>c, <2>3
  <2>5. ASSUME NEW k \in 0 .. m PROVE e[k] \in Nat /\ e[k] <= e[m]
    <3>1. k = m \/ k \in 0 .. m - 1
      OBVIOUS
    <3> QED BY <2>1, <2>4, <3>1
  <2>6. ASSUME NEW k \in 1 .. m, NEW j \in 1 .. Len(ss[k]) PROVE c[m][e[k - 1] + j] = ss[k][j]
    <3>1. CASE k = m
      BY <2>c, <2>3, <3>1
    <3>2. CASE k # m
      <4>1. k \in 1 .. m - 1 /\ k \in 1 .. n /\ k - 1 \in 0 .. m - 1
        BY <1>1, <3>2
      <4>2. /\ e[k] \in Nat /\ e[k] <= e[m - 1] /\ e[k - 1] \in Nat
            /\ e[k] = e[k - 1] + Len(ss[k]) /\ Len(ss[k]) \in Nat
        BY <1>1, <1>3, <2>1, <4>1
      <4>3. e[k - 1] + j \in 1 .. Len(s)
        <5> DEFINE q == e[k - 1]
                   w == Len(ss[k])
                   z == Len(s)
        <5>1. q \in Nat /\ w \in Nat /\ z \in Nat /\ q + w <= z /\ j \in 1 .. w
          BY <2>c, <2>3, <4>2
        <5> HIDE DEF q, w, z
        <5>2. q + j \in 1 .. z
          BY <5>1
        <5> QED BY <5>2 DEF q, z
      <4>4. s[e[k - 1] + j] = ss[k][j]
        BY <2>1, <4>1 DEF s
      <4> QED BY <2>3, <4>3, <4>4
    <3> QED BY <3>1, <3>2
  <2> QED BY <2>2, <2>4, <2>5, <2>6
<1>9. 0 .. n \subseteq S
  <2> HIDE DEF S
  <2> QED BY <1>1, <1>7, <1>8, Upward
<1>10. /\ Len(c[n]) = e[n]
       /\ \A k \in 0 .. n : e[k] \in Nat /\ e[k] <= Len(c[n])
       /\ \A k \in 1 .. n : \A j \in 1 .. Len(ss[k]) : c[n][e[k - 1] + j] = ss[k][j]
  <2>1. n \in S
    <3> HIDE DEF S
    <3> QED BY <1>1, <1>9
  <2>2. /\ Len(c[n]) = e[n]
        /\ \A k \in 0 .. n : e[k] \in Nat /\ e[k] <= e[n]
        /\ \A k \in 1 .. n : \A j \in 1 .. Len(ss[k]) : c[n][e[k - 1] + j] = ss[k][j]
    BY <2>1
  <2> QED BY <2>2
<1>11. Places(e, ss, FlattenSeq(ss))
  BY <1>2, <1>3, <1>4, <1>10 DEF Places, n
<1>. QED
  BY <1>1, <1>2, <1>4, <1>10, <1>11 DEF n

\* s stands in b after place p.
Stands(s, b, p) == p + Len(s) <= Len(b) /\ \A j \in 1 .. Len(s) : b[p + j] = s[j]

\* What two sequences put end to end stand for.
LEMMA StandsApart ==
  ASSUME NEW T, NEW s \in Seq(T), NEW t \in Seq(T), NEW b \in Seq(T), NEW p \in Nat,
         Stands(s \o t, b, p)
  PROVE  /\ Stands(s, b, p) /\ Stands(t, b, p + Len(s))
         /\ s \o t \in Seq(T) /\ p + Len(s) \in Nat /\ Len(s \o t) = Len(s) + Len(t)
<1>1. /\ s \o t \in Seq(T) /\ Len(s) \in Nat /\ Len(t) \in Nat /\ Len(s \o t) = Len(s) + Len(t)
      /\ \A x \in 1 .. Len(s) : (s \o t)[x] = s[x]
      /\ \A x \in 1 .. Len(t) : (s \o t)[Len(s) + x] = t[x]
  BY ConcatIs
<1>2. Len(b) \in Nat
  BY LenProperties
<1> DEFINE u == s \o t
<1>3. p + Len(u) <= Len(b) /\ \A j \in 1 .. Len(u) : b[p + j] = u[j]
  BY DEF Stands
<1>4. /\ Len(u) = Len(s) + Len(t)
      /\ \A x \in 1 .. Len(s) : u[x] = s[x]
      /\ \A x \in 1 .. Len(t) : u[Len(s) + x] = t[x]
  BY <1>1
<1> HIDE DEF u
<1>5. p + Len(s) <= Len(b) /\ p + Len(s) + Len(t) <= Len(b)
  BY <1>1, <1>2, <1>3, <1>4
<1>6. ASSUME NEW j \in 1 .. Len(s) PROVE b[p + j] = s[j]
  <2>1. j \in 1 .. Len(u)
    BY <1>1, <1>4
  <2> QED BY <1>3, <1>4, <2>1
<1>7. ASSUME NEW j \in 1 .. Len(t) PROVE b[p + Len(s) + j] = t[j]
  <2>1. Len(s) + j \in 1 .. Len(u) /\ p + (Len(s) + j) = p + Len(s) + j
    BY <1>1, <1>4
  <2> QED BY <1>3, <1>4, <2>1
<1>8. Stands(s, b, p)
  BY <1>5, <1>6 DEF Stands
<1>9. Stands(t, b, p + Len(s))
  BY <1>5, <1>7 DEF Stands
<1>10. p + Len(s) \in Nat /\ Len(s \o t) = Len(s) + Len(t)
  BY <1>1
<1>. QED
  BY <1>1, <1>8, <1>9, <1>10

\* Sequences put end to end stand each at its place.
LEMMA StandsEach ==
  ASSUME NEW T, NEW ss \in Seq(Seq(T)), NEW b \in Seq(T), NEW p \in Nat, NEW e,
         Places(e, ss, FlattenSeq(ss)), Stands(FlattenSeq(ss), b, p), NEW k \in 1 .. Len(ss)
  PROVE  Stands(ss[k], b, p + e[k - 1]) /\ p + e[k - 1] \in Nat
<1> DEFINE u == FlattenSeq(ss)
<1>1. /\ u \in Seq(T) /\ Len(u) \in Nat /\ Len(b) \in Nat /\ Len(ss) \in Nat
      /\ k \in 0 .. Len(ss) /\ k - 1 \in 0 .. Len(ss)
  BY FlattenType, LenProperties
<1>2. /\ e[k - 1] \in Nat /\ e[k] \in Nat /\ e[k] <= Len(u)
      /\ e[k] = e[k - 1] + Len(ss[k])
      /\ \A j \in 1 .. Len(ss[k]) : u[e[k - 1] + j] = ss[k][j]
  BY <1>1 DEF Places
<1>3. Len(ss[k]) \in Nat
  BY ElementOfSeq, LenProperties
<1>4. p + Len(u) <= Len(b) /\ \A j \in 1 .. Len(u) : b[p + j] = u[j]
  BY DEF Stands
<1> HIDE DEF u
<1>5. p + e[k - 1] + Len(ss[k]) <= Len(b)
  <2> DEFINE q == e[k - 1]
             w == Len(ss[k])
  <2>1. q \in Nat /\ w \in Nat /\ q + w <= Len(u)
    BY <1>2, <1>3
  <2> HIDE DEF q, w
  <2>2. p + q + w <= Len(b)
    BY <1>1, <1>4, <2>1
  <2> QED BY <2>2 DEF q, w
<1>6. ASSUME NEW j \in 1 .. Len(ss[k]) PROVE b[p + e[k - 1] + j] = ss[k][j]
  <2> DEFINE l == Len(ss[k])
             a == e[k - 1]
  <2>1. j \in 1 .. l /\ l \in Nat /\ a \in Nat /\ a + l <= Len(u) /\ Len(u) \in Nat
    BY <1>1, <1>2, <1>3
  <2>2. a + j \in 1 .. Len(u) /\ p + (a + j) = p + a + j
    <3> HIDE DEF a, l
    <3> QED BY <2>1
  <2> QED BY <1>2, <1>4, <2>2
<1>. QED
  BY <1>2, <1>5, <1>6 DEF Stands

\* Sequences of one length w follow at multiples of w.
LEMMA EqualPlaces ==
  ASSUME NEW T, NEW ss \in Seq(Seq(T)), NEW b, NEW e, Places(e, ss, b), NEW w \in Nat,
         \A k \in 1 .. Len(ss) : Len(ss[k]) = w
  PROVE  \A k \in 0 .. Len(ss) : e[k] = w * k
<1> DEFINE n == Len(ss)
           S == {k \in 0 .. n : e[k] = w * k}
<1>1. n \in Nat
  BY LenProperties
<1>2. e[0] = 0 /\ \A k \in 1 .. n : e[k] = e[k - 1] + w
  BY DEF Places, Sums
<1> HIDE DEF n
<1>3. 0 \in S
  BY <1>1, <1>2
<1>4. ASSUME NEW k \in 1 .. n, k - 1 \in S PROVE k \in S
  <2>1. w * (k - 1) + w = w * k
    BY <1>1
  <2> QED BY <1>1, <1>2, <1>4, <2>1
<1>5. 0 .. n \subseteq S
  <2> HIDE DEF S
  <2> QED BY <1>1, <1>3, <1>4, Upward
<1>. QED
  BY <1>5 DEF n

------------------------------------------------------------------------------
(* Fields. *)

\* Two bytes read are the word written.
LEMMA WordRead ==
  ASSUME NEW v \in Words
  PROVE  /\ Word(v) \in Seq(Int) /\ Len(Word(v)) = 2
         /\ \A b, p : p \in Nat /\ Stands(Word(v), b, p) => At(b, p + 1) = v
<1>1. v % 256 \in Int /\ v \div 256 \in Int /\ (v % 256) + 256 * (v \div 256) = v
  BY DEF Words
<1>2. Word(v) \in Seq(Int) /\ Len(Word(v)) = 2 /\ Word(v)[1] = v % 256 /\ Word(v)[2] = v \div 256
  BY <1>1 DEF Word
<1>3. ASSUME NEW b, NEW p \in Nat, Stands(Word(v), b, p) PROVE At(b, p + 1) = v
  <2>1. \A j \in 1 .. 2 : b[p + j] = Word(v)[j]
    BY <1>2, <1>3 DEF Stands
  <2>2. b[p + 1] = v % 256 /\ b[p + 2] = v \div 256
    BY <1>2, <2>1
  <2>3. p + 1 + 1 = p + 2
    OBVIOUS
  <2> QED BY <1>1, <2>2, <2>3 DEF At
<1>. QED
  BY <1>2, <1>3

\* Words put end to end are read at every other place.
LEMMA WordsRead ==
  ASSUME NEW r \in Seq(Words)
  PROVE  LET ws == FlattenSeq([i \in DOMAIN r |-> Word(r[i])]) IN
         /\ ws \in Seq(Int) /\ Len(ws) = 2 * Len(r) /\ Len(r) \in Nat
         /\ \A b \in Seq(Int), p \in Nat : Stands(ws, b, p) =>
              \A k \in 1 .. Len(r) : At(b, p + 2 * k - 1) = r[k]
<1> DEFINE ss == [i \in DOMAIN r |-> Word(r[i])]
           n == Len(r)
<1>1. n \in Nat /\ DOMAIN r = 1 .. n /\ \A i \in 1 .. n : r[i] \in Words
  BY LenProperties, ElementOfSeq
<1>2. ss \in Seq(Seq(Int)) /\ Len(ss) = n /\ \A k \in 1 .. n : ss[k] = Word(r[k])
  <2>1. \A i \in 1 .. n : Word(r[i]) \in Seq(Int)
    BY <1>1, WordRead
  <2>2. ss = [i \in 1 .. n |-> Word(r[i])]
    BY <1>1
  <2> HIDE DEF n
  <2>3. ss \in [1 .. n -> Seq(Int)] /\ \A k \in 1 .. n : ss[k] = Word(r[k])
    BY <2>1, <2>2
  <2>4. ss \in Seq(Seq(Int))
    <3> HIDE DEF ss
    <3> QED BY <1>1, <2>3, SeqDef
  <2> HIDE DEF ss
  <2>5. DOMAIN ss = 1 .. Len(ss) /\ Len(ss) \in Nat /\ DOMAIN ss = 1 .. n
    BY <2>3, <2>4, LenProperties
  <2> QED BY <1>1, <2>3, <2>4, <2>5, SameUpper
<1> HIDE DEF ss
<1>3. PICK e : Places(e, ss, FlattenSeq(ss)) /\ Len(FlattenSeq(ss)) = e[Len(ss)]
  BY <1>2, PlacesAre
<1>4. \A k \in 1 .. n : Len(ss[k]) = 2
  BY <1>1, <1>2, WordRead
<1>5. \A k \in 0 .. n : e[k] = 2 * k
  <2>1. 2 \in Nat /\ Len(ss) = n /\ \A k \in 1 .. Len(ss) : Len(ss[k]) = 2
    BY <1>2, <1>4
  <2> HIDE DEF n
  <2>2. \A k \in 0 .. Len(ss) : e[k] = 2 * k
    <3> DEFINE f == FlattenSeq(ss)
    <3>1. Places(e, ss, f)
      BY <1>3
    <3>3. \A w \in Nat : (\A k \in 1 .. Len(ss) : Len(ss[k]) = w) =>
                        \A k \in 0 .. Len(ss) : e[k] = w * k
      <4> HIDE DEF f
      <4> QED BY <1>2, <3>1, EqualPlaces
    <3>2. ss \in Seq(Seq(Int)) /\ 2 \in Nat /\ \A k \in 1 .. Len(ss) : Len(ss[k]) = 2
      BY <1>2, <2>1
    <3> QED BY <3>2, <3>3
  <2> QED BY <2>1, <2>2
<1>6. FlattenSeq(ss) \in Seq(Int) /\ Len(FlattenSeq(ss)) = 2 * n
  <2>1. n \in 0 .. n
    BY <1>1
  <2> HIDE DEF n
  <2> QED BY <1>2, <1>3, <1>5, <2>1, FlattenType
<1>7. ASSUME NEW b \in Seq(Int), NEW p \in Nat, Stands(FlattenSeq(ss), b, p), NEW k \in 1 .. n
      PROVE  At(b, p + 2 * k - 1) = r[k]
  <2>1. Stands(ss[k], b, p + e[k - 1]) /\ p + e[k - 1] \in Nat
    BY <1>2, <1>3, <1>7, StandsEach
  <2>2. ss[k] = Word(r[k]) /\ r[k] \in Words
    BY <1>1, <1>2
  <2>3. At(b, p + e[k - 1] + 1) = r[k]
    BY <2>1, <2>2, WordRead
  <2>4. k - 1 \in 0 .. n /\ e[k - 1] = 2 * (k - 1)
    BY <1>1, <1>5
  <2>5. p + e[k - 1] + 1 = p + 2 * k - 1
    BY <1>1, <2>4
  <2> QED BY <2>3, <2>5
<1>. QED
  BY <1>1, <1>6, <1>7 DEF ss

\* A field of a message: a word if it is carried.
LEMMA FieldRead ==
  ASSUME NEW has \in BOOLEAN, NEW v, IF has THEN v \in Words ELSE v = Absent
  PROVE  LET f == If(has, Word(v)) IN
         /\ f \in Seq(Int) /\ Len(f) = IF has THEN 2 ELSE 0
         /\ \A b, p : p \in Nat /\ Stands(f, b, p) =>
              (IF has THEN At(b, p + 1) ELSE Absent) = v
<1>1. CASE has
  <2>1. If(has, Word(v)) = Word(v) /\ v \in Words
    BY <1>1 DEF If
  <2> QED BY <1>1, <2>1, WordRead
<1>2. CASE ~has
  <2>1. If(has, Word(v)) = <<>> /\ <<>> \in Seq(Int) /\ Len(<<>>) = 0
    BY <1>2, EmptySeq DEF If
  <2> QED BY <1>2, <2>1
<1>. QED
  BY <1>1, <1>2

\* A source route as it is written.
RouteBytes(r) == <<Len(r)>> \o FlattenSeq([i \in DOMAIN r |-> Word(r[i])])

\* A source route, if there is one.
LEMMA RouteRead ==
  ASSUME NEW has \in BOOLEAN, NEW r, has => r \in Seq(Words)
  PROVE  LET f == If(has, RouteBytes(r)) IN
         /\ f \in Seq(Int) /\ Len(f) = IF has THEN 1 + 2 * Len(r) ELSE 0
         /\ \A b \in Seq(Int), p \in Nat : Stands(f, b, p) /\ has =>
              /\ b[p + 1] = Len(r)
              /\ r = [k \in 1 .. b[p + 1] |-> At(b, p + 1 + 2 * k - 1)]
<1>1. CASE has
  <2> DEFINE ws == FlattenSeq([i \in DOMAIN r |-> Word(r[i])])
             l == <<Len(r)>>
  <2>1. r \in Seq(Words)
    BY <1>1
  <2>2. /\ ws \in Seq(Int) /\ Len(ws) = 2 * Len(r) /\ Len(r) \in Nat
        /\ \A b \in Seq(Int), p \in Nat : Stands(ws, b, p) =>
             \A k \in 1 .. Len(r) : At(b, p + 2 * k - 1) = r[k]
    BY <2>1, WordsRead
  <2>3. l \in Seq(Int) /\ Len(l) = 1 /\ l[1] = Len(r)
    BY <2>2
  <2>4. If(has, RouteBytes(r)) = l \o ws
    BY <1>1 DEF If, RouteBytes
  <2> HIDE DEF ws, l
  <2>5. l \o ws \in Seq(Int) /\ Len(l \o ws) = 1 + 2 * Len(r)
    <3>1. l \o ws \in Seq(Int) /\ Len(l \o ws) = Len(l) + Len(ws)
      BY <2>2, <2>3, ConcatIs
    <3> QED BY <2>2, <2>3, <3>1
  <2>6. ASSUME NEW b \in Seq(Int), NEW p \in Nat, Stands(l \o ws, b, p)
        PROVE  b[p + 1] = Len(r) /\ \A k \in 1 .. Len(r) : At(b, p + 1 + 2 * k - 1) = r[k]
    <3>1. Stands(l, b, p) /\ Stands(ws, b, p + Len(l)) /\ p + Len(l) \in Nat
      BY <2>2, <2>3, <2>6, StandsApart
    <3>2. Stands(ws, b, p + 1) /\ p + 1 \in Nat
      BY <2>3, <3>1
    <3>3. b[p + 1] = Len(r)
      <4>1. 1 \in 1 .. Len(l)
        BY <2>3
      <4>2. \A j \in 1 .. Len(l) : b[p + j] = l[j]
        BY <3>1 DEF Stands
      <4> QED BY <2>3, <4>1, <4>2
    <3> QED BY <2>2, <3>2, <3>3
  <2>7. r = [k \in 1 .. Len(r) |-> r[k]]
    BY <2>1, LenProperties
  <2>8. ASSUME NEW b \in Seq(Int), NEW p \in Nat, Stands(l \o ws, b, p)
        PROVE  b[p + 1] = Len(r) /\ r = [k \in 1 .. b[p + 1] |-> At(b, p + 1 + 2 * k - 1)]
    BY <2>6, <2>7, <2>8
  <2> QED BY <1>1, <2>4, <2>5, <2>8
<1>2. CASE ~has
  <2>1. If(has, RouteBytes(r)) = <<>> /\ <<>> \in Seq(Int) /\ Len(<<>>) = 0
    BY <1>2, EmptySeq DEF If
  <2> QED BY <1>2, <2>1
<1>. QED
  BY <1>1, <1>2

------------------------------------------------------------------------------
(* Messages. *)

Sound == {m \in MessageType : WellFormed(m)}

\* The fields of a message that encode does not refuse.
LEMMA MessageFacts ==
  ASSUME NEW m \in Sound
  PROVE  /\ m.mode \in 0 .. 6 /\ m.cls \in 0 .. 2 /\ m.port \in Int
         /\ m.payload \in Seq(Int) /\ Len(m.payload) \in Nat /\ Len(m.payload) <= 255
         /\ IF HasOrigin(m.mode) THEN m.origin \in Words ELSE m.origin = Absent
         /\ IF HasDest(m.mode) THEN m.dest \in Words ELSE m.dest = Absent
         /\ IF HasSequence(m.mode, m.cls) THEN m.seq \in Words ELSE m.seq = Absent
         /\ (m.seq # Absent) = HasSequence(m.mode, m.cls)
         /\ m.route # Absent =>
              m.route \in Seq(Words) /\ Len(m.route) <= ROUTE_MAX /\ m.mode \in ROUTED
<1>1. m \in MessageType /\ WellFormed(m)
  BY DEF Sound
<1>2. m.payload \in Seq(0 .. 255) /\ m.route \in Seq(Int) \cup {Absent}
  BY <1>1 DEF MessageType
<1>3. m.mode \in 0 .. 6 /\ m.cls \in 0 .. 2 /\ m.port \in Int /\ Len(m.payload) <= 255
  <2>1. m.mode \in 0 .. 6 /\ m.cls \in 0 .. 2 /\ Len(m.payload) <= 255
    BY <1>1 DEF WellFormed, FIRST_HOP
  <2>2. m.port \in Int
    BY <1>1 DEF MessageType
  <2> QED BY <2>1, <2>2
<1>4. /\ IF HasOrigin(m.mode) THEN m.origin \in Words ELSE m.origin = Absent
      /\ IF HasDest(m.mode) THEN m.dest \in Words ELSE m.dest = Absent
      /\ IF HasSequence(m.mode, m.cls) THEN m.seq \in Words ELSE m.seq = Absent
  BY <1>1 DEF WellFormed
<1>10. m.route # Absent =>
         m.mode \in ROUTED /\ Len(m.route) <= ROUTE_MAX
         /\ \A i \in DOMAIN m.route : m.route[i] \in Words
  BY <1>1 DEF WellFormed
<1>5. HasSequence(m.mode, m.cls) \in BOOLEAN
  BY DEF HasSequence
<1>6. (m.seq # Absent) = HasSequence(m.mode, m.cls)
  <2>1. \A v \in Words : v # Absent
    BY CodecAssumption DEF Words
  <2> QED BY <1>4, <1>5, <2>1
<1>7. m.payload \in Seq(Int) /\ Len(m.payload) \in Nat /\ Len(m.payload) <= 255
  <2>1. 0 .. 255 \subseteq Int
    OBVIOUS
  <2>2. m.payload \in Seq(Int)
    <3> DEFINE s == m.payload
    <3>1. s \in Seq(0 .. 255)
      BY <1>2
    <3> HIDE DEF s
    <3>2. \A B : B \subseteq Int /\ s \in Seq(B) => s \in Seq(Int)
      BY SeqMonotonic
    <3> QED BY <2>1, <3>1, <3>2 DEF s
  <2>3. Len(m.payload) \in Nat /\ Len(m.payload) <= 255
    BY <1>3, <2>2, LenProperties
  <2> QED BY <2>2, <2>3
<1>8. ASSUME m.route # Absent
      PROVE  m.route \in Seq(Words) /\ Len(m.route) <= ROUTE_MAX /\ m.mode \in ROUTED
  <2>1. m.route \in Seq(Int)
    BY <1>2, <1>8
  <2>2. /\ m.mode \in ROUTED /\ Len(m.route) <= ROUTE_MAX
        /\ \A i \in DOMAIN m.route : m.route[i] \in Words
    BY <1>8, <1>10
  <2>3. m.route \in [1 .. Len(m.route) -> Int] /\ Len(m.route) \in Nat
    BY <2>1, LenProperties
  <2>4. m.route \in [1 .. Len(m.route) -> Words]
    BY <2>2, <2>3
  <2>5. m.route \in Seq(Words)
    BY <2>3, <2>4, SeqDef
  <2> QED BY <2>2, <2>5
<1>. QED
  BY <1>3, <1>4, <1>6, <1>7, <1>8

------------------------------------------------------------------------------
(* The header of a frame. *)

\* Fields of a header, from its bytes.
LEMMA HeaderDigits ==
  ASSUME NEW epoch \in 0 .. 1, NEW version \in 0 .. 15, NEW counter \in Nat
  PROVE  LET v == 64 + 32 * epoch + 2 * version IN
         /\ v \div 64 = 1 /\ (v \div 2) % 16 = version
         /\ (IF Bit(v, 32) THEN 1 ELSE 0) = epoch
         /\ counter % 65536 \in Words /\ counter \div 65536 \in Int
         /\ (counter % 65536) + 65536 * (counter \div 65536) = counter
<1> DEFINE v == 64 + 32 * epoch + 2 * version
<1>1. v \in 64 .. 126
  OBVIOUS
<1>2. v \div 64 = 1
  <2> HIDE DEF v
  <2> QED BY <1>1
<1>3. (v \div 2) % 16 = version
  <2>1. v \div 2 = 32 + 16 * epoch + version
    OBVIOUS
  <2> HIDE DEF v
  <2> QED BY <2>1
<1>4. (v \div 32) % 2 = epoch
  <2>1. v \div 32 = 2 + epoch
    OBVIOUS
  <2> HIDE DEF v
  <2> QED BY <2>1
<1>5. counter % 65536 \in Words /\ counter \div 65536 \in Int
      /\ (counter % 65536) + 65536 * (counter \div 65536) = counter
  <2>1. /\ counter % 65536 \in Int /\ 0 <= counter % 65536 /\ counter % 65536 <= 65535
        /\ counter \div 65536 \in Int
    OBVIOUS
  <2>2. (counter % 65536) + 65536 * (counter \div 65536) = counter
    OBVIOUS
  <2>3. \A n \in Int : 0 <= n /\ n <= 65535 => n \in Words
    BY DEF Words
  <2> QED BY <2>1, <2>2, <2>3
<1>6. (IF Bit(v, 32) THEN 1 ELSE 0) = epoch
  <2> HIDE DEF v
  <2> QED BY <1>4 DEF Bit
<1>. QED
  BY <1>2, <1>3, <1>5, <1>6

HeaderType ==
  [dest : Words, source : Words, counter : Nat, rank : 0 .. 255, version : 0 .. 15, epoch : 0 .. 1]

\* The header written is read.
LEMMA HeaderRead ==
  ASSUME NEW h \in HeaderType
  PROVE  /\ EncodeHeader(h) \in Seq(Int) /\ Len(EncodeHeader(h)) = 9
         /\ \A b \in Seq(Int) : Len(b) \in OVERHEAD .. 255 /\ Stands(EncodeHeader(h), b, 0) =>
              DecodeHeader(b) = h
<1>1. /\ h.dest \in Words /\ h.source \in Words /\ h.counter \in Nat
      /\ h.rank \in 0 .. 255 /\ h.version \in 0 .. 15 /\ h.epoch \in 0 .. 1
      /\ h = [dest |-> h.dest, source |-> h.source, counter |-> h.counter,
              rank |-> h.rank, version |-> h.version, epoch |-> h.epoch]
  BY DEF HeaderType
<1> DEFINE v == 64 + 32 * h.epoch + 2 * h.version
           low == h.counter % 65536
           high == h.counter \div 65536
           wd == Word(h.dest)
           ws == Word(h.source)
           wl == Word(low)
           s1 == <<v>>
           s6 == <<high, h.rank>>
           s2 == s1 \o wd
           s3 == s2 \o ws
           s4 == s3 \o wl
<1>2. /\ v \div 64 = 1 /\ (v \div 2) % 16 = h.version
      /\ (IF Bit(v, 32) THEN 1 ELSE 0) = h.epoch
      /\ low \in Words /\ high \in Int /\ low + 65536 * high = h.counter
  BY <1>1, HeaderDigits
<1>3. v \in Int
  BY <1>1
<1>4. EncodeHeader(h) = s4 \o s6
  BY DEF EncodeHeader
<1> HIDE DEF v, low, high
<1>5. s1 \in Seq(Int) /\ Len(s1) = 1 /\ s1[1] = v
  BY <1>3
<1>6. s6 \in Seq(Int) /\ Len(s6) = 2 /\ s6[1] = high /\ s6[2] = h.rank
  BY <1>1, <1>2
<1>7. /\ wd \in Seq(Int) /\ Len(wd) = 2 /\ ws \in Seq(Int) /\ Len(ws) = 2
      /\ wl \in Seq(Int) /\ Len(wl) = 2
      /\ \A b, p : p \in Nat =>
           /\ Stands(wd, b, p) => At(b, p + 1) = h.dest
           /\ Stands(ws, b, p) => At(b, p + 1) = h.source
           /\ Stands(wl, b, p) => At(b, p + 1) = low
  <2>1. \A v2 \in Words :
          /\ Word(v2) \in Seq(Int) /\ Len(Word(v2)) = 2
          /\ \A b, p : p \in Nat => (Stands(Word(v2), b, p) => At(b, p + 1) = v2)
    BY WordRead
  <2>2. h.dest \in Words /\ h.source \in Words /\ low \in Words
    BY <1>1, <1>2
  <2> QED BY <2>1, <2>2
<1> HIDE DEF s1, s6, wd, ws, wl
<1>8. s2 \in Seq(Int) /\ Len(s2) = 3
  <2>1. s2 \in Seq(Int) /\ Len(s2) = Len(s1) + Len(wd)
    <3>1. s1 \in Seq(Int) /\ wd \in Seq(Int)
      BY <1>5, <1>7
    <3> QED BY <3>1, ConcatIs
  <2> QED BY <1>5, <1>7, <2>1
<1>13. s2 = s1 \o wd
  OBVIOUS
<1> HIDE DEF s2
<1>9. s3 \in Seq(Int) /\ Len(s3) = 5
  <2>1. s3 \in Seq(Int) /\ Len(s3) = Len(s2) + Len(ws)
    <3>1. s2 \in Seq(Int) /\ ws \in Seq(Int)
      BY <1>8, <1>7
    <3> QED BY <3>1, ConcatIs
  <2> QED BY <1>8, <1>7, <2>1
<1>14. s3 = s2 \o ws
  OBVIOUS
<1> HIDE DEF s3
<1>10. s4 \in Seq(Int) /\ Len(s4) = 7
  <2>1. s4 \in Seq(Int) /\ Len(s4) = Len(s3) + Len(wl)
    <3>1. s3 \in Seq(Int) /\ wl \in Seq(Int)
      BY <1>9, <1>7
    <3> QED BY <3>1, ConcatIs
  <2> QED BY <1>9, <1>7, <2>1
<1>15. s4 = s3 \o wl
  OBVIOUS
<1> HIDE DEF s4
<1>11. s4 \o s6 \in Seq(Int) /\ Len(s4 \o s6) = 9
  <2>1. s4 \o s6 \in Seq(Int) /\ Len(s4 \o s6) = Len(s4) + Len(s6)
    <3>1. s4 \in Seq(Int) /\ s6 \in Seq(Int)
      BY <1>10, <1>6
    <3> QED BY <3>1, ConcatIs
  <2> QED BY <1>10, <1>6, <2>1
<1>12. ASSUME NEW b \in Seq(Int), Len(b) \in OVERHEAD .. 255, Stands(s4 \o s6, b, 0)
       PROVE  DecodeHeader(b) = h
  <2>1. Stands(s4, b, 0) /\ Stands(s6, b, 7)
    <3>1. 0 \in Nat /\ 0 + Len(s4) = 7
      BY <1>10
    <3>2. Stands(s4, b, 0) /\ Stands(s6, b, 0 + Len(s4))
      BY <1>6, <1>10, <1>12, <3>1, StandsApart
    <3> QED BY <3>1, <3>2
  <2>2. Stands(s3, b, 0) /\ Stands(wl, b, 5)
    <3>1. 0 \in Nat /\ 0 + Len(s3) = 5 /\ Stands(s3 \o wl, b, 0)
      BY <1>9, <1>15, <2>1
    <3>2. Stands(s3, b, 0) /\ Stands(wl, b, 0 + Len(s3))
      BY <1>7, <1>9, <3>1, StandsApart
    <3> QED BY <3>1, <3>2
  <2>3. Stands(s2, b, 0) /\ Stands(ws, b, 3)
    <3>1. 0 \in Nat /\ 0 + Len(s2) = 3 /\ Stands(s2 \o ws, b, 0)
      BY <1>8, <1>14, <2>2
    <3>2. Stands(s2, b, 0) /\ Stands(ws, b, 0 + Len(s2))
      BY <1>7, <1>8, <3>1, StandsApart
    <3> QED BY <3>1, <3>2
  <2>4. Stands(s1, b, 0) /\ Stands(wd, b, 1)
    <3>1. 0 \in Nat /\ 0 + Len(s1) = 1 /\ Stands(s1 \o wd, b, 0)
      BY <1>5, <1>13, <2>3
    <3>2. Stands(s1, b, 0) /\ Stands(wd, b, 0 + Len(s1))
      BY <1>5, <1>7, <3>1, StandsApart
    <3> QED BY <3>1, <3>2
  <2>5. b[1] = v
    <3>1. \A j \in 1 .. Len(s1) : b[0 + j] = s1[j]
      BY <2>4 DEF Stands
    <3> QED BY <1>5, <3>1
  <2>6. b[8] = high /\ b[9] = h.rank
    <3>1. \A j \in 1 .. Len(s6) : b[7 + j] = s6[j]
      BY <2>1 DEF Stands
    <3>2. 1 \in 1 .. Len(s6) /\ 2 \in 1 .. Len(s6)
      BY <1>6
    <3>3. b[7 + 1] = s6[1] /\ b[7 + 2] = s6[2]
      BY <3>1, <3>2
    <3> QED BY <1>6, <3>3
  <2>7. At(b, 2) = h.dest /\ At(b, 4) = h.source /\ At(b, 6) = low
    <3> DEFINE i == 1
               j == 3
               k == 5
    <3>1. i \in Nat /\ j \in Nat /\ k \in Nat /\ i + 1 = 2 /\ j + 1 = 4 /\ k + 1 = 6
      OBVIOUS
    <3>2. Stands(wd, b, i) /\ Stands(ws, b, j) /\ Stands(wl, b, k)
      BY <2>2, <2>3, <2>4
    <3> HIDE DEF i, j, k
    <3>3. At(b, i + 1) = h.dest /\ At(b, j + 1) = h.source /\ At(b, k + 1) = low
      BY <1>7, <3>1, <3>2
    <3> QED BY <3>1, <3>3
  <2>8. DecodeHeader(b)
          = [epoch |-> IF Bit(b[1], 32) THEN 1 ELSE 0, version |-> (b[1] \div 2) % 16,
             dest |-> At(b, 2), source |-> At(b, 4), counter |-> At(b, 6) + 65536 * b[8],
             rank |-> b[9]]
    <3>1. b[1] \div 64 = 1
      BY <1>2, <2>5
    <3>2. ~(Len(b) \notin OVERHEAD .. 255) /\ ~(b[1] \div 64 # 1)
      BY <1>12, <3>1
    <3> DEFINE rec == [epoch |-> IF Bit(b[1], 32) THEN 1 ELSE 0, version |-> (b[1] \div 2) % 16,
                       dest |-> At(b, 2), source |-> At(b, 4),
                       counter |-> At(b, 6) + 65536 * b[8], rank |-> b[9]]
    <3>3. DecodeHeader(b) = IF Len(b) \notin OVERHEAD .. 255 THEN Fails("LENGTH")
                            ELSE IF b[1] \div 64 # 1 THEN Fails("VERSION") ELSE rec
      BY DEF DecodeHeader
    <3> HIDE DEF rec
    <3>4. DecodeHeader(b) = rec
      BY <3>2, <3>3
    <3> QED BY <3>4 DEF rec
  <2>9. At(b, 6) + 65536 * b[8] = h.counter
    BY <1>2, <2>6, <2>7
  <2>10. DecodeHeader(b)
          = [epoch |-> h.epoch, version |-> h.version, dest |-> h.dest, source |-> h.source,
             counter |-> h.counter, rank |-> h.rank]
    <3>1. (IF Bit(b[1], 32) THEN 1 ELSE 0) = h.epoch /\ (b[1] \div 2) % 16 = h.version
      BY <1>2, <2>5
    <3> DEFINE x == IF Bit(b[1], 32) THEN 1 ELSE 0
               y == (b[1] \div 2) % 16
               z == At(b, 6) + 65536 * b[8]
    <3>2. DecodeHeader(b) = [epoch |-> x, version |-> y, dest |-> At(b, 2), source |-> At(b, 4),
                             counter |-> z, rank |-> b[9]]
      BY <2>8
    <3>3. x = h.epoch /\ y = h.version /\ z = h.counter
      BY <2>9, <3>1
    <3> HIDE DEF x, y, z
    <3> QED BY <2>6, <2>7, <3>2, <3>3
  <2>11. [epoch |-> h.epoch, version |-> h.version, dest |-> h.dest, source |-> h.source,
          counter |-> h.counter, rank |-> h.rank] = h
    BY <1>1
  <2> QED BY <2>10, <2>11
<1>. QED
  BY <1>4, <1>11, <1>12

------------------------------------------------------------------------------
(* Elements. *)

\* A sequence that stands after place p is cut out from there.
LEMMA StandsRead ==
  ASSUME NEW T, NEW s \in Seq(T), NEW b \in Seq(T), NEW p \in Nat, Stands(s, b, p)
  PROVE  SubSeq(b, p + 1, p + Len(s)) = s
<1> DEFINE n == Len(s)
           u == SubSeq(b, p + 1, p + n)
<1>1. n \in Nat /\ Len(b) \in Nat
  BY LenProperties
<1>2. p + n <= Len(b) /\ \A j \in 1 .. n : b[p + j] = s[j]
  BY DEF Stands
<1> HIDE DEF n
<1>3. u \in Seq(T) /\ Len(u) = n /\ \A i \in 1 .. n : u[i] = b[p + 1 + i - 1]
  <2>1. /\ p + 1 \in 1 .. Len(b) + 1 /\ p + n \in p + 1 - 1 .. Len(b)
        /\ (p + n) - (p + 1) + 1 = n
    BY <1>1, <1>2
  <2>2. /\ SubSeq(b, p + 1, p + n) \in Seq(T)
        /\ Len(SubSeq(b, p + 1, p + n)) = IF p + 1 <= p + n THEN p + n - (p + 1) + 1 ELSE 0
        /\ \A i \in 1 .. p + n - (p + 1) + 1 : SubSeq(b, p + 1, p + n)[i] = b[p + 1 + i - 1]
    BY <2>1, SubSeqProperties
  <2> QED BY <1>1, <2>1, <2>2
<1> HIDE DEF u
<1>4. \A i \in 1 .. n : u[i] = s[i]
  <2>1. \A i \in 1 .. n : p + 1 + i - 1 = p + i
    BY <1>1
  <2> QED BY <1>2, <1>3, <2>1
<1>5. Len(u) = Len(s) /\ \A i \in 1 .. Len(u) : u[i] = s[i]
  BY <1>3, <1>4 DEF n
<1>6. u = s
  BY <1>3, <1>5, SeqEqual
<1>. QED
  BY <1>6 DEF u, n

\* The fields of a message and their places in its element.
Field1(m) == If(HasOrigin(m.mode), Word(m.origin))
Field2(m) == If(HasDest(m.mode), Word(m.dest))
Field3(m) == If(HasSequence(m.mode, m.cls), Word(m.seq))
Field4(m) == If(m.route # Absent, RouteBytes(m.route))

\* The four fields an element may carry before its payload: their sizes, and what is read of them.
LEMMA Fields ==
  ASSUME NEW m \in Sound
  PROVE  /\ Field1(m) \in Seq(Int) /\ Len(Field1(m)) = IF HasOrigin(m.mode) THEN 2 ELSE 0
         /\ Field2(m) \in Seq(Int) /\ Len(Field2(m)) = IF HasDest(m.mode) THEN 2 ELSE 0
         /\ Field3(m) \in Seq(Int) /\ Len(Field3(m)) = IF HasSequence(m.mode, m.cls) THEN 2 ELSE 0
         /\ Field4(m) \in Seq(Int)
         /\ Len(Field4(m)) = IF m.route = Absent THEN 0 ELSE 1 + 2 * Len(m.route)
         /\ m.route # Absent => Len(m.route) \in Nat /\ Len(m.route) <= ROUTE_MAX
         /\ m.payload \in Seq(Int) /\ Len(m.payload) \in Nat
         /\ Len(Field1(m)) \in Nat /\ Len(Field2(m)) \in Nat /\ Len(Field3(m)) \in Nat
         /\ Len(Field4(m)) \in Nat
         /\ \A b, p : p \in Nat =>
              /\ Stands(Field1(m), b, p) =>
                   (IF HasOrigin(m.mode) THEN At(b, p + 1) ELSE Absent) = m.origin
              /\ Stands(Field2(m), b, p) =>
                   (IF HasDest(m.mode) THEN At(b, p + 1) ELSE Absent) = m.dest
              /\ Stands(Field3(m), b, p) =>
                   (IF HasSequence(m.mode, m.cls) THEN At(b, p + 1) ELSE Absent) = m.seq
         /\ \A b \in Seq(Int), p \in Nat : Stands(Field4(m), b, p) /\ m.route # Absent =>
              /\ b[p + 1] = Len(m.route)
              /\ m.route = [k \in 1 .. b[p + 1] |-> At(b, p + 1 + 2 * k - 1)]
<1>1. /\ m.payload \in Seq(Int) /\ Len(m.payload) \in Nat
      /\ IF HasOrigin(m.mode) THEN m.origin \in Words ELSE m.origin = Absent
      /\ IF HasDest(m.mode) THEN m.dest \in Words ELSE m.dest = Absent
      /\ IF HasSequence(m.mode, m.cls) THEN m.seq \in Words ELSE m.seq = Absent
      /\ m.route # Absent =>
           m.route \in Seq(Words) /\ Len(m.route) <= ROUTE_MAX /\ m.mode \in ROUTED
  BY MessageFacts
<1>2. /\ HasOrigin(m.mode) \in BOOLEAN /\ HasDest(m.mode) \in BOOLEAN
      /\ HasSequence(m.mode, m.cls) \in BOOLEAN /\ (m.route # Absent) \in BOOLEAN
  BY DEF HasOrigin, HasDest, HasSequence
<1>3. /\ Field1(m) \in Seq(Int) /\ Len(Field1(m)) = IF HasOrigin(m.mode) THEN 2 ELSE 0
      /\ \A b, p : p \in Nat /\ Stands(Field1(m), b, p) =>
           (IF HasOrigin(m.mode) THEN At(b, p + 1) ELSE Absent) = m.origin
  BY <1>1, <1>2, FieldRead DEF Field1
<1>4. /\ Field2(m) \in Seq(Int) /\ Len(Field2(m)) = IF HasDest(m.mode) THEN 2 ELSE 0
      /\ \A b, p : p \in Nat /\ Stands(Field2(m), b, p) =>
           (IF HasDest(m.mode) THEN At(b, p + 1) ELSE Absent) = m.dest
  BY <1>1, <1>2, FieldRead DEF Field2
<1>5. /\ Field3(m) \in Seq(Int) /\ Len(Field3(m)) = IF HasSequence(m.mode, m.cls) THEN 2 ELSE 0
      /\ \A b, p : p \in Nat /\ Stands(Field3(m), b, p) =>
           (IF HasSequence(m.mode, m.cls) THEN At(b, p + 1) ELSE Absent) = m.seq
  BY <1>1, <1>2, FieldRead DEF Field3
<1>6. /\ Field4(m) \in Seq(Int)
      /\ Len(Field4(m)) = IF m.route # Absent THEN 1 + 2 * Len(m.route) ELSE 0
      /\ \A b \in Seq(Int), p \in Nat : Stands(Field4(m), b, p) /\ m.route # Absent =>
           /\ b[p + 1] = Len(m.route)
           /\ m.route = [k \in 1 .. b[p + 1] |-> At(b, p + 1 + 2 * k - 1)]
  <2>1. (m.route # Absent) \in BOOLEAN /\ (m.route # Absent => m.route \in Seq(Words))
    BY <1>1, <1>2
  <2> QED BY <2>1, RouteRead DEF Field4
<1>7. m.route # Absent => Len(m.route) \in Nat /\ Len(m.route) <= ROUTE_MAX
  BY <1>1, LenProperties
<1>8. \A s \in Seq(Int) : Len(s) \in Nat
  BY LenProperties
<1>. QED
  BY <1>1, <1>3, <1>4, <1>5, <1>6, <1>7, <1>8

\* Where the fields of an element stand, if it stands after place p.
LEMMA FieldsStand ==
  ASSUME NEW m \in Sound
  PROVE  /\ EncodeElement(m) \in Seq(Int) /\ Len(EncodeElement(m)) = ElementSize(m)
         /\ ElementSize(m) \in Nat
         /\ \A b \in Seq(Int), p \in Nat : Stands(EncodeElement(m), b, p) =>
              LET p2 == p + Len(Field1(m))
                  p3 == p2 + Len(Field2(m))
                  p4 == p3 + Len(Field3(m))
                  p5 == p4 + Len(Field4(m))
              IN  /\ p2 \in Nat /\ p3 \in Nat /\ p4 \in Nat /\ p5 \in Nat
                  /\ Stands(Field1(m), b, p) /\ Stands(Field2(m), b, p2)
                  /\ Stands(Field3(m), b, p3) /\ Stands(Field4(m), b, p4)
                  /\ Stands(m.payload, b, p5)
<1> DEFINE f1 == Field1(m)
           f2 == Field2(m)
           f3 == Field3(m)
           f4 == Field4(m)
           f5 == m.payload
<1>1. /\ f1 \in Seq(Int) /\ Len(f1) = IF HasOrigin(m.mode) THEN 2 ELSE 0
      /\ f2 \in Seq(Int) /\ Len(f2) = IF HasDest(m.mode) THEN 2 ELSE 0
      /\ f3 \in Seq(Int) /\ Len(f3) = IF HasSequence(m.mode, m.cls) THEN 2 ELSE 0
      /\ f4 \in Seq(Int) /\ Len(f4) = IF m.route = Absent THEN 0 ELSE 1 + 2 * Len(m.route)
      /\ m.route # Absent => Len(m.route) \in Nat
      /\ f5 \in Seq(Int)
  BY Fields
<1>2. (m.seq # Absent) = HasSequence(m.mode, m.cls)
  BY MessageFacts
<1>3. EncodeElement(m) = f1 \o f2 \o f3 \o f4 \o f5
  BY <1>2 DEF EncodeElement, Field1, Field2, Field3, Field4, RouteBytes
<1>4. ElementSize(m) = Len(f5) + Len(f1) + Len(f2) + Len(f3) + Len(f4)
  BY <1>1 DEF ElementSize
<1>5. Len(f1) \in Nat /\ Len(f2) \in Nat /\ Len(f3) \in Nat /\ Len(f4) \in Nat /\ Len(f5) \in Nat
  BY Fields
<1> HIDE DEF f1, f2, f3, f4, f5
<1> DEFINE s2 == f1 \o f2
           s3 == s2 \o f3
           s4 == s3 \o f4
<1>6. s2 \in Seq(Int) /\ Len(s2) = Len(f1) + Len(f2)
  BY <1>1, ConcatIs
<1>16. s2 = f1 \o f2
  OBVIOUS
<1> HIDE DEF s2
<1>7. s3 \in Seq(Int) /\ Len(s3) = Len(s2) + Len(f3)
  BY <1>1, <1>6, ConcatIs
<1>17. s3 = s2 \o f3
  OBVIOUS
<1> HIDE DEF s3
<1>8. s4 \in Seq(Int) /\ Len(s4) = Len(s3) + Len(f4)
  BY <1>1, <1>7, ConcatIs
<1>18. s4 = s3 \o f4
  OBVIOUS
<1> HIDE DEF s4
<1>9. s4 \o f5 \in Seq(Int) /\ Len(s4 \o f5) = Len(s4) + Len(f5)
  BY <1>1, <1>8, ConcatIs
<1>10. EncodeElement(m) = s4 \o f5
  BY <1>3, <1>16, <1>17, <1>18
<1>11. Len(EncodeElement(m)) = ElementSize(m) /\ ElementSize(m) \in Nat
  BY <1>4, <1>5, <1>6, <1>7, <1>8, <1>9, <1>10
<1>12. ASSUME NEW b \in Seq(Int), NEW p \in Nat, Stands(s4 \o f5, b, p)
       PROVE  LET p2 == p + Len(f1)
                  p3 == p2 + Len(f2)
                  p4 == p3 + Len(f3)
                  p5 == p4 + Len(f4)
              IN  /\ p2 \in Nat /\ p3 \in Nat /\ p4 \in Nat /\ p5 \in Nat
                  /\ Stands(f1, b, p) /\ Stands(f2, b, p2)
                  /\ Stands(f3, b, p3) /\ Stands(f4, b, p4) /\ Stands(f5, b, p5)
  <2> DEFINE p2 == p + Len(f1)
             p3 == p2 + Len(f2)
             p4 == p3 + Len(f3)
             p5 == p4 + Len(f4)
  <2>1. /\ p2 \in Nat /\ p3 \in Nat /\ p4 \in Nat /\ p5 \in Nat
        /\ p2 = p + Len(f1) /\ p3 = p + Len(s2) /\ p4 = p + Len(s3) /\ p5 = p + Len(s4)
    BY <1>5, <1>6, <1>7, <1>8
  <2> HIDE DEF p2, p3, p4, p5
  <2>2. Stands(s4, b, p) /\ Stands(f5, b, p5)
    BY <1>1, <1>8, <1>12, <2>1, StandsApart
  <2>3. Stands(s3, b, p) /\ Stands(f4, b, p4)
    BY <1>1, <1>7, <1>18, <2>1, <2>2, StandsApart
  <2>4. Stands(s2, b, p) /\ Stands(f3, b, p3)
    BY <1>1, <1>6, <1>17, <2>1, <2>3, StandsApart
  <2>5. Stands(f1, b, p) /\ Stands(f2, b, p2)
    BY <1>1, <1>16, <2>1, <2>4, StandsApart
  <2> QED BY <2>1, <2>2, <2>3, <2>4, <2>5 DEF p2, p3, p4, p5
<1>. QED
  BY <1>9, <1>10, <1>11, <1>12 DEF f1, f2, f3, f4, f5

\* What is read at place i: messages ms, up to a place.
Reads(ms, place) == [error |-> "none", messages |-> ms, next |-> place]

\* The header of a group tells what m has in common with it.
Heads(h, m) ==
  h.mode = m.mode /\ h.cls = m.cls /\ h.port = m.port /\ h.routed = (m.route # Absent)

\* An element that stands after place p is read: its group gives its length, or it ends b.
LEMMA ElementRead ==
  ASSUME NEW m \in Sound, NEW b \in Seq(Int), NEW p \in Nat, Stands(EncodeElement(m), b, p),
         NEW h, Heads(h, m),
         \/ h.length = Len(m.payload)
         \/ h.length = Absent /\ p + ElementSize(m) = Len(b)
  PROVE  Element(b, h, p + 1) = Reads(<<m>>, p + ElementSize(m) + 1)
<1> DEFINE L == ElementSize(m)
           dest == p + 1 + IF HasOrigin(h.mode) THEN 2 ELSE 0
           seq == dest + IF HasDest(h.mode) THEN 2 ELSE 0
           route == seq + IF HasSequence(h.mode, h.cls) THEN 2 ELSE 0
           payload == route + IF h.routed THEN 1 + 2 * b[route] ELSE 0
           end == IF h.length = Absent THEN Len(b) ELSE payload + h.length - 1
           word(has, place) == IF has THEN At(b, place) ELSE Absent
           r == [mode |-> h.mode, cls |-> h.cls, port |-> h.port,
                 payload |-> SubSeq(b, payload, end),
                 origin |-> word(HasOrigin(h.mode), p + 1), dest |-> word(HasDest(h.mode), dest),
                 seq |-> word(HasSequence(h.mode, h.cls), seq),
                 route |-> IF h.routed THEN [k \in 1 .. b[route] |-> At(b, route + 2 * k - 1)]
                           ELSE Absent]
           p2 == p + Len(Field1(m))
           p3 == p2 + Len(Field2(m))
           p4 == p3 + Len(Field3(m))
           p5 == p4 + Len(Field4(m))
<1>1. /\ h.mode = m.mode /\ h.cls = m.cls /\ h.port = m.port /\ h.routed = (m.route # Absent)
  BY DEF Heads
<1>2. /\ p2 \in Nat /\ p3 \in Nat /\ p4 \in Nat /\ p5 \in Nat
      /\ Stands(Field1(m), b, p) /\ Stands(Field2(m), b, p2)
      /\ Stands(Field3(m), b, p3) /\ Stands(Field4(m), b, p4) /\ Stands(m.payload, b, p5)
      /\ L \in Nat
  BY FieldsStand
<1>3. /\ Len(Field1(m)) = IF HasOrigin(m.mode) THEN 2 ELSE 0
      /\ Len(Field2(m)) = IF HasDest(m.mode) THEN 2 ELSE 0
      /\ Len(Field3(m)) = IF HasSequence(m.mode, m.cls) THEN 2 ELSE 0
      /\ Len(Field4(m)) = IF m.route = Absent THEN 0 ELSE 1 + 2 * Len(m.route)
      /\ m.route # Absent => Len(m.route) \in Nat /\ Len(m.route) <= ROUTE_MAX
      /\ m.payload \in Seq(Int) /\ Len(m.payload) \in Nat
      /\ Len(Field1(m)) \in Nat /\ Len(Field2(m)) \in Nat /\ Len(Field3(m)) \in Nat
      /\ Len(Field4(m)) \in Nat
  BY Fields
<1>4. L = Len(Field1(m)) + Len(Field2(m)) + Len(Field3(m)) + Len(Field4(m)) + Len(m.payload)
  <2> DEFINE l1 == Len(Field1(m))
             l2 == Len(Field2(m))
             l3 == Len(Field3(m))
             l4 == Len(Field4(m))
             l5 == Len(m.payload)
  <2>1. ElementSize(m) = l5 + l1 + l2 + l3 + l4
    BY <1>3, Zenon DEF ElementSize
  <2>2. l1 \in Nat /\ l2 \in Nat /\ l3 \in Nat /\ l4 \in Nat /\ l5 \in Nat
    BY <1>3
  <2> HIDE DEF l1, l2, l3, l4, l5
  <2>3. l5 + l1 + l2 + l3 + l4 = l1 + l2 + l3 + l4 + l5
    BY <2>2
  <2> QED BY <2>1, <2>3 DEF l1, l2, l3, l4, l5
<1>5. m.route # Absent =>
        /\ b[p4 + 1] = Len(m.route)
        /\ m.route = [k \in 1 .. b[p4 + 1] |-> At(b, p4 + 1 + 2 * k - 1)]
  BY <1>2, Fields
<1>6. dest = p2 + 1
  BY <1>1, <1>3
<1>7. seq = p3 + 1
  <2> HIDE DEF dest, p2
  <2> QED BY <1>1, <1>2, <1>3, <1>6
<1>8. route = p4 + 1
  <2> HIDE DEF dest, p2, seq, p3
  <2> QED BY <1>1, <1>2, <1>3, <1>7
<1>9. payload = p5 + 1
  <2> DEFINE l4 == Len(Field4(m))
  <2>1. (IF h.routed THEN 1 + 2 * b[route] ELSE 0) = l4
    <3> HIDE DEF p4, route
    <3>1. CASE m.route = Absent
      BY <1>1, <1>3, <3>1, Zenon
    <3>2. CASE m.route # Absent
      BY <1>1, <1>3, <1>5, <1>8, <3>2, Zenon
    <3> QED BY <3>1, <3>2
  <2>2. payload = route + l4 /\ p5 = p4 + l4
    BY <2>1, Zenon
  <2>3. l4 \in Nat /\ p4 \in Nat
    BY <1>2, <1>3
  <2> HIDE DEF payload, route, p4, p5, l4
  <2> QED BY <1>8, <2>2, <2>3
<1>10. p5 + Len(m.payload) = p + L /\ Len(b) \in Nat /\ p + L <= Len(b)
  <2> DEFINE l1 == Len(Field1(m))
             l2 == Len(Field2(m))
             l3 == Len(Field3(m))
             l4 == Len(Field4(m))
             l5 == Len(m.payload)
  <2>1. p5 + l5 <= Len(b) /\ Len(b) \in Nat
    BY <1>2, LenProperties DEF Stands
  <2>2. p5 = p + l1 + l2 + l3 + l4 /\ L = l1 + l2 + l3 + l4 + l5
    BY <1>4
  <2>3. l1 \in Nat /\ l2 \in Nat /\ l3 \in Nat /\ l4 \in Nat /\ l5 \in Nat
    BY <1>3
  <2>5. l5 = Len(m.payload)
    OBVIOUS
  <2> HIDE DEF l1, l2, l3, l4, l5, p5, L
  <2>4. p5 + l5 = p + L
    BY <2>2, <2>3
  <2> QED BY <2>1, <2>4, <2>5
<1>11. end = p + L
  <2>1. CASE h.length = Absent /\ p + ElementSize(m) = Len(b)
    BY <2>1
  <2>2. CASE h.length = Len(m.payload)
    <3> DEFINE l5 == Len(m.payload)
    <3>1. h.length # Absent /\ l5 \in Nat
      BY <1>3, <2>2, CodecAssumption
    <3>2. end = payload + l5 - 1
      BY <2>2, <3>1, Zenon
    <3>3. payload = p5 + 1 /\ p5 + l5 = p + L /\ p5 \in Nat
      BY <1>2, <1>9, <1>10
    <3> HIDE DEF payload, end, p5, L, l5
    <3> QED BY <3>1, <3>2, <3>3
  <2> QED BY <2>1, <2>2
<1>12. ~(route + (IF h.routed THEN 1 ELSE 0) > Len(b) + 1)
  <2> DEFINE l4 == Len(Field4(m))
             one == IF h.routed THEN 1 ELSE 0
  <2>1. p4 + l4 <= Len(b) /\ l4 \in Nat /\ p4 \in Nat /\ Len(b) \in Nat
    BY <1>2, <1>3, <1>10 DEF Stands
  <2>2. one <= l4 /\ one \in Nat
    <3>1. CASE m.route = Absent
      <4>1. l4 = 0 /\ one = 0
        BY <1>1, <1>3, <3>1
      <4> HIDE DEF l4, one
      <4> QED BY <4>1
    <3>2. CASE m.route # Absent
      <4> DEFINE l == Len(m.route)
      <4>1. l4 = 1 + 2 * l /\ l \in Nat /\ one = 1
        BY <1>1, <1>3, <3>2
      <4> HIDE DEF l4, l, one
      <4> QED BY <4>1
    <3> QED BY <3>1, <3>2
  <2> HIDE DEF route, p4, l4, one
  <2>3. ~(route + one > Len(b) + 1)
    BY <1>8, <2>1, <2>2
  <2> QED BY <2>3 DEF one
<1>13. ~(h.routed /\ TooLong(b[route]))
  <2> HIDE DEF route, p4
  <2>1. ASSUME m.route # Absent PROVE ~(b[route] > ROUTE_MAX)
    <3> DEFINE l == Len(m.route)
    <3>1. b[route] = l
      BY <1>5, <1>8, <2>1, Zenon
    <3>2. l \in Nat /\ l <= ROUTE_MAX
      BY <1>3, <2>1, Zenon
    <3>3. ROUTE_MAX \in Int
      BY CodecAssumption
    <3> HIDE DEF l
    <3> QED BY <3>1, <3>2, <3>3
  <2>2. h.routed => m.route # Absent
    BY <1>1, Zenon
  <2> HIDE DEF route
  <2>3. m.route # Absent => ~TooLong(b[route])
    BY <2>1 DEF TooLong
  <2> QED BY <2>2, <2>3, Zenon
<1>14. ~(payload > Len(b) + 1 \/ end > Len(b))
  <2> DEFINE l5 == Len(m.payload)
  <2>1. /\ payload = p5 + 1 /\ p5 \in Nat /\ end = p + L /\ Len(b) \in Nat /\ p + L <= Len(b)
        /\ p5 + l5 = p + L /\ l5 \in Nat
    BY <1>2, <1>3, <1>9, <1>10, <1>11
  <2> HIDE DEF payload, end, p5, L, l5
  <2> QED BY <2>1
<1>15. Element(b, h, p + 1) = [error |-> "none", next |-> end + 1, messages |-> <<r>>]
  BY <1>12, <1>13, <1>14, Zenon DEF Element
<1>16. r = m
  <2>1. SubSeq(b, payload, end) = m.payload
    <3>1. SubSeq(b, p5 + 1, p5 + Len(m.payload)) = m.payload
      <4> DEFINE pay == m.payload
      <4>1. pay \in Seq(Int) /\ p5 \in Nat /\ Stands(pay, b, p5)
        BY <1>2, <1>3
      <4> HIDE DEF p5, pay
      <4>2. SubSeq(b, p5 + 1, p5 + Len(pay)) = pay
        BY <4>1, StandsRead
      <4> QED BY <4>2 DEF pay
    <3> HIDE DEF payload, end, p5, L
    <3> QED BY <1>9, <1>10, <1>11, <3>1
  <2>2. word(HasOrigin(h.mode), p + 1) = m.origin
    <3>1. (IF HasOrigin(m.mode) THEN At(b, p + 1) ELSE Absent) = m.origin
      BY <1>2, Fields
    <3> QED BY <1>1, <3>1
  <2>3. word(HasDest(h.mode), dest) = m.dest
    <3>1. (IF HasDest(m.mode) THEN At(b, p2 + 1) ELSE Absent) = m.dest
      BY <1>2, Fields
    <3> HIDE DEF dest, p2
    <3> QED BY <1>1, <1>6, <3>1
  <2>4. word(HasSequence(h.mode, h.cls), seq) = m.seq
    <3>1. (IF HasSequence(m.mode, m.cls) THEN At(b, p3 + 1) ELSE Absent) = m.seq
      BY <1>2, Fields
    <3> HIDE DEF seq, p3
    <3> QED BY <1>1, <1>7, <3>1
  <2>5. (IF h.routed THEN [k \in 1 .. b[route] |-> At(b, route + 2 * k - 1)] ELSE Absent) = m.route
    <3> HIDE DEF route, p4
    <3> QED BY <1>1, <1>5, <1>8
  <2>6. m = [mode |-> m.mode, cls |-> m.cls, port |-> m.port, payload |-> m.payload,
             origin |-> m.origin, dest |-> m.dest, seq |-> m.seq, route |-> m.route]
    BY DEF Sound, MessageType
  <2> HIDE DEF dest, seq, route, payload, end, word
  <2> QED BY <1>1, <2>1, <2>2, <2>3, <2>4, <2>5, <2>6 DEF r
<1>17. end + 1 = p + ElementSize(m) + 1
  BY <1>11
<1> HIDE DEF r, end
<1>. QED
  BY <1>15, <1>16, <1>17 DEF Reads

------------------------------------------------------------------------------
(* Groups. *)

\* What was read, and what is read next, put end to end.
LEMMA ThenReads ==
  ASSUME NEW a, NEW c, NEW x, NEW y
  PROVE  Then(Reads(a, x), Reads(c, y)) = Reads(a \o c, y)
<1>1. /\ Reads(a, x).error = "none" /\ Reads(a, x).messages = a
      /\ Reads(c, y).error = "none" /\ Reads(c, y).messages = c
  BY DEF Reads
<1>3. ASSUME NEW d PROVE [Reads(c, y) EXCEPT !.messages = d] = Reads(d, y)
  BY DEF Reads
<1>2. Then(Reads(a, x), Reads(c, y))
        = [Reads(c, y) EXCEPT !.messages = Reads(a, x).messages \o Reads(c, y).messages]
  BY <1>1, Zenon DEF Then
<1>. QED
  BY <1>1, <1>2, <1>3, Zenon

\* The first k elements of s.
Take(s, k) == [j \in 1 .. k |-> s[j]]

\* The first elements of a sequence, one more at a time.
LEMMA TakeGrows ==
  ASSUME NEW T, NEW s \in Seq(T)
  PROVE  /\ Take(s, 0) = <<>> /\ Take(s, Len(s)) = s
         /\ \A k \in 1 .. Len(s) :
              /\ Take(s, k - 1) \in Seq(T) /\ Len(Take(s, k - 1)) = k - 1
              /\ Take(s, k - 1) \o <<s[k]>> = Take(s, k) /\ <<s[k]>> \in Seq(T)
<1> DEFINE n == Len(s)
<1>1. n \in Nat /\ s \in [1 .. n -> T] /\ \A k \in 1 .. n : s[k] \in T
  BY LenProperties, ElementOfSeq
<1>2. ASSUME NEW k \in 0 .. n PROVE Take(s, k) \in Seq(T) /\ Len(Take(s, k)) = k
  <2> DEFINE t == Take(s, k)
  <2>1. t \in [1 .. k -> T] /\ k \in Nat
    <3>1. 1 .. k \subseteq 1 .. n /\ k \in Nat
      BY <1>1
    <3> HIDE DEF n
    <3> QED BY <1>1, <3>1 DEF Take
  <2>2. t \in Seq(T)
    <3> HIDE DEF t
    <3> QED BY <2>1, SeqDef
  <2>3. DOMAIN t = 1 .. Len(t) /\ Len(t) \in Nat /\ DOMAIN t = 1 .. k
    <3> HIDE DEF t
    <3> QED BY <2>1, <2>2, LenProperties
  <2> HIDE DEF t
  <2>4. Len(t) = k
    BY <2>1, <2>3, SameUpper
  <2> QED BY <2>2, <2>4 DEF t
<1>3. Take(s, 0) = <<>>
  <2>1. Len(Take(s, 0)) = 0 /\ Take(s, 0) \in Seq(T)
    BY <1>1, <1>2
  <2> QED BY <2>1, EmptySeq
<1>4. Take(s, n) = s
  BY <1>1 DEF Take
<1>5. ASSUME NEW k \in 1 .. n
      PROVE  Take(s, k - 1) \o <<s[k]>> = Take(s, k) /\ <<s[k]>> \in Seq(T)
  <2> DEFINE u == Take(s, k - 1)
             v == <<s[k]>>
             w == Take(s, k)
  <2>1. k - 1 \in 0 .. n /\ k \in 0 .. n /\ s[k] \in T
    BY <1>1
  <2>2. u \in Seq(T) /\ Len(u) = k - 1 /\ w \in Seq(T) /\ Len(w) = k
    BY <1>2, <2>1
  <2>3. v \in Seq(T) /\ Len(v) = 1 /\ v[1] = s[k]
    BY <2>1
  <2>4. /\ \A j \in 1 .. k - 1 : u[j] = s[j]
        /\ \A j \in 1 .. k : w[j] = s[j]
    BY DEF Take
  <2> HIDE DEF u, v, w
  <2>5. /\ u \o v \in Seq(T) /\ Len(u \o v) = k
        /\ \A x \in 1 .. Len(u) : (u \o v)[x] = u[x]
        /\ \A x \in 1 .. Len(v) : (u \o v)[Len(u) + x] = v[x]
    <3>3. u \in Seq(T) /\ v \in Seq(T)
      BY <2>2, <2>3
    <3>1. /\ u \o v \in Seq(T) /\ Len(u \o v) = Len(u) + Len(v)
          /\ \A x \in 1 .. Len(u) : (u \o v)[x] = u[x]
          /\ \A x \in 1 .. Len(v) : (u \o v)[Len(u) + x] = v[x]
      BY <3>3, ConcatIs
    <3>2. Len(u \o v) = k
      BY <2>1, <2>2, <2>3, <3>1
    <3> QED BY <3>1, <3>2
  <2>6. ASSUME NEW j \in 1 .. k PROVE (u \o v)[j] = w[j]
    <3>1. CASE j = k
      <4>1. 1 \in 1 .. Len(v) /\ Len(u) + 1 = k
        BY <2>1, <2>2, <2>3
      <4>2. (u \o v)[Len(u) + 1] = v[1]
        BY <2>5, <4>1
      <4> QED BY <2>3, <2>4, <3>1, <4>1, <4>2
    <3>2. CASE j # k
      <4>1. j \in 1 .. k - 1 /\ j \in 1 .. Len(u)
        BY <2>1, <2>2, <3>2
      <4> QED BY <2>4, <2>5, <4>1
    <3> QED BY <3>1, <3>2
  <2>7. u \o v = w
    <3> DEFINE x == u \o v
    <3>1. x \in Seq(T) /\ Len(x) = Len(w) /\ \A j \in 1 .. Len(x) : x[j] = w[j]
      BY <2>2, <2>5, <2>6
    <3> HIDE DEF x
    <3>2. x = w
      BY <2>2, <3>1, SeqEqual
    <3> QED BY <3>2 DEF x
  <2> QED BY <2>3, <2>7 DEF u, v, w
<1>6. \A k \in 1 .. n : k - 1 \in 0 .. n
  BY <1>1
<1>. QED
  BY <1>2, <1>3, <1>4, <1>5, <1>6

\* The elements of a group, as bytes, and their sizes.
ElementsOf(g) == [i \in DOMAIN g |-> EncodeElement(g[i])]
SizesOf(g) == [i \in DOMAIN g |-> ElementSize(g[i])]

\* The elements of a group are sequences of bytes, of the sizes counted.
LEMMA ElementsSized ==
  ASSUME NEW g \in Seq(Sound)
  PROVE  /\ ElementsOf(g) \in Seq(Seq(Int)) /\ Len(ElementsOf(g)) = Len(g) /\ Len(g) \in Nat
         /\ \A k \in 1 .. Len(g) : /\ ElementsOf(g)[k] = EncodeElement(g[k]) /\ g[k] \in Sound
                                   /\ Len(ElementsOf(g)[k]) = ElementSize(g[k])
         /\ Lens(ElementsOf(g)) = SizesOf(g)
         /\ SizesOf(g) \in Seq(Int) /\ Len(SizesOf(g)) = Len(g)
<1> DEFINE n == Len(g)
           es == ElementsOf(g)
<1>1. n \in Nat /\ DOMAIN g = 1 .. n /\ \A k \in 1 .. n : g[k] \in Sound
  BY LenProperties, ElementOfSeq
<1>2. \A k \in 1 .. n : EncodeElement(g[k]) \in Seq(Int)
                        /\ Len(EncodeElement(g[k])) = ElementSize(g[k])
  BY <1>1, FieldsStand
<1>3. es \in [1 .. n -> Seq(Int)] /\ \A k \in 1 .. n : es[k] = EncodeElement(g[k])
  BY <1>1, <1>2 DEF ElementsOf
<1>4. es \in Seq(Seq(Int))
  <2> HIDE DEF es, n
  <2> QED BY <1>1, <1>3, SeqDef
<1>5. Len(es) = n
  <2> HIDE DEF es
  <2>1. DOMAIN es = 1 .. Len(es) /\ Len(es) \in Nat /\ DOMAIN es = 1 .. n
    BY <1>3, <1>4, LenProperties
  <2> HIDE DEF n
  <2> QED BY <1>1, <2>1, SameUpper
<1>6. Lens(es) = SizesOf(g)
  <2>1. DOMAIN es = 1 .. n
    BY <1>3
  <2>2. Lens(es) = [k \in 1 .. n |-> Len(es[k])]
    <3> HIDE DEF es, n
    <3> QED BY <2>1, Zenon DEF Lens
  <2>3. SizesOf(g) = [k \in 1 .. n |-> ElementSize(g[k])]
    <3> HIDE DEF n
    <3> QED BY <1>1, Zenon DEF SizesOf
  <2>4. \A k \in 1 .. n : Len(es[k]) = ElementSize(g[k])
    BY <1>2, <1>3
  <2> HIDE DEF es, n
  <2> QED BY <2>2, <2>3, <2>4
<1>7. Lens(es) \in Seq(Int) /\ Len(Lens(es)) = Len(es)
  <2> HIDE DEF es
  <2> QED BY <1>4, LensType
<1> HIDE DEF es
<1>8. SizesOf(g) \in Seq(Int) /\ Len(SizesOf(g)) = n
  BY <1>5, <1>6, <1>7
<1>9. \A k \in 1 .. n : Len(es[k]) = ElementSize(g[k])
  BY <1>2, <1>3
<1>. QED
  BY <1>1, <1>3, <1>4, <1>5, <1>6, <1>8, <1>9 DEF es

\* The headers of a group with header h, which starts after place p, fit its elements.
GroupFits(h, g, b, p) ==
  /\ h.next = p + 1 /\ h.count = Len(g)
  /\ \A j \in 1 .. Len(g) :
       Heads(h, g[j]) /\ \/ h.length = Len(g[j].payload)
                         \/ h.length = Absent /\ Len(g) = 1 /\ p + ElementSize(g[1]) = Len(b)

\* The elements of a group that stand after place p are read one after the other.
LEMMA ElementsRead ==
  ASSUME NEW g \in Seq(Sound), NEW b \in Seq(Int), NEW p \in Nat, NEW h, GroupFits(h, g, b, p),
         Stands(FlattenSeq(ElementsOf(g)), b, p)
  PROVE  Elements(b, h) = Reads(g, p + Total(SizesOf(g)) + 1)
<1> DEFINE n == Len(g)
           es == ElementsOf(g)
           Good(f) == f = [k \in 0 .. h.count |->
                             IF k = 0 THEN Start(h.next)
                             ELSE LET r == f[k - 1] IN Then(r, Element(b, h, r.next))]
           read == CHOOSE f : Good(f)
<1>1. /\ es \in Seq(Seq(Int)) /\ Len(es) = n /\ n \in Nat
      /\ \A k \in 1 .. n : /\ es[k] = EncodeElement(g[k]) /\ g[k] \in Sound
                           /\ Len(es[k]) = ElementSize(g[k])
      /\ Lens(es) = SizesOf(g)
  BY ElementsSized
<1> HIDE DEF es
<1>2. PICK e : /\ Places(e, es, FlattenSeq(es)) /\ Len(FlattenSeq(es)) = e[Len(es)]
               /\ Total(Lens(es)) = e[Len(es)]
  BY <1>1, PlacesAre
<1>3. /\ e[0] = 0 /\ \A k \in 0 .. n : e[k] \in Nat
      /\ \A k \in 1 .. n : e[k] = e[k - 1] + ElementSize(g[k])
  BY <1>1, <1>2 DEF Places, Sums
<1>4. h.next = p + 1 /\ h.count = n
  BY DEF GroupFits
<1> DEFINE f == [k \in 0 .. n |-> Reads(Take(g, k), p + e[k] + 1)]
<1>5. /\ Take(g, 0) = <<>> /\ Take(g, n) = g
      /\ \A k \in 1 .. n : Take(g, k - 1) \o <<g[k]>> = Take(g, k)
  BY TakeGrows
<1>6. f[0] = Start(h.next)
  <2>1. Reads(<<>>, p + 0 + 1) = Start(p + 1)
    BY DEF Reads, Start
  <2> QED BY <1>1, <1>3, <1>4, <1>5, <2>1
<1>7. ASSUME NEW k \in 1 .. n
      PROVE  f[k] = Then(f[k - 1], Element(b, h, f[k - 1].next))
  <2> DEFINE q == p + e[k - 1]
  <2>1. k - 1 \in 0 .. n /\ k \in 0 .. n /\ q \in Nat
    <3>1. k - 1 \in 0 .. n /\ k \in 0 .. n
      BY <1>1
    <3>2. e[k - 1] \in Nat
      BY <1>3, <3>1
    <3> QED BY <3>1, <3>2
  <2>2. Stands(es[k], b, q)
    <3>1. k \in 1 .. Len(es) /\ Stands(FlattenSeq(es), b, p)
      BY <1>1 DEF es
    <3> QED BY <1>1, <1>2, <3>1, StandsEach
  <2>3. f[k - 1] = Reads(Take(g, k - 1), q + 1)
    BY <2>1
  <2>4. Heads(h, g[k]) /\ \/ h.length = Len(g[k].payload)
                          \/ h.length = Absent /\ q + ElementSize(g[k]) = Len(b)
    <3>1. Heads(h, g[k]) /\ \/ h.length = Len(g[k].payload)
                            \/ h.length = Absent /\ n = 1 /\ p + ElementSize(g[1]) = Len(b)
      BY DEF GroupFits
    <3>2. n = 1 => k = 1 /\ q = p
      BY <1>3
    <3> HIDE DEF n, q
    <3> QED BY <3>1, <3>2
  <2>5. Element(b, h, q + 1) = Reads(<<g[k]>>, q + ElementSize(g[k]) + 1)
    <3> HIDE DEF q
    <3>1. g[k] \in Sound /\ Stands(EncodeElement(g[k]), b, q)
      BY <1>1, <2>2
    <3> QED BY <2>1, <2>4, <3>1, ElementRead
  <2>6. Then(f[k - 1], Element(b, h, q + 1)) = Reads(Take(g, k), q + ElementSize(g[k]) + 1)
    <3>1. Then(Reads(Take(g, k - 1), q + 1), Reads(<<g[k]>>, q + ElementSize(g[k]) + 1))
            = Reads(Take(g, k - 1) \o <<g[k]>>, q + ElementSize(g[k]) + 1)
      BY ThenReads
    <3> HIDE DEF f, q
    <3> QED BY <1>5, <2>3, <2>5, <3>1, Zenon
  <2>7. q + ElementSize(g[k]) = p + e[k]
    <3>1. p \in Nat /\ e[k - 1] \in Nat /\ e[k] \in Nat /\ e[k] = e[k - 1] + ElementSize(g[k])
      BY <1>3, <2>1
    <3>2. ElementSize(g[k]) \in Nat
      BY <1>1, FieldsStand
    <3> QED BY <3>1, <3>2
  <2>8. f[k] = Reads(Take(g, k), p + e[k] + 1)
    BY <2>1
  <2>9. f[k - 1].next = q + 1
    BY <2>3 DEF Reads
  <2> HIDE DEF f, q
  <2> QED BY <2>6, <2>7, <2>8, <2>9
<1>8. Good(f)
  <2>1. DOMAIN f = 0 .. h.count /\ f = [k \in 0 .. h.count |-> f[k]]
    BY <1>4
  <2> HIDE DEF f, n
  <2>2. \A k \in 0 .. h.count : f[k] = IF k = 0 THEN Start(h.next)
                                       ELSE Then(f[k - 1], Element(b, h, f[k - 1].next))
    BY <1>1, <1>4, <1>6, <1>7
  <2> QED BY <2>1, <2>2, Zenon
<1>9. Good(read)
  <2> HIDE DEF Good, f
  <2> QED BY <1>8
<1>10. /\ read[0] = Start(h.next)
       /\ \A k \in 1 .. n : read[k] = Then(read[k - 1], Element(b, h, read[k - 1].next))
  <2> HIDE DEF read, f
  <2>1. /\ \A k \in 0 .. h.count : read[k] = IF k = 0 THEN Start(h.next)
                                       ELSE Then(read[k - 1], Element(b, h, read[k - 1].next))
    BY <1>9, Zenon
  <2>2. 0 \in 0 .. h.count /\ \A k \in 1 .. n : k \in 0 .. h.count /\ k # 0
    BY <1>1, <1>4
  <2> QED BY <2>1, <2>2, Zenon
<1>11. \A k \in 0 .. n : read[k] = f[k]
  <2> DEFINE S == {k \in 0 .. n : read[k] = f[k]}
  <2> HIDE DEF f, read, Good
  <2>1. 0 \in S
    <3>1. 0 \in 0 .. n
      BY <1>1
    <3> QED BY <1>6, <1>10, <3>1
  <2>2. ASSUME NEW k \in 1 .. n, k - 1 \in S PROVE k \in S
    <3>1. k \in 0 .. n
      BY <1>1
    <3> QED BY <1>7, <1>10, <2>2, <3>1, Zenon
  <2>3. 0 .. n \subseteq S
    <3> HIDE DEF S, n
    <3> QED BY <1>1, <2>1, <2>2, Upward
  <2> QED BY <2>3
<1> DEFINE stop == CHOOSE k \in 0 .. h.count : k = h.count \/ read[k].error # "none"
\* No element fails: the reading stops after the last one.
<1>12. Elements(b, h) = read[h.count]
  <2>1. Elements(b, h) = read[stop]
    BY Zenon DEF Elements
  <2>2. stop \in 0 .. h.count /\ (stop = h.count \/ read[stop].error # "none")
    <3>1. h.count \in 0 .. h.count
      BY <1>1, <1>4
    <3> HIDE DEF read, f, Good
    <3> QED BY <3>1, Zenon
  <2>3. \A k \in 0 .. n : read[k].error = "none"
    <3>1. \A k \in 0 .. n : f[k].error = "none"
      BY DEF Reads
    <3> HIDE DEF read, f, Good
    <3> QED BY <1>11, <3>1, Zenon
  <2> HIDE DEF read, f, Good, stop
  <2> QED BY <1>4, <2>1, <2>2, <2>3, Zenon
<1>13. f[n] = Reads(g, p + Total(SizesOf(g)) + 1)
  <2>1. n \in 0 .. n /\ e[n] = Total(SizesOf(g))
    BY <1>1, <1>2
  <2> QED BY <1>5, <2>1
<1>. QED
  <2>1. n \in 0 .. n
    BY <1>1
  <2> HIDE DEF f, read, Good
  <2> QED BY <1>4, <1>11, <1>12, <1>13, <2>1

\* The fields of a control byte.
ControlByte(mode, cls, x, y, z) == 32 * mode + 8 * cls + x + y + z

\* The parts of the control byte are read back.
LEMMA ControlRead ==
  ASSUME NEW mode, NEW cls, NEW x, NEW y, NEW z,
         mode \in 0 .. 6, cls \in 0 .. 2, x \in {0, 4}, y \in {0, 2}, z \in {0, 1}
  PROVE  LET c == ControlByte(mode, cls, x, y, z) IN
         /\ c \in Int /\ c \div 32 = mode /\ (c \div 8) % 4 = cls
         /\ (Bit(c, 4) <=> x = 4) /\ (Bit(c, 2) <=> y = 2) /\ (Bit(c, 1) <=> z = 1)
<1> DEFINE c == ControlByte(mode, cls, x, y, z)
<1>1. x \in {0, 4} /\ y \in {0, 2} /\ z \in {0, 1} /\ c = 32 * mode + 8 * cls + x + y + z
  BY DEF ControlByte
<1> HIDE DEF c
<1>3. c \in Int /\ c \div 32 = mode
  BY <1>1
<1>4. (c \div 8) % 4 = cls
  <2>1. c \div 8 = 4 * mode + cls
    BY <1>1
  <2> QED BY <2>1
<1>5. ((c \div 4) % 2 = 1) = (x = 4)
  <2>1. CASE x = 0
    <3>1. c \div 4 = 8 * mode + 2 * cls
      BY <1>1, <2>1
    <3>2. (c \div 4) % 2 = 0
      BY <3>1
    <3> QED BY <2>1, <3>2
  <2>2. CASE x = 4
    <3>1. c \div 4 = 8 * mode + 2 * cls + 1
      BY <1>1, <2>2
    <3>2. (c \div 4) % 2 = 1
      BY <3>1
    <3> QED BY <2>2, <3>2
  <2> QED BY <1>1, <2>1, <2>2
<1>6. ((c \div 2) % 2 = 1) = (y = 2)
  <2>1. CASE y = 0
    <3>1. c \div 2 = 2 * (8 * mode + 2 * cls + x \div 4)
      BY <1>1, <2>1
    <3> DEFINE e == 8 * mode + 2 * cls + x \div 4
    <3>2. e \in Int
      BY <1>1
    <3> HIDE DEF e
    <3>3. (c \div 2) % 2 = 0
      BY <3>1, <3>2 DEF e
    <3> QED BY <2>1, <3>3
  <2>2. CASE y = 2
    <3>1. c \div 2 = 2 * (8 * mode + 2 * cls + x \div 4) + 1
      BY <1>1, <2>2
    <3> DEFINE e == 8 * mode + 2 * cls + x \div 4
    <3>2. e \in Int
      BY <1>1
    <3> HIDE DEF e
    <3>3. (c \div 2) % 2 = 1
      BY <3>1, <3>2 DEF e
    <3> QED BY <2>2, <3>3
  <2> QED BY <1>1, <2>1, <2>2
<1>7. ((c \div 1) % 2 = 1) = (z = 1)
  <2> DEFINE e == 16 * mode + 4 * cls + x \div 2 + y \div 2
  <2>1. e \in Int /\ c = 2 * e + z
    BY <1>1
  <2> HIDE DEF e
  <2>2. c \div 1 = c
    BY <1>1, <2>1
  <2>3. CASE z = 0
    <3>1. c % 2 = 0
      BY <2>1, <2>3
    <3> QED BY <2>2, <2>3, <3>1
  <2>4. CASE z = 1
    <3>1. c % 2 = 1
      BY <2>1, <2>4
    <3> QED BY <2>2, <2>4, <3>1
  <2> QED BY <1>1, <2>3, <2>4
<1>8. (Bit(c, 4) <=> x = 4) /\ (Bit(c, 2) <=> y = 2) /\ (Bit(c, 1) <=> z = 1)
  BY <1>5, <1>6, <1>7 DEF Bit
<1>. QED
  BY <1>3, <1>4, <1>8 DEF c

\* Messages that one group header stands for.
Uniform(g) ==
  /\ g \in Seq(Sound) /\ g # <<>> /\ Len(g) <= GROUP_MAX
  /\ \A j \in 1 .. Len(g) : SameGroup(g[1], g[j])

\* The control byte of a group, and the bytes before its elements.
Control(g, last) ==
  32 * g[1].mode + 8 * g[1].cls + (IF g[1].route = Absent THEN 0 ELSE 4)
  + (IF Len(g) > 1 THEN 2 ELSE 0) + IF last THEN 1 ELSE 0
Opening(g, last) == <<Control(g, last), g[1].port>> \o Length(g, last)

\* What holds of the messages of a group.
LEMMA UniformFacts ==
  ASSUME NEW g, Uniform(g)
  PROVE  /\ g \in Seq(Sound) /\ Len(g) \in Nat /\ 1 <= Len(g) /\ Len(g) <= GROUP_MAX
         /\ g[1] \in Sound /\ \A j \in 1 .. Len(g) : g[j] \in Sound /\ SameGroup(g[1], g[j])
<1>1. g \in Seq(Sound) /\ g # <<>> /\ Len(g) <= GROUP_MAX
      /\ \A j \in 1 .. Len(g) : SameGroup(g[1], g[j])
  BY DEF Uniform
<1>2. Len(g) \in Nat /\ Len(g) # 0 /\ \A j \in 1 .. Len(g) : g[j] \in Sound
  BY <1>1, EmptySeq, LenProperties, ElementOfSeq
<1>3. 1 <= Len(g) /\ 1 \in 1 .. Len(g)
  BY <1>2
<1>. QED
  BY <1>1, <1>2, <1>3

\* The bytes before the elements of a group.
LEMMA HeadIs ==
  ASSUME NEW g, Uniform(g), NEW last \in BOOLEAN
  PROVE  /\ Opening(g, last) \in Seq(Int) /\ Len(Opening(g, last)) = HeaderBytes(Len(g), last)
         /\ 2 + Len(Length(g, last)) = HeaderBytes(Len(g), last)
         /\ \A b, p : p \in Nat /\ Stands(Opening(g, last), b, p) =>
              /\ b[p + 1] = Control(g, last) /\ b[p + 2] = g[1].port
              /\ Len(g) > 1 => b[p + 3] = Len(g[1].payload) /\ b[p + 4] = Len(g)
              /\ Len(g) = 1 /\ ~last => b[p + 3] = Len(g[1].payload)
<1> DEFINE c == Control(g, last)
           q == g[1].port
           l == Len(g[1].payload)
           n == Len(g)
           u == <<c, q>>
           v == Length(g, last)
<1>1. n \in Nat /\ 1 <= n /\ g[1] \in Sound
  BY UniformFacts
<1>2. l \in Int /\ q \in Int /\ g[1].mode \in 0 .. 6 /\ g[1].cls \in 0 .. 2
  <2>1. l \in Nat
    BY <1>1, Fields
  <2>2. q \in Int /\ g[1].mode \in 0 .. 6 /\ g[1].cls \in 0 .. 2
    BY <1>1, MessageFacts
  <2> QED BY <2>1, <2>2
<1>3. c \in Int
  <2> DEFINE i == g[1].mode
             j == g[1].cls
             x == IF g[1].route = Absent THEN 0 ELSE 4
             y == IF Len(g) > 1 THEN 2 ELSE 0
             z == IF last THEN 1 ELSE 0
  <2>1. i \in Int /\ j \in Int /\ x \in Int /\ y \in Int /\ z \in Int
    BY <1>2
  <2>2. c = 32 * i + 8 * j + x + y + z
    BY DEF Control
  <2> HIDE DEF i, j, x, y, z, c
  <2> QED BY <2>1, <2>2
<1>4. u \in Seq(Int) /\ Len(u) = 2 /\ u[1] = c /\ u[2] = q
  BY <1>2, <1>3
<1>5. v = IF n > 1 THEN <<l, n>> ELSE IF last THEN <<>> ELSE <<l>>
  BY DEF Length, If
<1> HIDE DEF c, q, l, n, u, v
<1>6. /\ v \in Seq(Int) /\ Len(v) \in Nat /\ 2 + Len(v) = HeaderBytes(n, last)
      /\ n > 1 => Len(v) = 2 /\ v[1] = l /\ v[2] = n
      /\ n = 1 /\ ~last => Len(v) = 1 /\ v[1] = l
  <2>1. CASE n > 1
    <3>1. v = <<l, n>>
      BY <1>5, <2>1
    <3>2. v \in Seq(Int) /\ Len(v) = 2 /\ v[1] = l /\ v[2] = n
      BY <1>1, <1>2, <3>1
    <3> QED BY <1>1, <2>1, <3>2 DEF HeaderBytes
  <2>2. CASE ~(n > 1) /\ last
    <3>1. v = <<>> /\ <<>> \in Seq(Int) /\ Len(<<>>) = 0
      BY <1>5, <2>2, EmptySeq
    <3> QED BY <2>2, <3>1 DEF HeaderBytes
  <2>3. CASE ~(n > 1) /\ ~last
    <3>1. v = <<l>>
      BY <1>5, <2>3
    <3>2. v \in Seq(Int) /\ Len(v) = 1 /\ v[1] = l
      BY <1>2, <3>1
    <3> QED BY <1>1, <2>3, <3>2 DEF HeaderBytes
  <2> QED BY <2>1, <2>2, <2>3
<1>7. /\ u \o v \in Seq(Int) /\ Len(u \o v) = Len(u) + Len(v)
      /\ \A x \in 1 .. Len(u) : (u \o v)[x] = u[x]
      /\ \A x \in 1 .. Len(v) : (u \o v)[Len(u) + x] = v[x]
  <2>1. u \in Seq(Int) /\ v \in Seq(Int)
    BY <1>4, <1>6
  <2> QED BY <2>1, ConcatIs
<1> DEFINE s == u \o v
<1>8. s \in Seq(Int) /\ Len(s) = 2 + Len(v) /\ s[1] = c /\ s[2] = q
      /\ \A x \in 1 .. Len(v) : s[2 + x] = v[x]
  <2>1. 1 \in 1 .. Len(u) /\ 2 \in 1 .. Len(u)
    BY <1>4
  <2> QED BY <1>4, <1>7, <2>1
<1> HIDE DEF s
<1>9. ASSUME NEW b, NEW p \in Nat, Stands(s, b, p)
      PROVE  /\ b[p + 1] = c /\ b[p + 2] = q
             /\ n > 1 => b[p + 3] = l /\ b[p + 4] = n
             /\ n = 1 /\ ~last => b[p + 3] = l
  <2>1. \A j \in 1 .. Len(s) : b[p + j] = s[j]
    BY <1>9 DEF Stands
  <2>2. b[p + 1] = c /\ b[p + 2] = q
    <3>1. 1 \in 1 .. Len(s) /\ 2 \in 1 .. Len(s)
      BY <1>6, <1>8
    <3> QED BY <1>8, <2>1, <3>1
  <2>3. ASSUME Len(v) >= 1 PROVE b[p + 3] = v[1]
    <3>1. 3 \in 1 .. Len(s) /\ 1 \in 1 .. Len(v) /\ 2 + 1 = 3
      BY <1>6, <1>8, <2>3
    <3>2. s[2 + 1] = v[1]
      BY <1>8, <3>1
    <3> QED BY <2>1, <3>1, <3>2
  <2>4. ASSUME Len(v) >= 2 PROVE b[p + 4] = v[2]
    <3>1. 4 \in 1 .. Len(s) /\ 2 \in 1 .. Len(v) /\ 2 + 2 = 4
      BY <1>6, <1>8, <2>4
    <3>2. s[2 + 2] = v[2]
      BY <1>8, <3>1
    <3> QED BY <2>1, <3>1, <3>2
  <2> QED BY <1>6, <2>2, <2>3, <2>4
<1>10. Opening(g, last) = s
  BY DEF Opening, s, u, v, c, q
<1>. QED
  BY <1>6, <1>8, <1>9, <1>10 DEF c, q, l, n, v

\* What is said of a group before its elements.
HeaderOf(g, last, p) ==
  [mode |-> g[1].mode, cls |-> g[1].cls, routed |-> g[1].route # Absent,
   last |-> last, port |-> g[1].port, error |-> "none",
   length |-> IF last /\ Len(g) = 1 THEN Absent ELSE Len(g[1].payload),
   count |-> Len(g), next |-> p + HeaderBytes(Len(g), last) + 1]

\* The header of a group that stands after place p is read.
LEMMA GroupHeaderRead ==
  ASSUME NEW g, Uniform(g), NEW last \in BOOLEAN, NEW b \in Seq(Int), NEW p \in Nat,
         Stands(Opening(g, last), b, p)
  PROVE  GroupHeader(b, p + 1) = HeaderOf(g, last, p)
<1> DEFINE i == p + 1
           n == Len(g)
           control == b[i]
           bundle == Bit(control, 2)
           final == Bit(control, 1)
           h == [mode |-> control \div 32, cls |-> (control \div 8) % 4, routed |-> Bit(control, 4),
                 last |-> final, port |-> b[i + 1], error |-> "none",
                 length |-> IF final /\ ~bundle THEN Absent ELSE b[i + 2],
                 count |-> IF bundle THEN b[i + 3] ELSE 1,
                 next |-> i + IF bundle THEN 4 ELSE IF final THEN 2 ELSE 3]
<1>1. n \in Nat /\ 1 <= n /\ g[1] \in Sound
  BY UniformFacts
<1>11. (n = 1 \/ n > 1) /\ ~(n = 1 /\ n > 1)
  <2> HIDE DEF n
  <2> QED BY <1>1
<1>2. /\ b[p + 1] = Control(g, last) /\ b[p + 2] = g[1].port
      /\ n > 1 => b[p + 3] = Len(g[1].payload) /\ b[p + 4] = n
      /\ n = 1 /\ ~last => b[p + 3] = Len(g[1].payload)
      /\ p + HeaderBytes(n, last) <= Len(b) /\ Len(b) \in Nat
  <2>4. Stands(Opening(g, last), b, p) /\ p \in Nat
    OBVIOUS
  <2>1. /\ b[p + 1] = Control(g, last) /\ b[p + 2] = g[1].port
        /\ Len(g) > 1 => b[p + 3] = Len(g[1].payload) /\ b[p + 4] = Len(g)
        /\ Len(g) = 1 /\ ~last => b[p + 3] = Len(g[1].payload)
    <3>1. \A b2, p2 : p2 \in Nat /\ Stands(Opening(g, last), b2, p2) =>
            /\ b2[p2 + 1] = Control(g, last) /\ b2[p2 + 2] = g[1].port
            /\ Len(g) > 1 => b2[p2 + 3] = Len(g[1].payload) /\ b2[p2 + 4] = Len(g)
            /\ Len(g) = 1 /\ ~last => b2[p2 + 3] = Len(g[1].payload)
      BY HeadIs
    <3> QED BY <2>4, <3>1
  <2>2. p + Len(Opening(g, last)) <= Len(b) /\ Len(Opening(g, last)) = HeaderBytes(Len(g), last)
    BY HeadIs DEF Stands
  <2>3. Len(b) \in Nat
    BY LenProperties
  <2> QED BY <2>1, <2>2, <2>3
<1>3. /\ g[1].mode \in 0 .. 6 /\ g[1].cls \in 0 .. 2
      /\ g[1].route # Absent => g[1].mode \in ROUTED
  BY <1>1, MessageFacts
<1>4. /\ control \div 32 = g[1].mode /\ (control \div 8) % 4 = g[1].cls
      /\ Bit(control, 4) = (g[1].route # Absent) /\ bundle = (n > 1) /\ final = last
      /\ (n > 1 => bundle) /\ (n = 1 => ~bundle) /\ (last => final) /\ (~last => ~final)
  <2> DEFINE x == IF g[1].route = Absent THEN 0 ELSE 4
             y == IF n > 1 THEN 2 ELSE 0
             z == IF last THEN 1 ELSE 0
             mode == g[1].mode
             cls == g[1].cls
  <2>1. /\ x \in {0, 4} /\ (x = 4) = (g[1].route # Absent)
        /\ y \in {0, 2} /\ (y = 2) = (n > 1)
        /\ z \in {0, 1} /\ (z = 1) = last
    <3> HIDE DEF n
    <3> QED OBVIOUS
  <2>2. control = ControlByte(mode, cls, x, y, z)
    BY <1>2 DEF Control, ControlByte
  <2>3. mode \in 0 .. 6 /\ cls \in 0 .. 2
    BY <1>3
  <2> HIDE DEF x, y, z, control, mode, cls
  <2>4. /\ control \div 32 = mode /\ (control \div 8) % 4 = cls
        /\ (Bit(control, 4) <=> x = 4) /\ (Bit(control, 2) <=> y = 2) /\ (Bit(control, 1) <=> z = 1)
    <3>1. mode \in 0 .. 6 /\ cls \in 0 .. 2 /\ x \in {0, 4} /\ y \in {0, 2} /\ z \in {0, 1}
          /\ control = ControlByte(mode, cls, x, y, z)
      BY <2>1, <2>2, <2>3
    <3>5. mode \in Int /\ cls \in Int /\ x \in Int /\ y \in Int /\ z \in Int
      BY <3>1
    <3> DEFINE c == ControlByte(mode, cls, x, y, z)
    <3>2. c \div 32 = mode /\ (c \div 8) % 4 = cls
      BY <3>1, <3>5, ControlRead
    <3>3. (Bit(c, 4) <=> x = 4) /\ (Bit(c, 2) <=> y = 2) /\ (Bit(c, 1) <=> z = 1)
      BY <3>1, <3>5, ControlRead
    <3>4. control = c
      BY <3>1
    <3> HIDE DEF c
    <3> QED BY <3>2, <3>3, <3>4
  <2>6. Bit(control, 4) \in BOOLEAN /\ bundle \in BOOLEAN /\ final \in BOOLEAN
    BY DEF Bit
  <2>5. /\ control \div 32 = g[1].mode /\ (control \div 8) % 4 = g[1].cls
        /\ Bit(control, 4) = (g[1].route # Absent) /\ bundle = (n > 1) /\ final = last
    BY <2>1, <2>4, <2>6 DEF mode, cls
  <2> HIDE DEF bundle, final, n
  <2> QED BY <1>11, <2>5
<1>5. ~(i + 1 > Len(b))
  BY <1>1, <1>2 DEF HeaderBytes
<1>6. ~(control \div 32 > FIRST_HOP \/ (control \div 8) % 4 = 3
        \/ (Bit(control, 4) /\ control \div 32 \notin ROUTED))
  <2> HIDE DEF control
  <2>1. ~(control \div 32 > FIRST_HOP) /\ (control \div 8) % 4 # 3
    BY <1>3, <1>4 DEF FIRST_HOP
  <2>2. ~(Bit(control, 4) /\ control \div 32 \notin ROUTED)
    BY <1>3, <1>4
  <2> QED BY <2>1, <2>2
<1>7. ~(i + (IF bundle THEN 3 ELSE IF final THEN 1 ELSE 2) > Len(b))
  <2> DEFINE x == IF bundle THEN 3 ELSE IF final THEN 1 ELSE 2
  <2>1. x + 1 = HeaderBytes(n, last) /\ x \in Nat
    <3> HIDE DEF bundle, final
    <3>1. CASE n > 1
      <4>1. x = 3 /\ HeaderBytes(n, last) = 4
        BY <1>4, <3>1, Zenon DEF HeaderBytes
      <4> QED BY <4>1
    <3>2. CASE n = 1 /\ last
      <4>1. x = 1 /\ HeaderBytes(n, last) = 2
        BY <1>4, <3>2 DEF HeaderBytes
      <4> QED BY <4>1
    <3>3. CASE n = 1 /\ ~last
      <4>1. x = 2 /\ HeaderBytes(n, last) = 3
        BY <1>4, <3>3 DEF HeaderBytes
      <4> QED BY <4>1
    <3> QED BY <1>11, <3>1, <3>2, <3>3
  <2>2. p + HeaderBytes(n, last) <= Len(b) /\ Len(b) \in Nat
    BY <1>2
  <2> HIDE DEF x, n
  <2>3. ~(p + 1 + x > Len(b))
    BY <2>1, <2>2
  <2> QED BY <2>3 DEF x
<1>8. ~(bundle /\ b[i + 3] < 2)
  <2>1. i + 3 = p + 4
    OBVIOUS
  <2>2. CASE n = 1
    BY <1>4, <2>2
  <2>3. CASE n > 1
    <3>1. b[i + 3] = n
      BY <1>2, <2>1, <2>3
    <3> HIDE DEF bundle, i, final, control
    <3>2. ~(b[i + 3] < 2)
      BY <1>1, <2>3, <3>1
    <3> QED BY <3>2
  <2> QED BY <1>11, <2>2, <2>3
<1>9. GroupHeader(b, i) = h
  <2> DEFINE c1 == i + 1 > Len(b)
             c2 == control \div 32 > FIRST_HOP \/ (control \div 8) % 4 = 3
                   \/ (Bit(control, 4) /\ control \div 32 \notin ROUTED)
             c3 == i + (IF bundle THEN 3 ELSE IF final THEN 1 ELSE 2) > Len(b)
             c4 == bundle /\ b[i + 3] < 2
  <2>1. GroupHeader(b, i) = IF c1 THEN Fails("TRUNCATED") ELSE IF c2 THEN Fails("MALFORMED")
                            ELSE IF c3 THEN Fails("TRUNCATED") ELSE IF c4 THEN Fails("MALFORMED")
                            ELSE h
    BY DEF GroupHeader
  <2>2. ~c1 /\ ~c2 /\ ~c3 /\ ~c4
    BY <1>5, <1>6, <1>7, <1>8
  <2> HIDE DEF c1, c2, c3, c4, h, i
  <2> QED BY <2>1, <2>2
<1>10. h = HeaderOf(g, last, p)
  <2> DEFINE l == Len(g[1].payload)
             e == IF final /\ ~bundle THEN Absent ELSE b[i + 2]
             c == IF bundle THEN b[i + 3] ELSE 1
             x == i + IF bundle THEN 4 ELSE IF final THEN 2 ELSE 3
  <2>1. i + 1 = p + 2 /\ i + 2 = p + 3 /\ i + 3 = p + 4 /\ i = p + 1 /\ i \in Nat
    OBVIOUS
  <2>2. e = IF last /\ n = 1 THEN Absent ELSE l
    <3>1. b[i + 2] = b[p + 3] /\ ~(n > 1 /\ n = 1) /\ (n > 1 \/ n = 1)
      BY <1>11, <2>1
    <3> HIDE DEF bundle, final, control, i, n
    <3> QED BY <1>2, <1>4, <3>1, Zenon
  <2>3. c = n
    <3>1. b[i + 3] = b[p + 4] /\ (n > 1 \/ n = 1)
      BY <1>11, <2>1
    <3> HIDE DEF bundle, final, control, i, n
    <3> QED BY <1>2, <1>4, <3>1, Zenon
  <2>4. x = p + HeaderBytes(n, last) + 1
    <3> DEFINE y == IF bundle THEN 4 ELSE IF final THEN 2 ELSE 3
    <3>1. y = HeaderBytes(n, last)
      <4>1. ~(n > 1) => n = 1
        BY <1>11
      <4> HIDE DEF bundle, final, n
      <4> QED BY <1>4, <4>1, Zenon DEF HeaderBytes
    <3>2. y \in Nat
      OBVIOUS
    <3>3. x = i + y
      OBVIOUS
    <3> HIDE DEF y, x
    <3> QED BY <2>1, <3>1, <3>2, <3>3
  <2>5. b[i + 1] = g[1].port
    <3> HIDE DEF i
    <3> QED BY <1>2, <2>1
  <2>6. h = [mode |-> control \div 32, cls |-> (control \div 8) % 4, routed |-> Bit(control, 4),
             last |-> final, port |-> b[i + 1], error |-> "none",
             length |-> e, count |-> c, next |-> x]
    OBVIOUS
  <2> HIDE DEF h, e, c, x, l, n, bundle, final, control, i
  <2>7. h = [mode |-> g[1].mode, cls |-> g[1].cls, routed |-> g[1].route # Absent,
             last |-> last, port |-> g[1].port, error |-> "none",
             length |-> IF last /\ n = 1 THEN Absent ELSE l,
             count |-> n, next |-> p + HeaderBytes(n, last) + 1]
    BY <1>4, <2>2, <2>3, <2>4, <2>5, <2>6
  <2> QED BY <2>7 DEF HeaderOf, n, l
<1> HIDE DEF h
<1>. QED
  BY <1>9, <1>10

\* The bytes of a group.
LEMMA GroupBytes ==
  ASSUME NEW g, Uniform(g), NEW last \in BOOLEAN
  PROVE  /\ EncodeGroup(g, last) = Opening(g, last) \o FlattenSeq(ElementsOf(g))
         /\ FlattenSeq(ElementsOf(g)) \in Seq(Int)
         /\ EncodeGroup(g, last) \in Seq(Int) /\ Len(EncodeGroup(g, last)) = GroupSize(g, last)
         /\ GroupSize(g, last) = HeaderBytes(Len(g), last) + Total(SizesOf(g))
         /\ Total(SizesOf(g)) \in Nat /\ HeaderBytes(Len(g), last) \in 2 .. 4
         /\ Len(g) = 1 => Total(SizesOf(g)) = ElementSize(g[1])
<1>1. g \in Seq(Sound) /\ Len(g) \in Nat /\ g[1] \in Sound
  BY UniformFacts
<1>2. /\ ElementsOf(g) \in Seq(Seq(Int)) /\ Len(ElementsOf(g)) = Len(g)
      /\ Lens(ElementsOf(g)) = SizesOf(g)
      /\ SizesOf(g) \in Seq(Int) /\ Len(SizesOf(g)) = Len(g)
  BY <1>1, ElementsSized
<1> DEFINE es == ElementsOf(g)
           fl == FlattenSeq(es)
           o == Opening(g, last)
<1>3. PICK e : Places(e, es, fl) /\ Len(fl) = e[Len(es)] /\ Total(Lens(es)) = e[Len(es)]
  BY <1>2, PlacesAre
<1>4. fl \in Seq(Int)
  BY <1>2, FlattenType
<1>5. Len(fl) = Total(SizesOf(g)) /\ Len(fl) \in Nat
  <2> HIDE DEF es, fl
  <2>1. Len(fl) = Total(Lens(es)) /\ Len(fl) \in Nat
    BY <1>3, <1>4, LenProperties
  <2> QED BY <1>2, <2>1 DEF es
<1>6. EncodeGroup(g, last) = o \o fl
  BY Zenon DEF EncodeGroup, Opening, Control, ElementsOf
<1>7. o \in Seq(Int) /\ Len(o) = HeaderBytes(Len(g), last)
      /\ 2 + Len(Length(g, last)) = HeaderBytes(Len(g), last)
  BY HeadIs
<1>8. HeaderBytes(Len(g), last) \in 2 .. 4
  BY DEF HeaderBytes
<1>9. GroupSize(g, last) = HeaderBytes(Len(g), last) + Total(SizesOf(g))
  BY <1>7 DEF GroupSize, SizesOf
<1>10. o \o fl \in Seq(Int) /\ Len(o \o fl) = Len(o) + Len(fl)
  <2> HIDE DEF o, fl
  <2> QED BY <1>4, <1>7, ConcatIs
<1>11. Len(g) = 1 => Total(SizesOf(g)) = ElementSize(g[1])
  <2> DEFINE ss == SizesOf(g)
  <2>1. PICK c : Sums(c, ss) /\ Total(ss) = c[Len(ss)]
    BY <1>2, TotalIs
  <2>2. ASSUME Len(g) = 1 PROVE Total(ss) = ElementSize(g[1])
    <3>1. ss[1] = ElementSize(g[1])
      <4>1. 1 \in DOMAIN g
        BY <1>1, <2>2, LenProperties
      <4> QED BY <4>1 DEF SizesOf
    <3>2. ss[1] \in Int
      BY <1>1, <3>1, FieldsStand
    <3> HIDE DEF ss
    <3>3. c[1] = c[0] + ss[1] /\ c[0] = 0 /\ Total(ss) = c[1]
      <4>1. Len(ss) = 1 /\ 1 \in 1 .. Len(ss) /\ 1 - 1 = 0
        BY <1>2, <2>2 DEF ss
      <4> QED BY <2>1, <4>1 DEF Sums
    <3> QED BY <3>1, <3>2, <3>3
  <2> QED BY <2>2
<1>. QED
  <2>1. EncodeGroup(g, last) \in Seq(Int) /\ Len(EncodeGroup(g, last)) = GroupSize(g, last)
    BY <1>5, <1>6, <1>7, <1>9, <1>10
  <2>2. Total(SizesOf(g)) \in Nat
    BY <1>5
  <2>3. EncodeGroup(g, last) = Opening(g, last) \o FlattenSeq(ElementsOf(g))
        /\ FlattenSeq(ElementsOf(g)) \in Seq(Int)
    BY <1>4, <1>6
  <2> QED BY <1>8, <1>9, <1>11, <2>1, <2>2, <2>3

\* A group that stands after place p is read; the last one of a body ends it.
LEMMA GroupRead ==
  ASSUME NEW g, Uniform(g), NEW last \in BOOLEAN, NEW b \in Seq(Int), NEW p \in Nat,
         Stands(EncodeGroup(g, last), b, p), last => p + GroupSize(g, last) = Len(b)
  PROVE  Group(b, p + 1) = Reads(g, p + GroupSize(g, last) + 1)
<1> DEFINE o == Opening(g, last)
           fl == FlattenSeq(ElementsOf(g))
           w == HeaderBytes(Len(g), last)
           t == Total(SizesOf(g))
           h == HeaderOf(g, last, p)
           q == p + w
<1>1. /\ EncodeGroup(g, last) = o \o fl /\ fl \in Seq(Int)
      /\ GroupSize(g, last) = w + t /\ t \in Nat /\ w \in 2 .. 4
      /\ Len(g) = 1 => t = ElementSize(g[1])
  BY GroupBytes
<1>2. o \in Seq(Int) /\ Len(o) = w
  BY HeadIs
<1>3. /\ g \in Seq(Sound) /\ Len(g) \in Nat /\ 1 <= Len(g)
      /\ g[1] \in Sound /\ \A j \in 1 .. Len(g) : g[j] \in Sound /\ SameGroup(g[1], g[j])
  BY UniformFacts
<1>4. Stands(o, b, p) /\ Stands(fl, b, q) /\ q \in Nat
  <2>1. Stands(o \o fl, b, p)
    BY <1>1
  <2>2. q \in Nat
    BY <1>1
  <2> HIDE DEF o, fl, w
  <2>3. Stands(o, b, p) /\ Stands(fl, b, p + Len(o))
    BY <1>1, <1>2, <2>1, StandsApart
  <2> QED BY <1>2, <2>2, <2>3
<1>5. GroupHeader(b, p + 1) = h
  BY <1>4, GroupHeaderRead
<1>6. GroupFits(h, g, b, q)
  <2>1. /\ h.next = q + 1 /\ h.count = Len(g)
        /\ h.mode = g[1].mode /\ h.cls = g[1].cls /\ h.port = g[1].port
        /\ h.routed = (g[1].route # Absent)
        /\ h.length = IF last /\ Len(g) = 1 THEN Absent ELSE Len(g[1].payload)
    BY Zenon DEF HeaderOf
  <2>2. ASSUME NEW j \in 1 .. Len(g)
        PROVE  Heads(h, g[j]) /\ \/ h.length = Len(g[j].payload)
                                 \/ h.length = Absent /\ Len(g) = 1 /\ q + ElementSize(g[1]) = Len(b)
    <3>1. /\ g[1].mode = g[j].mode /\ g[1].cls = g[j].cls /\ g[1].port = g[j].port
          /\ (g[1].route = Absent) = (g[j].route = Absent)
          /\ Len(g[1].payload) = Len(g[j].payload)
      BY <1>3 DEF SameGroup
    <3> HIDE DEF h, q
    <3>2. Heads(h, g[j])
      BY <2>1, <3>1 DEF Heads
    <3>3. CASE last /\ Len(g) = 1
      <4>1. h.length = Absent
        BY <2>1, <3>3
      <4>2. q + ElementSize(g[1]) = Len(b)
        <5>1. /\ p + GroupSize(g, last) = Len(b) /\ GroupSize(g, last) = w + t
              /\ t = ElementSize(g[1]) /\ t \in Nat /\ w \in 2 .. 4 /\ q = p + w
          BY <1>1, <3>3 DEF q
        <5> HIDE DEF w, t
        <5> QED BY <5>1
      <4> QED BY <3>2, <3>3, <4>1, <4>2
    <3>4. CASE ~(last /\ Len(g) = 1)
      BY <2>1, <3>1, <3>2, <3>4
    <3> QED BY <3>3, <3>4
  <2> HIDE DEF h, q
  <2> QED BY <2>1, <2>2 DEF GroupFits
<1>7. Elements(b, h) = Reads(g, q + t + 1)
  <2> HIDE DEF h, q, fl
  <2>1. Stands(FlattenSeq(ElementsOf(g)), b, q)
    BY <1>4 DEF fl
  <2> QED BY <1>3, <1>4, <1>6, <2>1, ElementsRead
<1>8. q + t + 1 = p + GroupSize(g, last) + 1
  BY <1>1
<1>9. h.error = "none" /\ h.last = last
  BY DEF HeaderOf
<1>10. EndsWell(b, h, Reads(g, q + t + 1))
  <2>1. last => q + t + 1 = Len(b) + 1
    BY <1>1, <1>8
  <2>2. Reads(g, q + t + 1).next = q + t + 1
    BY DEF Reads
  <2> HIDE DEF h, q, t
  <2> QED BY <1>9, <2>1, <2>2 DEF EndsWell
<1> HIDE DEF h, q, t
<1>11. Group(b, p + 1) = Reads(g, q + t + 1)
  BY <1>5, <1>7, <1>9, <1>10, Zenon DEF Group
<1>. QED
  BY <1>8, <1>11

------------------------------------------------------------------------------
(* Bodies. *)

\* The groups of a body, as bytes.
GroupsOf(gs) == [i \in DOMAIN gs |-> EncodeGroup(gs[i], i = Len(gs))]

\* Groups that one header each stands for.
Groups(gs) == gs \in Seq(Seq(Sound)) /\ \A k \in 1 .. Len(gs) : Uniform(gs[k])

\* The groups are sequences of bytes, of the sizes counted.
LEMMA GroupsSized ==
  ASSUME NEW gs, Groups(gs)
  PROVE  /\ GroupsOf(gs) \in Seq(Seq(Int)) /\ Len(GroupsOf(gs)) = Len(gs) /\ Len(gs) \in Nat
         /\ \A k \in 1 .. Len(gs) :
              /\ GroupsOf(gs)[k] = EncodeGroup(gs[k], k = Len(gs)) /\ Uniform(gs[k])
              /\ Len(GroupsOf(gs)[k]) = GroupSize(gs[k], k = Len(gs))
              /\ GroupSize(gs[k], k = Len(gs)) \in Nat /\ 2 <= GroupSize(gs[k], k = Len(gs))
         /\ Lens(GroupsOf(gs)) = [k \in DOMAIN gs |-> GroupSize(gs[k], k = Len(gs))]
<1> DEFINE n == Len(gs)
           es == GroupsOf(gs)
<1>1. n \in Nat /\ DOMAIN gs = 1 .. n /\ \A k \in 1 .. n : Uniform(gs[k])
  BY LenProperties DEF Groups
<1>2. \A k \in 1 .. n : /\ EncodeGroup(gs[k], k = n) \in Seq(Int)
                        /\ Len(EncodeGroup(gs[k], k = n)) = GroupSize(gs[k], k = n)
                        /\ GroupSize(gs[k], k = n) \in Nat /\ 2 <= GroupSize(gs[k], k = n)
  <2> TAKE k \in 1 .. n
  <2>1. Uniform(gs[k]) /\ (k = n) \in BOOLEAN
    BY <1>1
  <2> DEFINE g == gs[k]
             last == k = n
  <2>2. Uniform(g) /\ last \in BOOLEAN
    BY <2>1
  <2> HIDE DEF g, last
  <2>3. /\ EncodeGroup(g, last) \in Seq(Int) /\ Len(EncodeGroup(g, last)) = GroupSize(g, last)
        /\ GroupSize(g, last) = HeaderBytes(Len(g), last) + Total(SizesOf(g))
        /\ Total(SizesOf(g)) \in Nat /\ HeaderBytes(Len(g), last) \in 2 .. 4
    BY <2>2, GroupBytes
  <2>4. GroupSize(g, last) \in Nat /\ 2 <= GroupSize(g, last)
    BY <2>3
  <2> QED BY <2>3, <2>4 DEF g, last
<1>3. es \in [1 .. n -> Seq(Int)] /\ \A k \in 1 .. n : es[k] = EncodeGroup(gs[k], k = n)
  BY <1>1, <1>2 DEF GroupsOf
<1>4. es \in Seq(Seq(Int))
  <2> HIDE DEF es, n
  <2> QED BY <1>1, <1>3, SeqDef
<1>5. Len(es) = n
  <2> HIDE DEF es
  <2>1. DOMAIN es = 1 .. Len(es) /\ Len(es) \in Nat /\ DOMAIN es = 1 .. n
    BY <1>3, <1>4, LenProperties
  <2> HIDE DEF n
  <2> QED BY <1>1, <2>1, SameUpper
<1>6. Lens(es) = [k \in DOMAIN gs |-> GroupSize(gs[k], k = n)]
  <2>1. DOMAIN es = 1 .. n
    BY <1>3
  <2>2. Lens(es) = [k \in 1 .. n |-> Len(es[k])]
    <3> HIDE DEF es, n
    <3> QED BY <2>1, Zenon DEF Lens
  <2>4. \A k \in 1 .. n : Len(es[k]) = GroupSize(gs[k], k = n)
    BY <1>2, <1>3
  <2> HIDE DEF es, n
  <2> QED BY <1>1, <2>2, <2>4
<1>. QED
  <2>1. \A k \in 1 .. n : Len(es[k]) = GroupSize(gs[k], k = n)
    BY <1>2, <1>3
  <2> QED BY <1>1, <1>2, <1>3, <1>4, <1>5, <1>6, <2>1

\* A body of groups is read group by group, up to its end.
LEMMA BodyRead ==
  ASSUME NEW gs, Groups(gs), NEW b \in Seq(Int), b = FlattenSeq(GroupsOf(gs))
  PROVE  /\ DecodeBody(b).error = "none" /\ DecodeBody(b).messages = FlattenSeq(gs)
         /\ Len(b) = Total([k \in DOMAIN gs |-> GroupSize(gs[k], k = Len(gs))])
<1> DEFINE n == Len(gs)
           es == GroupsOf(gs)
           L == Len(b)
           Good(f) == f = [k \in 0 .. Len(b) |->
                             IF k = 0 THEN Start(1)
                             ELSE LET r == f[k - 1]
                                  IN  IF r.error # "none" \/ r.next > Len(b) THEN r
                                      ELSE Then(r, Group(b, r.next))]
           read == CHOOSE f : Good(f)
<1>1. /\ es \in Seq(Seq(Int)) /\ Len(es) = n /\ n \in Nat
      /\ \A k \in 1 .. n : /\ es[k] = EncodeGroup(gs[k], k = n) /\ Uniform(gs[k])
                           /\ Len(es[k]) = GroupSize(gs[k], k = n)
                           /\ GroupSize(gs[k], k = n) \in Nat /\ 2 <= GroupSize(gs[k], k = n)
      /\ Lens(es) = [k \in DOMAIN gs |-> GroupSize(gs[k], k = n)]
  BY GroupsSized
<1> HIDE DEF es
<1>2. PICK e : Places(e, es, b) /\ L = e[n] /\ Total(Lens(es)) = e[n]
  <2>1. b = FlattenSeq(es)
    BY DEF es
  <2>2. es \in Seq(Seq(Int)) /\ Len(es) = n
    BY <1>1
  <2>3. \E e : /\ Places(e, es, FlattenSeq(es)) /\ Len(FlattenSeq(es)) = e[Len(es)]
              /\ Total(Lens(es)) = e[Len(es)]
    BY <2>2, PlacesAre
  <2> HIDE DEF n
  <2> QED BY <2>1, <2>2, <2>3
<1>3. /\ e[0] = 0 /\ \A k \in 0 .. n : e[k] \in Nat /\ e[k] <= L
      /\ \A k \in 1 .. n : e[k] = e[k - 1] + GroupSize(gs[k], k = n)
      /\ L \in Nat
  BY <1>1, <1>2, LenProperties DEF Places, Sums
<1>4. gs \in Seq(Seq(Sound))
  BY DEF Groups
<1>5. PICK c : Concats(c, gs, Sound) /\ FlattenSeq(gs) = c[n]
  BY <1>4, FlattenIs
<1>6. c[0] = <<>> /\ \A k \in 1 .. n : c[k] = c[k - 1] \o gs[k]
  BY <1>5 DEF Concats
\* Every group has a byte at least.
<1>7. /\ \A k \in 0 .. n : k <= e[k]
      /\ n <= L
  <2> DEFINE S == {k \in 0 .. n : k <= e[k]}
  <2> HIDE DEF L, n
  <2>1. 0 \in S
    BY <1>1, <1>3
  <2>2. ASSUME NEW k \in 1 .. n, k - 1 \in S PROVE k \in S
    <3>1. /\ e[k] = e[k - 1] + GroupSize(gs[k], k = n) /\ e[k - 1] \in Nat /\ e[k] \in Nat
          /\ GroupSize(gs[k], k = n) \in Nat /\ 2 <= GroupSize(gs[k], k = n)
          /\ k - 1 <= e[k - 1] /\ k \in 0 .. n
      <4>1. k \in 0 .. n /\ k - 1 \in 0 .. n /\ k - 1 <= e[k - 1]
        BY <1>1, <2>2
      <4>2. e[k - 1] \in Nat /\ e[k] \in Nat
        BY <1>3, <4>1
      <4> QED BY <1>1, <1>3, <4>1, <4>2
    <3> DEFINE x == GroupSize(gs[k], k = n)
    <3>2. x \in Nat /\ 2 <= x /\ e[k] = e[k - 1] + x
      BY <3>1
    <3> HIDE DEF x
    <3>3. k <= e[k]
      BY <3>1, <3>2
    <3> QED BY <3>1, <3>3
  <2>3. 0 .. n \subseteq S
    <3> HIDE DEF S
    <3> QED BY <1>1, <2>1, <2>2, Upward
  <2>4. n \in 0 .. n
    BY <1>1
  <2>5. n <= e[n] /\ e[n] = L
    BY <1>2, <2>3, <2>4 DEF L
  <2> QED BY <2>3, <2>5
\* Before the last group, the end is not reached.
<1>8. \A k \in 0 .. n - 1 : e[k] < L
  <2> DEFINE S == {j \in 0 .. n : \A k \in 0 .. j - 1 : e[k] < e[j]}
  <2> HIDE DEF L, n
  <2>1. 0 \in S
    BY <1>1
  <2>2. ASSUME NEW j \in 1 .. n, j - 1 \in S PROVE j \in S
    <3> DEFINE x == GroupSize(gs[j], j = n)
    <3>1. x \in Nat /\ 2 <= x /\ e[j] = e[j - 1] + x /\ j - 1 \in 0 .. n /\ j \in 0 .. n
      BY <1>1, <1>3
    <3> HIDE DEF x
    <3>2. ASSUME NEW k \in 0 .. j - 1 PROVE e[k] < e[j]
      <4>1. k \in 0 .. n /\ e[k] \in Nat /\ e[j - 1] \in Nat
        <5>1. k \in 0 .. n
          BY <1>1
        <5> QED BY <1>3, <3>1, <5>1
      <4>2. CASE k = j - 1
        BY <3>1, <4>1, <4>2
      <4>3. CASE k # j - 1
        <5>1. k \in 0 .. (j - 1) - 1
          BY <1>1, <4>3
        <5>2. e[k] < e[j - 1]
          BY <2>2, <5>1
        <5> QED BY <3>1, <4>1, <5>2
      <4> QED BY <4>2, <4>3
    <3> QED BY <3>1, <3>2
  <2>3. 0 .. n \subseteq S
    <3> HIDE DEF S
    <3> QED BY <1>1, <2>1, <2>2, Upward
  <2>4. n \in 0 .. n
    BY <1>1
  <2>5. e[n] = L
    BY <1>2 DEF L
  <2> QED BY <2>3, <2>4, <2>5
<1> DEFINE f == [k \in 0 .. L |-> IF k <= n THEN Reads(c[k], e[k] + 1) ELSE Reads(c[n], L + 1)]
<1>9. f[0] = Start(1)
  <2>1. 0 \in 0 .. L /\ 0 <= n
    BY <1>1, <1>3
  <2>2. f[0] = Reads(<<>>, 0 + 1)
    <3> HIDE DEF L, n
    <3> QED BY <1>3, <1>6, <2>1
  <2> QED BY <2>2 DEF Reads, Start
<1>10. ASSUME NEW k \in 1 .. L
       PROVE  f[k] = IF f[k - 1].error # "none" \/ f[k - 1].next > L THEN f[k - 1]
                     ELSE Then(f[k - 1], Group(b, f[k - 1].next))
  <2>1. k \in 0 .. L /\ k - 1 \in 0 .. L
    BY <1>3
  <2>2. CASE k <= n
    <3> DEFINE q == e[k - 1]
               g == gs[k]
               last == k = n
    <3>1. k \in 1 .. n /\ k - 1 \in 0 .. n /\ k - 1 \in 0 .. n - 1 /\ k - 1 <= n
      BY <1>1, <2>2
    <3>2. q \in Nat /\ q < L /\ e[k] = q + GroupSize(g, last)
      BY <1>3, <1>8, <3>1
    <3>3. Uniform(g) /\ last \in BOOLEAN /\ es[k] = EncodeGroup(g, last)
      BY <1>1, <3>1
    <3>4. Stands(EncodeGroup(g, last), b, q)
      <4>1. /\ e[k] \in Nat /\ e[k] <= L /\ e[k] = q + Len(es[k])
            /\ \A j \in 1 .. Len(es[k]) : b[q + j] = es[k][j]
        BY <1>1, <1>2, <1>3, <3>1 DEF Places
      <4> HIDE DEF q, g, last
      <4> QED BY <3>3, <4>1 DEF Stands
    <3>5. last => q + GroupSize(g, last) = Len(b)
      <4>1. last => e[k] = L
        BY <1>2
      <4> QED BY <3>2, <4>1
    <3>6. f[k - 1] = Reads(c[k - 1], q + 1) /\ f[k] = Reads(c[k], e[k] + 1)
      <4> HIDE DEF n, L
      <4> QED BY <2>1, <2>2, <3>1
    <3>7. c[k - 1] \o g = c[k]
      BY <1>6, <3>1
    <3> HIDE DEF q, g, last, f
    <3>8. Group(b, q + 1) = Reads(g, q + GroupSize(g, last) + 1)
      BY <3>2, <3>3, <3>4, <3>5, GroupRead
    <3>9. Then(Reads(c[k - 1], q + 1), Reads(g, e[k] + 1)) = Reads(c[k], e[k] + 1)
      <4>1. Then(Reads(c[k - 1], q + 1), Reads(g, e[k] + 1)) = Reads(c[k - 1] \o g, e[k] + 1)
        BY ThenReads
      <4> QED BY <3>7, <4>1, Zenon
    <3>10. f[k - 1].error = "none" /\ f[k - 1].next = q + 1
      BY <3>6 DEF Reads
    <3>11. ~(f[k - 1].next > L)
      <4> HIDE DEF L
      <4> QED BY <1>3, <3>2, <3>10
    <3>12. Then(f[k - 1], Group(b, f[k - 1].next)) = f[k]
      BY <3>2, <3>6, <3>8, <3>9, <3>10
    <3> HIDE DEF L
    <3> QED BY <3>10, <3>11, <3>12
  <2>3. CASE ~(k <= n)
    <3>1. f[k] = Reads(c[n], L + 1)
      <4> HIDE DEF n, L
      <4> QED BY <2>1, <2>3
    <3>2. f[k - 1] = Reads(c[n], L + 1)
      <4>1. CASE k - 1 = n
        <5>1. e[n] = L
          BY <1>2
        <5>2. n <= n
          BY <1>1
        <5> HIDE DEF n, L
        <5> QED BY <2>1, <4>1, <5>1, <5>2
      <4>2. CASE k - 1 # n
        <5>1. ~(k - 1 <= n)
          <6> HIDE DEF n
          <6> QED BY <1>1, <2>3, <4>2
        <5> HIDE DEF n, L
        <5> QED BY <2>1, <5>1
      <4> QED BY <4>1, <4>2
    <3> HIDE DEF f
    <3>3. f[k - 1].next = L + 1
      BY <3>2 DEF Reads
    <3>4. f[k - 1].next > L
      <4> HIDE DEF L
      <4> QED BY <1>3, <3>3
    <3> QED BY <3>1, <3>2, <3>4
  <2> QED BY <2>2, <2>3
<1>11. Good(f)
  <2>1. DOMAIN f = 0 .. L /\ f = [k \in 0 .. L |-> f[k]]
    OBVIOUS
  <2>2. \A k \in 0 .. L : k # 0 => k \in 1 .. L
    BY <1>3
  <2> HIDE DEF f
  <2>3. \A k \in 0 .. L : f[k] = IF k = 0 THEN Start(1)
                                 ELSE IF f[k - 1].error # "none" \/ f[k - 1].next > L THEN f[k - 1]
                                 ELSE Then(f[k - 1], Group(b, f[k - 1].next))
    <3> HIDE DEF L
    <3> QED BY <1>9, <1>10, <2>2
  <2> QED BY <2>1, <2>3, Zenon
<1>12. Good(read)
  <2> HIDE DEF Good, f
  <2> QED BY <1>11
<1>13. /\ read[0] = Start(1)
       /\ \A k \in 1 .. L : read[k] = IF read[k - 1].error # "none" \/ read[k - 1].next > L
                                        THEN read[k - 1]
                                        ELSE Then(read[k - 1], Group(b, read[k - 1].next))
  <2> HIDE DEF read, f
  <2>1. \A k \in 0 .. L : read[k] = IF k = 0 THEN Start(1)
                                    ELSE IF read[k - 1].error # "none" \/ read[k - 1].next > L
                                           THEN read[k - 1]
                                         ELSE Then(read[k - 1], Group(b, read[k - 1].next))
    BY <1>12, Zenon
  <2>2. 0 \in 0 .. L /\ \A k \in 1 .. L : k \in 0 .. L /\ k # 0
    BY <1>3
  <2> HIDE DEF L
  <2> QED BY <2>1, <2>2, Zenon
<1>14. \A k \in 0 .. L : read[k] = f[k]
  <2> DEFINE S == {k \in 0 .. L : read[k] = f[k]}
  <2> HIDE DEF f, read, Good
  <2>1. 0 \in S
    <3>1. 0 \in 0 .. L
      BY <1>3
    <3> QED BY <1>9, <1>13, <3>1
  <2>2. ASSUME NEW k \in 1 .. L, k - 1 \in S PROVE k \in S
    <3>1. k \in 0 .. L
      BY <1>3
    <3> HIDE DEF L
    <3> QED BY <1>10, <1>13, <2>2, <3>1, Zenon
  <2>3. 0 .. L \subseteq S
    <3> HIDE DEF S, L
    <3> QED BY <1>3, <2>1, <2>2, Upward
  <2> QED BY <2>3
\* The reading stops at the end of the body, after the last group.
<1> DEFINE stop == CHOOSE k \in 0 .. L : read[k].error # "none" \/ read[k].next > L
<1>15. stop \in 0 .. L /\ (read[stop].error # "none" \/ read[stop].next > L)
  <2>1. n \in 0 .. L /\ n <= n
    <3> HIDE DEF n, L
    <3> QED BY <1>1, <1>3, <1>7
  <2>2. f[n] = Reads(c[n], L + 1)
    <3>1. e[n] = L
      BY <1>2
    <3> HIDE DEF n, L
    <3> QED BY <2>1, <3>1
  <2>3. f[n].next = L + 1
    <3> HIDE DEF f
    <3> QED BY <2>2 DEF Reads
  <2>4. f[n].next > L
    <3> HIDE DEF f, L
    <3> QED BY <1>3, <2>3
  <2>5. read[n].next > L
    <3> HIDE DEF f, read, Good
    <3> QED BY <1>14, <2>1, <2>4, Zenon
  <2> HIDE DEF read, f, Good, L, n
  <2> QED BY <2>1, <2>5, Zenon
<1>16. f[stop] = Reads(FlattenSeq(gs), L + 1)
  <2> HIDE DEF stop
  <2>1. CASE stop < n
    <3>1. stop \in 0 .. n - 1 /\ stop \in 0 .. n /\ stop <= n
      <4> HIDE DEF n, L, read
      <4> QED BY <1>1, <1>3, <1>15, <2>1
    <3>2. f[stop] = Reads(c[stop], e[stop] + 1)
      <4>1. stop \in 0 .. L
        BY <1>15
      <4> HIDE DEF n, L
      <4> QED BY <3>1, <4>1
    <3>3. e[stop] \in Nat /\ e[stop] < L
      BY <1>3, <1>8, <3>1
    <3>4. f[stop].error = "none" /\ f[stop].next = e[stop] + 1
      <4> HIDE DEF f
      <4> QED BY <3>2 DEF Reads
    <3>5. read[stop] = f[stop]
      BY <1>14, <1>15
    <3>6. ~(f[stop].next > L)
      <4> HIDE DEF L, f
      <4> QED BY <1>3, <3>3, <3>4
    <3> HIDE DEF read, f, L
    <3> QED BY <1>15, <3>4, <3>5, <3>6
  <2>2. CASE ~(stop < n)
    <3>1. stop \in 0 .. L
      BY <1>15
    <3>2. CASE stop = n
      <4>1. e[n] = L /\ n <= n
        BY <1>1, <1>2
      <4>2. f[stop] = Reads(c[n], L + 1)
        <5> HIDE DEF n, L
        <5> QED BY <3>1, <3>2, <4>1
      <4> HIDE DEF f
      <4> QED BY <1>5, <4>2
    <3>3. CASE stop # n
      <4>1. ~(stop <= n)
        <5> HIDE DEF n, L
        <5> QED BY <1>1, <1>3, <2>2, <3>1, <3>3
      <4>2. f[stop] = Reads(c[n], L + 1)
        <5> HIDE DEF n, L
        <5> QED BY <3>1, <4>1
      <4> HIDE DEF f
      <4> QED BY <1>5, <4>2
    <3> QED BY <3>2, <3>3
  <2> QED BY <2>1, <2>2
<1>17. DecodeBody(b).error = "none" /\ DecodeBody(b).messages = FlattenSeq(gs)
  <2>1. DecodeBody(b) = read[stop]
    BY Zenon DEF DecodeBody
  <2> HIDE DEF f, read, Good, stop
  <2>2. DecodeBody(b) = Reads(FlattenSeq(gs), L + 1)
    BY <1>14, <1>15, <1>16, <2>1
  <2> QED BY <2>2 DEF Reads
<1>18. L = Total([k \in DOMAIN gs |-> GroupSize(gs[k], k = n)])
  BY <1>1, <1>2
<1>. QED
  BY <1>17, <1>18

------------------------------------------------------------------------------
(* Messages grouped again. *)

\* A sequence without its last element.
LEMMA FrontLast ==
  ASSUME NEW T, NEW s \in Seq(T), NEW x \in T
  PROVE  /\ Append(s, x) \in Seq(T) /\ Append(s, x) # <<>>
         /\ Last(Append(s, x)) = x /\ Front(Append(s, x)) = s
<1> DEFINE u == Append(s, x)
<1>1. /\ u \in Seq(T) /\ u # <<>> /\ Len(u) = Len(s) + 1
      /\ \A i \in 1 .. Len(s) : u[i] = s[i]
      /\ u[Len(s) + 1] = x
  BY AppendProperties
<1>2. Len(s) \in Nat
  BY LenProperties
<1> HIDE DEF u
<1>3. Last(u) = x
  BY <1>1 DEF Last
<1>4. Stands(s, u, 0)
  BY <1>1, <1>2 DEF Stands
<1>5. SubSeq(u, 0 + 1, 0 + Len(s)) = s
  BY <1>1, <1>4, StandsRead
<1>6. Front(u) = s
  <2>1. Len(u) - 1 = 0 + Len(s) /\ 0 + 1 = 1
    BY <1>1, <1>2
  <2> QED BY <1>5, <2>1 DEF Front
<1>. QED
  BY <1>1, <1>3, <1>6 DEF u

\* The types of the two parts of a sequence.
LEMMA FrontType ==
  ASSUME NEW T, NEW s \in Seq(T), s # <<>>
  PROVE  Front(s) \in Seq(T) /\ Last(s) \in T
<1>1. PICK t \in Seq(T), x \in T : s = Append(t, x)
  BY SequenceEmptyOrAppend
<1>. QED
  BY <1>1, FrontLast

\* The first k elements of s, one more than the first k - 1.
LEMMA TakeAppend ==
  ASSUME NEW T, NEW s \in Seq(T), NEW k \in 1 .. Len(s)
  PROVE  /\ Append(Take(s, k - 1), s[k]) = Take(s, k) /\ s[k] \in T
         /\ Take(s, k - 1) \in Seq(T) /\ Len(Take(s, k - 1)) = k - 1
         /\ Take(s, k) \in Seq(T) /\ Len(Take(s, k)) = k
<1>1. /\ Take(s, k - 1) \in Seq(T) /\ Len(Take(s, k - 1)) = k - 1
      /\ Take(s, k - 1) \o <<s[k]>> = Take(s, k)
  <2>1. \A j \in 1 .. Len(s) : /\ Take(s, j - 1) \in Seq(T) /\ Len(Take(s, j - 1)) = j - 1
                               /\ Take(s, j - 1) \o <<s[j]>> = Take(s, j) /\ <<s[j]>> \in Seq(T)
    BY TakeGrows, Zenon
  <2> QED BY <2>1
<1>2. s[k] \in T
  BY ElementOfSeq
<1> DEFINE t == Take(s, k - 1)
<1>3. Append(t, s[k]) = t \o <<s[k]>>
  BY <1>1, <1>2, AppendIsConcat
<1>4. Append(t, s[k]) \in Seq(T) /\ Len(Append(t, s[k])) = Len(t) + 1
  BY <1>1, <1>2, AppendProperties
<1>5. Len(t) + 1 = k
  BY <1>1
<1> HIDE DEF t
<1>. QED
  BY <1>1, <1>2, <1>3, <1>4, <1>5 DEF t

\* The groups ms up to a message, and the next message.
Joined(before, m) ==
  IF before # <<>> /\ Len(Last(before)) < GROUP_MAX /\ SameGroup(Last(before)[1], m)
    THEN Append(Front(before), Append(Last(before), m))
    ELSE Append(before, <<m>>)

\* Groups stay sequences of messages.
LEMMA JoinedType ==
  ASSUME NEW before \in Seq(Seq(Sound)), NEW m \in Sound
  PROVE  Joined(before, m) \in Seq(Seq(Sound))
<1>1. <<m>> \in Seq(Sound)
  OBVIOUS
<1>2. CASE before # <<>> /\ Len(Last(before)) < GROUP_MAX /\ SameGroup(Last(before)[1], m)
  <2>1. Front(before) \in Seq(Seq(Sound)) /\ Last(before) \in Seq(Sound)
    BY <1>2, FrontType
  <2>2. Append(Last(before), m) \in Seq(Sound)
    BY <2>1, AppendProperties
  <2>3. Append(Front(before), Append(Last(before), m)) \in Seq(Seq(Sound))
    BY <2>1, <2>2, AppendProperties
  <2> QED BY <1>2, <2>3, Zenon DEF Joined
<1>3. CASE ~(before # <<>> /\ Len(Last(before)) < GROUP_MAX /\ SameGroup(Last(before)[1], m))
  <2>1. Append(before, <<m>>) \in Seq(Seq(Sound))
    BY <1>1, AppendProperties
  <2> QED BY <1>3, <2>1, Zenon DEF Joined
<1>. QED
  BY <1>2, <1>3

\* The groups of messages, one message after the other.
LEMMA GroupedIs ==
  ASSUME NEW ms \in Seq(Sound)
  PROVE  \E r : /\ Grouped(ms) = r[Len(ms)] /\ r[0] = <<>>
                /\ \A k \in 1 .. Len(ms) : r[k] = Joined(r[k - 1], ms[k])
<1> DEFINE n == Len(ms)
           X == Seq(Seq(Sound))
           F == [z \in X \X (1 .. n) |-> Joined(z[1], ms[z[2]])]
           Good(f) == f = [k \in 0 .. Len(ms) |->
                             IF k = 0 THEN <<>>
                             ELSE LET before == f[k - 1]
                                  IN  IF /\ before # <<>> /\ Len(Last(before)) < GROUP_MAX
                                         /\ SameGroup(Last(before)[1], ms[k])
                                        THEN Append(Front(before), Append(Last(before), ms[k]))
                                        ELSE Append(before, <<ms[k]>>)]
           r == CHOOSE f : Good(f)
<1>1. n \in Nat /\ \A k \in 1 .. n : ms[k] \in Sound
  BY LenProperties, ElementOfSeq
<1>2. F \in [X \X (1 .. n) -> X]
  <2>1. \A z \in X \X (1 .. n) : Joined(z[1], ms[z[2]]) \in X
    <3> TAKE z \in X \X (1 .. n)
    <3>1. z[1] \in X /\ ms[z[2]] \in Sound
      <4> HIDE DEF X, n
      <4> QED BY <1>1
    <3> QED BY <3>1, JoinedType
  <2> HIDE DEF X, n
  <2> QED BY <2>1
<1>3. PICK f : Iterates(f, F, n, X, <<>>)
  <2>1. <<>> \in X
    BY EmptySeq
  <2> HIDE DEF F, n, X
  <2> QED BY <1>1, <1>2, <2>1, Recursion
<1>4. f \in [0 .. n -> X] /\ f[0] = <<>> /\ \A k \in 1 .. n : f[k] = Joined(f[k - 1], ms[k])
  <2>1. f \in [0 .. n -> X] /\ f[0] = <<>> /\ \A k \in 1 .. n : f[k] = F[<<f[k - 1], k>>]
    <3> HIDE DEF F, n, X
    <3> QED BY <1>3 DEF Iterates
  <2>2. \A k \in 1 .. n : <<f[k - 1], k>> \in X \X (1 .. n)
    <3> HIDE DEF F, X, n
    <3>1. \A k \in 1 .. n : k - 1 \in 0 .. n
      BY <1>1
    <3> QED BY <2>1, <3>1
  <2> HIDE DEF X, n
  <2> QED BY <2>1, <2>2
<1>5. Good(f)
  <2>1. DOMAIN f = 0 .. n /\ f = [k \in 0 .. n |-> f[k]]
    <3> HIDE DEF X, n
    <3> QED BY <1>4
  <2>2. \A k \in 0 .. n : f[k] = IF k = 0 THEN <<>> ELSE Joined(f[k - 1], ms[k])
    <3>1. \A k \in 0 .. n : k # 0 => k \in 1 .. n
      BY <1>1
    <3> HIDE DEF F, X, n
    <3> QED BY <1>4, <3>1
  <2> QED BY <2>1, <2>2, Zenon DEF Joined
<1>6. Good(r)
  <2> HIDE DEF Good
  <2> QED BY <1>5
<1>7. r[0] = <<>> /\ \A k \in 1 .. n : r[k] = Joined(r[k - 1], ms[k])
  <2> HIDE DEF r, F, X
  <2>1. \A k \in 0 .. n : r[k] = IF k = 0 THEN <<>> ELSE Joined(r[k - 1], ms[k])
    BY <1>6, Zenon DEF Joined
  <2>2. 0 \in 0 .. n /\ \A k \in 1 .. n : k \in 0 .. n /\ k # 0
    BY <1>1
  <2> HIDE DEF n
  <2> QED BY <2>1, <2>2, Zenon
<1>8. Grouped(ms) = r[n]
  BY Zenon DEF Grouped
<1> HIDE DEF r
<1>. QED
  BY <1>7, <1>8

\* A message that shares the header of the last group joins it while there is room.
LEMMA JoinsLast ==
  ASSUME NEW before \in Seq(Seq(Sound)), NEW g \in Seq(Sound), NEW m,
         Len(g) < GROUP_MAX, SameGroup(g[1], m)
  PROVE  Joined(Append(before, g), m) = Append(before, Append(g, m))
<1>1. /\ Append(before, g) # <<>> /\ Last(Append(before, g)) = g
      /\ Front(Append(before, g)) = before
  BY FrontLast
<1>. QED
  BY <1>1, Zenon DEF Joined

\* A message that does not share the header of the last group begins one.
LEMMA JoinsNew ==
  ASSUME NEW before, NEW m, before # <<>> => ~SameGroup(Last(before)[1], m)
  PROVE  Joined(before, m) = Append(before, <<m>>)
  BY Zenon DEF Joined

\* Successive groups have different headers.
Apart(gs) == \A k \in 2 .. Len(gs) : ~SameGroup(gs[k - 1][1], gs[k][1])

\* The elements of a sequence taken.
LEMMA TakeIs ==
  ASSUME NEW s, NEW n \in Nat
  PROVE  \A j \in 1 .. n : Take(s, n)[j] = s[j]
  BY DEF Take

\* Messages put group by group are grouped so again.
LEMMA GroupedAgain ==
  ASSUME NEW gs, Groups(gs), Apart(gs)
  PROVE  Grouped(FlattenSeq(gs)) = gs
<1> DEFINE n == Len(gs)
           ms == FlattenSeq(gs)
<1>1. /\ gs \in Seq(Seq(Sound)) /\ n \in Nat
      /\ \A k \in 1 .. n : Uniform(gs[k])
  BY LenProperties DEF Groups
<1>2. PICK e : Places(e, gs, ms) /\ Len(ms) = e[n]
  BY <1>1, PlacesAre
<1>3. ms \in Seq(Sound)
  BY <1>1, FlattenType
<1>4. PICK r : /\ Grouped(ms) = r[Len(ms)] /\ r[0] = <<>>
               /\ \A x \in 1 .. Len(ms) : r[x] = Joined(r[x - 1], ms[x])
  <2> HIDE DEF ms
  <2> QED BY <1>3, GroupedIs
<1>5. /\ e[0] = 0
      /\ \A k \in 0 .. n : e[k] \in Nat /\ e[k] <= Len(ms)
      /\ \A k \in 1 .. n : /\ e[k] = e[k - 1] + Len(gs[k])
                           /\ \A j \in 1 .. Len(gs[k]) : ms[e[k - 1] + j] = gs[k][j]
  BY <1>2 DEF Places, Sums
<1> DEFINE S == {k \in 0 .. n : r[e[k]] = Take(gs, k)}
<1>6. 0 \in S
  <2>1. Take(gs, 0) = <<>> /\ 0 \in 0 .. n
    BY <1>1, TakeGrows
  <2> HIDE DEF ms, n
  <2> QED BY <1>4, <1>5, <2>1
<1>7. ASSUME NEW k \in 1 .. n, k - 1 \in S PROVE k \in S
  <2> DEFINE before == Take(gs, k - 1)
             g == gs[k]
             p == e[k - 1]
             U == {j \in 0 .. Len(g) : j = 0 \/ r[p + j] = Append(before, Take(g, j))}
  <2>1. /\ Append(before, g) = Take(gs, k) /\ before \in Seq(Seq(Sound)) /\ Len(before) = k - 1
    BY <1>1, TakeAppend
  <2>2. /\ g \in Seq(Sound) /\ Len(g) \in Nat /\ 1 <= Len(g) /\ Len(g) <= GROUP_MAX
        /\ \A j \in 1 .. Len(g) : g[j] \in Sound /\ SameGroup(g[1], g[j])
    BY <1>1, UniformFacts
  <2>3. k \in 0 .. n /\ k - 1 \in 0 .. n
    BY <1>1
  <2>4. /\ p \in Nat /\ e[k] = p + Len(g) /\ e[k] \in Nat /\ e[k] <= Len(ms) /\ r[p] = before
        /\ \A j \in 1 .. Len(g) : ms[p + j] = g[j]
    <3> HIDE DEF ms, n
    <3> QED BY <1>5, <1>7, <2>3
  <2>5. ASSUME NEW j \in 1 .. Len(g) PROVE r[p + j] = Joined(r[(p + j) - 1], g[j])
    <3> HIDE DEF g, p
    <3>1. p + j \in 1 .. Len(ms)
      <4>1. Len(ms) \in Nat
        BY <1>3, LenProperties
      <4> HIDE DEF ms
      <4> QED BY <2>2, <2>4, <4>1
    <3>2. ms[p + j] = g[j]
      <4> HIDE DEF ms
      <4> QED BY <2>4
    <3> HIDE DEF ms
    <3>3. r[p + j] = Joined(r[(p + j) - 1], ms[p + j])
      <4> DEFINE x == p + j
      <4>1. x \in 1 .. Len(ms)
        BY <3>1
      <4> HIDE DEF x
      <4>2. r[x] = Joined(r[x - 1], ms[x])
        BY <1>4, <4>1, Zenon
      <4> QED BY <4>2 DEF x
    <3> QED BY <3>2, <3>3, Zenon
  <2>6. before # <<>> => ~SameGroup(Last(before)[1], g[1])
    <3>1. SUFFICES ASSUME before # <<>> PROVE ~SameGroup(Last(before)[1], g[1])
      OBVIOUS
    <3>2. k - 1 # 0
      <4>1. CASE k = 1
        <5>1. before = <<>>
          BY <1>1, <4>1, TakeGrows
        <5> QED BY <3>1, <5>1
      <4> QED BY <4>1
    <3>3. Last(before) = gs[k - 1]
      <4>1. Last(before) = before[k - 1]
        BY <2>1 DEF Last
      <4>2. k - 1 \in Nat /\ k - 1 \in 1 .. k - 1
        BY <3>2
      <4> QED BY <4>1, <4>2, TakeIs
    <3>4. k \in 2 .. Len(gs)
      BY <1>1, <3>2
    <3> HIDE DEF before
    <3> QED BY <3>3, <3>4 DEF Apart
  <2> HIDE DEF before, g, p, ms
  <2>7. 0 \in U
    BY <2>2
  <2>8. ASSUME NEW j \in 1 .. Len(g), j - 1 \in U PROVE j \in U
    <3>1. j \in 0 .. Len(g)
      BY <2>2
    <3>2. /\ Append(Take(g, j - 1), g[j]) = Take(g, j)
          /\ Take(g, j - 1) \in Seq(Sound) /\ Len(Take(g, j - 1)) = j - 1
      BY <2>2, TakeAppend
    <3>3. CASE j = 1
      <4>1. r[p + j] = Joined(before, g[1])
        BY <2>4, <2>5, <3>3
      <4>2. Joined(before, g[1]) = Append(before, <<g[1]>>)
        BY <2>6, JoinsNew
      <4>3. Take(g, 1) = <<g[1]>>
        BY DEF Take
      <4> QED BY <3>1, <3>3, <4>1, <4>2, <4>3
    <3>4. CASE j # 1
      <4>1. r[p + (j - 1)] = Append(before, Take(g, j - 1))
        BY <2>8, <3>4
      <4>2. (p + j) - 1 = p + (j - 1)
        BY <2>4
      <4>3. r[p + j] = Joined(Append(before, Take(g, j - 1)), g[j])
        BY <2>5, <4>1, <4>2
      <4>4. Take(g, j - 1)[1] = g[1]
        <5>1. j - 1 \in Nat /\ 1 \in 1 .. j - 1
          BY <3>4
        <5> QED BY <5>1, TakeIs
      <4>5. Len(Take(g, j - 1)) < GROUP_MAX /\ SameGroup(Take(g, j - 1)[1], g[j])
        <5>1. GROUP_MAX \in Int
          BY CodecAssumption
        <5> QED BY <2>2, <3>2, <4>4, <5>1
      <4>6. Joined(Append(before, Take(g, j - 1)), g[j]) = Append(before, Append(Take(g, j - 1), g[j]))
        BY <2>1, <3>2, <4>5, JoinsLast
      <4> QED BY <3>1, <3>2, <4>3, <4>6
    <3> QED BY <3>3, <3>4
  <2>9. 0 .. Len(g) \subseteq U
    <3> HIDE DEF U
    <3> QED BY <2>2, <2>7, <2>8, Upward
  <2>10. Len(g) \in 0 .. Len(g) /\ Len(g) # 0
    BY <2>2
  <2>11. r[p + Len(g)] = Append(before, Take(g, Len(g)))
    BY <2>9, <2>10
  <2>12. Take(g, Len(g)) = g
    BY <2>2, TakeGrows
  <2> QED BY <2>1, <2>3, <2>4, <2>11, <2>12
<1>8. 0 .. n \subseteq S
  <2> HIDE DEF S, n
  <2> QED BY <1>1, <1>6, <1>7, Upward
<1>9. n \in 0 .. n /\ Take(gs, n) = gs
  BY <1>1, TakeGrows
<1>10. r[e[n]] = gs
  <2> HIDE DEF n
  <2> QED BY <1>8, <1>9
<1>. QED
  <2> HIDE DEF n
  <2>1. Grouped(ms) = gs
    <3> HIDE DEF ms
    <3> QED BY <1>2, <1>4, <1>10
  <2> QED BY <2>1

------------------------------------------------------------------------------
(* Frames. *)

SizesIn(gs) == [k \in DOMAIN gs |-> GroupSize(gs[k], k = Len(gs))]
SizeOf(gs) == OVERHEAD + Total(SizesIn(gs))

\* The frame of messages put group by group, no longer than a length can tell, has
\* the size counted and is read back.
LEMMA FrameRead ==
  ASSUME NEW gs, Groups(gs), Apart(gs), SizeOf(gs) <= 255
  PROVE  LET f == Encode(Header, FlattenSeq(gs)) IN
         /\ Len(f) = SizeOf(gs) /\ FrameSize(FlattenSeq(gs)) = SizeOf(gs)
         /\ DecodeHeader(f) = Header
         /\ Decode(f).error = "none" /\ Decode(f).messages = FlattenSeq(gs)
<1> DEFINE ms == FlattenSeq(gs)
           head == EncodeHeader(Header)
           body == FlattenSeq(GroupsOf(gs))
           tag == <<0, 0, 0, 0>>
           f == (head \o body) \o tag
<1>1. Grouped(ms) = gs
  BY GroupedAgain
<1>2. Encode(Header, ms) = f
  <2> HIDE DEF ms
  <2> QED BY <1>1, Zenon DEF Encode, GroupsOf
<1>3. FrameSize(ms) = SizeOf(gs)
  <2> HIDE DEF ms
  <2> QED BY <1>1, Zenon DEF FrameSize, SizeOf, SizesIn
<1>4. head \in Seq(Int) /\ Len(head) = 9
  <2>1. Header \in HeaderType
    BY HeaderAssumption DEF HeaderType
  <2> QED BY <2>1, HeaderRead
<1>5. body \in Seq(Int) /\ Len(body) = Total(SizesIn(gs)) /\ Len(body) \in Nat
  <2>1. GroupsOf(gs) \in Seq(Seq(Int))
    BY GroupsSized
  <2>2. body \in Seq(Int)
    BY <2>1, FlattenType
  <2>3. Len(body) = Total([k \in DOMAIN gs |-> GroupSize(gs[k], k = Len(gs))])
    BY <2>2, BodyRead
  <2> HIDE DEF body
  <2> QED BY <2>2, <2>3, LenProperties DEF SizesIn
<1>6. tag \in Seq(Int) /\ Len(tag) = 4
  OBVIOUS
<1> HIDE DEF head, body, tag
<1>7. head \o body \in Seq(Int) /\ Len(head \o body) = 9 + Len(body)
  <2>1. head \o body \in Seq(Int) /\ Len(head \o body) = Len(head) + Len(body)
    BY <1>4, <1>5, ConcatIs
  <2> QED BY <1>4, <2>1
<1> DEFINE start == head \o body
<1>8. start \in Seq(Int) /\ Len(start) = 9 + Len(body) /\ f = start \o tag
  BY <1>7
<1> HIDE DEF start
<1>9. f \in Seq(Int) /\ Len(f) = 13 + Len(body)
  <2>1. start \o tag \in Seq(Int) /\ Len(start \o tag) = Len(start) + Len(tag)
    BY <1>6, <1>8, ConcatIs
  <2> HIDE DEF f
  <2> QED BY <1>5, <1>6, <1>8, <2>1
<1> HIDE DEF f
<1>10. Len(f) = SizeOf(gs)
  BY <1>5, <1>9 DEF SizeOf, OVERHEAD
<1>16. Stands(start \o tag, f, 0)
  BY <1>5, <1>8, <1>9 DEF Stands
<1>17. Stands(start, f, 0)
  <2>1. 0 \in Nat
    OBVIOUS
  <2> QED BY <1>6, <1>8, <1>9, <1>16, <2>1, StandsApart
<1>18. Stands(head, f, 0) /\ Stands(body, f, 0 + Len(head))
  <2>1. 0 \in Nat
    OBVIOUS
  <2>2. Stands(head \o body, f, 0)
    BY <1>17 DEF start
  <2> QED BY <1>4, <1>5, <1>9, <2>1, <2>2, StandsApart
<1>11. Stands(head, f, 0)
  BY <1>18
<1>12. Stands(body, f, 9)
  <2>1. 0 + Len(head) = 9
    BY <1>4
  <2> QED BY <1>18, <2>1
<1>13. DecodeHeader(f) = Header
  <2>1. Header \in HeaderType
    BY HeaderAssumption DEF HeaderType
  <2>2. Len(f) \in OVERHEAD .. 255
    <3>1. Len(f) \in Int /\ OVERHEAD <= Len(f) /\ Len(f) <= 255 /\ OVERHEAD \in Int
      BY <1>5, <1>9, <1>10 DEF OVERHEAD
    <3> QED BY <3>1
  <2> QED BY <1>9, <1>11, <2>1, <2>2, HeaderRead DEF head
<1>14. Decode(f) = DecodeBody(body)
  <2>1. SubSeq(f, 9 + 1, 9 + Len(body)) = body
    <3>1. \A p \in Nat : Stands(body, f, p) => SubSeq(f, p + 1, p + Len(body)) = body
      BY <1>5, <1>9, StandsRead
    <3> QED BY <1>12, <3>1
  <2>2. 9 + 1 = 10 /\ 9 + Len(body) = Len(f) - 4
    BY <1>5, <1>9
  <2>3. SubSeq(f, 10, Len(f) - 4) = body
    BY <2>1, <2>2
  <2> QED BY <2>3, Zenon DEF Decode
<1>15. DecodeBody(body).error = "none" /\ DecodeBody(body).messages = ms
  BY <1>5, BodyRead DEF body
<1> HIDE DEF ms
<1>. QED
  BY <1>2, <1>3, <1>10, <1>13, <1>14, <1>15 DEF ms

------------------------------------------------------------------------------
(* The packing loop. *)

\* Sharing a header is an equivalence.
LEMMA SameGroupFacts ==
  ASSUME NEW a, NEW b, NEW c
  PROVE  /\ SameGroup(a, a) /\ (SameGroup(a, b) => SameGroup(b, a))
         /\ SameGroup(a, b) /\ SameGroup(b, c) => SameGroup(a, c)
  BY Zenon DEF SameGroup

\* One message is a group; a group one message longer is one while there is room.
LEMMA UniformGrows ==
  ASSUME NEW m \in Sound
  PROVE  /\ Uniform(<<m>>) /\ Len(<<m>>) = 1 /\ <<m>> \in Seq(Sound)
         /\ \A g : Uniform(g) /\ Len(g) < GROUP_MAX /\ SameGroup(g[1], m) =>
              /\ Uniform(Append(g, m)) /\ Append(g, m) \in Seq(Sound)
              /\ Append(g, m)[1] = g[1] /\ Len(Append(g, m)) = Len(g) + 1
              /\ Total(SizesOf(Append(g, m))) = Total(SizesOf(g)) + ElementSize(m)
<1>1. Uniform(<<m>>) /\ Len(<<m>>) = 1 /\ <<m>> \in Seq(Sound)
  <2>1. /\ <<m>> \in Seq(Sound) /\ Len(<<m>>) = 1 /\ <<m>> # <<>>
        /\ \A j \in 1 .. 1 : <<m>>[j] = m
    OBVIOUS
  <2>2. 1 <= GROUP_MAX
    BY CodecAssumption
  <2>3. SameGroup(m, m)
    BY SameGroupFacts
  <2>4. \A j \in 1 .. 1 : SameGroup(<<m>>[1], <<m>>[j])
    BY <2>1, <2>3
  <2> QED BY <2>1, <2>2, <2>4 DEF Uniform
<1>2. ASSUME NEW g, Uniform(g), Len(g) < GROUP_MAX, SameGroup(g[1], m)
      PROVE  /\ Uniform(Append(g, m)) /\ Append(g, m) \in Seq(Sound)
             /\ Append(g, m)[1] = g[1] /\ Len(Append(g, m)) = Len(g) + 1
             /\ Total(SizesOf(Append(g, m))) = Total(SizesOf(g)) + ElementSize(m)
  <2> DEFINE u == Append(g, m)
  <2>1. /\ g \in Seq(Sound) /\ Len(g) \in Nat /\ 1 <= Len(g)
        /\ \A j \in 1 .. Len(g) : g[j] \in Sound /\ SameGroup(g[1], g[j])
    BY <1>2, UniformFacts
  <2>2. /\ u \in Seq(Sound) /\ u # <<>> /\ Len(u) = Len(g) + 1
        /\ \A j \in 1 .. Len(g) : u[j] = g[j]
        /\ u[Len(g) + 1] = m
    BY <2>1, AppendProperties
  <2> HIDE DEF u
  <2>3. u[1] = g[1] /\ Len(u) <= GROUP_MAX
    <3>1. GROUP_MAX \in Int
      BY CodecAssumption
    <3> QED BY <1>2, <2>1, <2>2, <3>1
  <2>4. \A j \in 1 .. Len(u) : j \in 1 .. Len(g) \/ j = Len(g) + 1
    BY <2>1, <2>2
  <2>5. \A j \in 1 .. Len(u) : SameGroup(u[1], u[j])
    BY <1>2, <2>1, <2>2, <2>3, <2>4
  <2>6. Uniform(u)
    BY <2>2, <2>3, <2>5 DEF Uniform
  <2>7. Total(SizesOf(u)) = Total(SizesOf(g)) + ElementSize(m)
    <3>1. SizesOf(g) \in Seq(Int) /\ Len(SizesOf(g)) = Len(g)
      BY <2>1, ElementsSized
    <3>2. SizesOf(u) \in Seq(Int) /\ Len(SizesOf(u)) = Len(g) + 1
      BY <2>2, ElementsSized
    <3>3. /\ \A j \in 1 .. Len(g) : SizesOf(g)[j] = ElementSize(g[j])
          /\ \A j \in 1 .. Len(u) : SizesOf(u)[j] = ElementSize(u[j])
      BY <2>1, <2>2, LenProperties DEF SizesOf
    <3>4. \A j \in 1 .. Len(SizesOf(g)) : SizesOf(g)[j] = SizesOf(u)[j]
      <4>1. \A j \in 1 .. Len(g) : j \in 1 .. Len(u)
        BY <2>1, <2>2
      <4> QED BY <2>2, <3>1, <3>3, <4>1
    <3>5. SizesOf(u)[Len(SizesOf(u))] = ElementSize(m)
      <4>1. Len(g) + 1 \in 1 .. Len(u)
        BY <2>1, <2>2
      <4> QED BY <2>2, <3>2, <3>3, <4>1
    <3>6. Len(SizesOf(u)) = Len(SizesOf(g)) + 1
      BY <3>1, <3>2
    <3>7. Total(SizesOf(u)) = Total(SizesOf(g)) + SizesOf(u)[Len(SizesOf(u))]
      BY <3>1, <3>2, <3>4, <3>6, TotalLonger
    <3> QED BY <3>5, <3>7
  <2> QED BY <2>2, <2>3, <2>6, <2>7 DEF u
<1>. QED
  BY <1>1, <1>2

\* The sizes of the groups, the last one counted as the last of the frame.
LEMMA SizesInAre ==
  ASSUME NEW gs, Groups(gs)
  PROVE  /\ SizesIn(gs) \in Seq(Int) /\ Len(SizesIn(gs)) = Len(gs) /\ Len(gs) \in Nat
         /\ \A k \in 1 .. Len(gs) :
              /\ Uniform(gs[k]) /\ gs[k] \in Seq(Sound) /\ Len(gs[k]) \in Nat /\ 1 <= Len(gs[k])
              /\ SizesIn(gs)[k] = GroupSize(gs[k], k = Len(gs))
              /\ \A last \in BOOLEAN :
                   GroupSize(gs[k], last) = HeaderBytes(Len(gs[k]), last) + Total(SizesOf(gs[k]))
              /\ Total(SizesOf(gs[k])) \in Nat
<1>1. /\ gs \in Seq(Seq(Sound)) /\ Len(gs) \in Nat /\ DOMAIN gs = 1 .. Len(gs)
      /\ \A k \in 1 .. Len(gs) : Uniform(gs[k])
  BY LenProperties DEF Groups
<1>2. \A k \in 1 .. Len(gs) : GroupSize(gs[k], k = Len(gs)) \in Int
  BY GroupsSized
<1>3. /\ SizesIn(gs) \in Seq(Int) /\ Len(SizesIn(gs)) = Len(gs)
      /\ \A k \in 1 .. Len(gs) : SizesIn(gs)[k] = GroupSize(gs[k], k = Len(gs))
  <2> DEFINE G(k) == GroupSize(gs[k], k = Len(gs))
  <2>1. SizesIn(gs) = [k \in 1 .. Len(gs) |-> G(k)]
    BY <1>1, Zenon DEF SizesIn
  <2>2. \A k \in 1 .. Len(gs) : G(k) \in Int
    BY <1>2
  <2> HIDE DEF G
  <2>3. SizesIn(gs) \in Seq(Int) /\ Len(SizesIn(gs)) = Len(gs)
    BY <1>1, <2>1, <2>2
  <2>4. \A k \in 1 .. Len(gs) : SizesIn(gs)[k] = G(k)
    BY <2>1
  <2> QED BY <2>3, <2>4 DEF G
<1>4. ASSUME NEW k \in 1 .. Len(gs)
      PROVE  /\ gs[k] \in Seq(Sound) /\ Len(gs[k]) \in Nat /\ 1 <= Len(gs[k])
             /\ \A last \in BOOLEAN :
                  GroupSize(gs[k], last) = HeaderBytes(Len(gs[k]), last) + Total(SizesOf(gs[k]))
             /\ Total(SizesOf(gs[k])) \in Nat
  <2> DEFINE g == gs[k]
  <2>1. Uniform(g)
    BY <1>1
  <2> HIDE DEF g
  <2>2. g \in Seq(Sound) /\ Len(g) \in Nat /\ 1 <= Len(g)
    BY <2>1, UniformFacts
  <2>3. /\ \A last \in BOOLEAN :
             GroupSize(g, last) = HeaderBytes(Len(g), last) + Total(SizesOf(g))
        /\ Total(SizesOf(g)) \in Nat
    BY <2>1, GroupBytes
  <2> QED BY <2>2, <2>3 DEF g
<1>. QED
  BY <1>1, <1>3, <1>4

\* How the header of a group grows with one more message.
Wider(gs, g) ==
  HeaderBytes(Len(gs[g]) + 1, g = Len(gs)) - HeaderBytes(Len(gs[g]), g = Len(gs))

\* A message that joins a group changes its header only.
LEMMA SizeJoined ==
  ASSUME NEW gs, Groups(gs), NEW m \in Sound, NEW g \in 1 .. Len(gs),
         Len(gs[g]) < GROUP_MAX, SameGroup(gs[g][1], m),
         NEW us \in Seq(Seq(Sound)), Len(us) = Len(gs), us[g] = Append(gs[g], m),
         \A k \in 1 .. Len(gs) : k # g => us[k] = gs[k]
  PROVE  /\ Groups(us) /\ Len(us) = Len(gs) /\ \A k \in 1 .. Len(gs) : us[k][1] = gs[k][1]
         /\ SizeOf(us) = SizeOf(gs) + ElementSize(m) + Wider(gs, g) /\ Wider(gs, g) \in Int
<1> DEFINE u == Append(gs[g], m)
           last == g = Len(gs)
<1>1. /\ gs \in Seq(Seq(Sound)) /\ Len(gs) \in Nat /\ DOMAIN gs = 1 .. Len(gs)
      /\ \A k \in 1 .. Len(gs) : Uniform(gs[k])
  BY LenProperties DEF Groups
<1>2. /\ Uniform(u) /\ u \in Seq(Sound) /\ u[1] = gs[g][1] /\ Len(u) = Len(gs[g]) + 1
      /\ Total(SizesOf(u)) = Total(SizesOf(gs[g])) + ElementSize(m)
  BY <1>1, UniformGrows
<1>3. /\ us[g] = u /\ \A k \in 1 .. Len(gs) : k # g => us[k] = gs[k]
      /\ us \in Seq(Seq(Sound)) /\ Len(us) = Len(gs)
  OBVIOUS
<1> HIDE DEF u
<1>4. Groups(us)
  BY <1>1, <1>2, <1>3 DEF Groups
<1>5. /\ SizesIn(gs) \in Seq(Int) /\ Len(SizesIn(gs)) = Len(gs)
      /\ \A k \in 1 .. Len(gs) : SizesIn(gs)[k] = GroupSize(gs[k], k = Len(gs))
      /\ GroupSize(gs[g], last) = HeaderBytes(Len(gs[g]), last) + Total(SizesOf(gs[g]))
      /\ Total(SizesOf(gs[g])) \in Nat /\ Len(gs[g]) \in Nat
  BY SizesInAre
<1>6. /\ SizesIn(us) \in Seq(Int) /\ Len(SizesIn(us)) = Len(gs)
      /\ \A k \in 1 .. Len(gs) : SizesIn(us)[k] = GroupSize(us[k], k = Len(gs))
  <2>1. /\ SizesIn(us) \in Seq(Int) /\ Len(SizesIn(us)) = Len(us)
        /\ \A k \in 1 .. Len(us) : SizesIn(us)[k] = GroupSize(us[k], k = Len(us))
    BY <1>4, SizesInAre
  <2> QED BY <1>3, <2>1
<1>7. GroupSize(u, last) = HeaderBytes(Len(u), last) + Total(SizesOf(u))
  BY <1>2, GroupBytes
<1>8. Total(SizesIn(us)) = Total(SizesIn(gs)) + SizesIn(us)[g] - SizesIn(gs)[g]
  <2>1. \A k \in 1 .. Len(gs) : k # g => SizesIn(gs)[k] = SizesIn(us)[k]
    BY <1>3, <1>5, <1>6
  <2> QED BY <1>5, <1>6, <2>1, TotalChanged
<1>9. SizesIn(us)[g] = GroupSize(u, last) /\ SizesIn(gs)[g] = GroupSize(gs[g], last)
  BY <1>3, <1>5, <1>6
<1>10. /\ Total(SizesIn(gs)) \in Int /\ ElementSize(m) \in Int
       /\ HeaderBytes(Len(gs[g]) + 1, last) \in Int /\ HeaderBytes(Len(gs[g]), last) \in Int
  BY <1>5, TotalType, FieldsStand DEF HeaderBytes
<1>11. SizeOf(us) = SizeOf(gs) + ElementSize(m) + Wider(gs, g) /\ Wider(gs, g) \in Int
  <2> DEFINE T1 == Total(SizesIn(gs))
             T2 == Total(SizesIn(us))
             H1 == HeaderBytes(Len(gs[g]), last)
             H2 == HeaderBytes(Len(gs[g]) + 1, last)
             M == ElementSize(m)
             E1 == Total(SizesOf(gs[g]))
  <2>1. T2 = T1 + (H2 + (E1 + M)) - (H1 + E1)
    BY <1>2, <1>5, <1>7, <1>8, <1>9
  <2>2. T1 \in Int /\ H1 \in Int /\ H2 \in Int /\ M \in Int /\ E1 \in Int
    BY <1>5, <1>10
  <2>3. SizeOf(us) = 13 + T2 /\ SizeOf(gs) = 13 + T1
    BY DEF SizeOf, OVERHEAD
  <2> HIDE DEF T1, T2, H1, H2, M, E1
  <2>4. SizeOf(us) = SizeOf(gs) + M + (H2 - H1)
    BY <2>1, <2>2, <2>3
  <2>5. Wider(gs, g) = H2 - H1
    BY Zenon DEF Wider, H1, H2
  <2> QED BY <2>2, <2>4, <2>5 DEF M
<1>12. \A k \in 1 .. Len(gs) : us[k][1] = gs[k][1]
  BY <1>2, <1>3
<1>. QED
  BY <1>3, <1>4, <1>11, <1>12

\* A message alone in a new group; the group before it is no longer the last.
LEMMA SizeAppended ==
  ASSUME NEW gs, Groups(gs), NEW m \in Sound
  PROVE  LET us == Append(gs, <<m>>) IN
         /\ Groups(us) /\ Len(us) = Len(gs) + 1 /\ us[Len(gs) + 1] = <<m>>
         /\ \A k \in 1 .. Len(gs) : us[k] = gs[k]
         /\ SizeOf(us) = SizeOf(gs) + ElementSize(m)
                         + (2 + IF gs # <<>> /\ Len(Last(gs)) = 1 THEN 1 ELSE 0)
<1> DEFINE us == Append(gs, <<m>>)
           n == Len(gs)
           s == SizesIn(gs)
           v == SizesIn(us)
           t == [k \in 1 .. n |-> v[k]]
           more == IF gs # <<>> /\ Len(Last(gs)) = 1 THEN 1 ELSE 0
<1>1. /\ gs \in Seq(Seq(Sound)) /\ n \in Nat
      /\ \A k \in 1 .. n : Uniform(gs[k])
  BY LenProperties DEF Groups
<1>2. Uniform(<<m>>) /\ Len(<<m>>) = 1 /\ <<m>> \in Seq(Sound)
  BY UniformGrows
<1>3. /\ us \in Seq(Seq(Sound)) /\ Len(us) = n + 1 /\ us[n + 1] = <<m>>
      /\ \A k \in 1 .. n : us[k] = gs[k]
  BY <1>1, <1>2, AppendProperties
<1> HIDE DEF us
<1>4. Groups(us)
  <2>1. \A k \in 1 .. Len(us) : k \in 1 .. n \/ k = n + 1
    BY <1>1, <1>3
  <2> QED BY <1>1, <1>2, <1>3, <2>1 DEF Groups
<1>5. /\ s \in Seq(Int) /\ Len(s) = n
      /\ \A k \in 1 .. n :
           /\ s[k] = GroupSize(gs[k], k = n) /\ Len(gs[k]) \in Nat /\ 1 <= Len(gs[k])
           /\ \A last \in BOOLEAN :
                GroupSize(gs[k], last) = HeaderBytes(Len(gs[k]), last) + Total(SizesOf(gs[k]))
           /\ Total(SizesOf(gs[k])) \in Nat
  BY SizesInAre
<1>6. /\ v \in Seq(Int) /\ Len(v) = n + 1
      /\ \A k \in 1 .. n + 1 : v[k] = GroupSize(us[k], k = n + 1)
  <2>1. /\ SizesIn(us) \in Seq(Int) /\ Len(SizesIn(us)) = Len(us)
        /\ \A k \in 1 .. Len(us) : SizesIn(us)[k] = GroupSize(us[k], k = Len(us))
    BY <1>4, SizesInAre
  <2> QED BY <1>3, <2>1
<1>7. v[n + 1] = 2 + ElementSize(m) /\ ElementSize(m) \in Int
  <2>1. v[n + 1] = GroupSize(<<m>>, TRUE)
    <3>1. n + 1 \in 1 .. n + 1
      BY <1>1
    <3> QED BY <1>3, <1>6, <3>1
  <2>2. GroupSize(<<m>>, TRUE) = HeaderBytes(1, TRUE) + ElementSize(<<m>>[1])
    BY <1>2, GroupBytes
  <2>3. HeaderBytes(1, TRUE) = 2 /\ <<m>>[1] = m
    BY DEF HeaderBytes
  <2>4. ElementSize(m) \in Nat
    BY FieldsStand
  <2>5. GroupSize(<<m>>, TRUE) = 2 + ElementSize(m)
    BY <2>2, <2>3, Zenon
  <2> HIDE DEF n
  <2>6. v[n + 1] = 2 + ElementSize(m)
    BY <2>1, <2>5, Zenon
  <2> HIDE DEF n, v
  <2> QED BY <2>4, <2>6
<1> HIDE DEF s, v
<1>8. t \in Seq(Int) /\ Len(t) = n /\ \A k \in 1 .. n : t[k] = v[k]
  <2>1. \A k \in 1 .. n : v[k] \in Int
    <3>1. \A k \in 1 .. n : k \in 1 .. Len(v)
      BY <1>1, <1>6
    <3> QED BY <1>6, <3>1, ElementOfSeq
  <2> HIDE DEF n
  <2> QED BY <1>1, <2>1
<1> HIDE DEF t
<1>9. Total(v) = Total(t) + (2 + ElementSize(m))
  <2>1. Len(v) = Len(t) + 1 /\ \A k \in 1 .. Len(t) : t[k] = v[k]
    BY <1>6, <1>8
  <2>2. Total(v) = Total(t) + v[Len(v)]
    BY <1>6, <1>8, <2>1, TotalLonger
  <2> QED BY <1>6, <1>7, <2>2
<1>10. Total(t) = Total(s) + more
  <2>1. CASE n = 0
    <3>1. gs = <<>> /\ s = <<>> /\ t = <<>>
      BY <1>1, <1>5, <1>8, <2>1, EmptySeq
    <3>2. Total(s) \in Int
      BY <1>5, TotalType
    <3> QED BY <3>1, <3>2
  <2>2. CASE n # 0
    <3>1. n \in 1 .. n /\ gs # <<>> /\ Last(gs) = gs[n]
      BY <1>1, <2>2, EmptySeq DEF Last
    <3>2. \A k \in 1 .. n : k # n + 1 /\ k \in 1 .. n + 1
      BY <1>1
    <3>3. \A k \in 1 .. n : t[k] = GroupSize(gs[k], FALSE)
      BY <1>3, <1>6, <1>8, <3>2
    <3>4. \A k \in 1 .. n : k # n => s[k] = t[k]
      BY <1>5, <3>3
    <3>5. Total(t) = Total(s) + t[n] - s[n]
      BY <1>5, <1>8, <3>1, <3>4, TotalChanged
    <3>6. /\ s[n] = HeaderBytes(Len(gs[n]), TRUE) + Total(SizesOf(gs[n]))
          /\ t[n] = HeaderBytes(Len(gs[n]), FALSE) + Total(SizesOf(gs[n]))
          /\ Total(SizesOf(gs[n])) \in Nat /\ Len(gs[n]) \in Nat /\ 1 <= Len(gs[n])
      BY <1>5, <3>1, <3>3
    <3>7. HeaderBytes(Len(gs[n]), FALSE) = HeaderBytes(Len(gs[n]), TRUE) + more
      <4> DEFINE l == Len(gs[n])
      <4>1. more = IF l = 1 THEN 1 ELSE 0
        <5> HIDE DEF n
        <5> QED BY <3>1
      <4>2. l \in Nat /\ 1 <= l
        BY <3>6
      <4> HIDE DEF l, more
      <4>3. HeaderBytes(l, FALSE) = HeaderBytes(l, TRUE) + more
        BY <4>1, <4>2 DEF HeaderBytes
      <4> QED BY <4>3 DEF l
    <3>8. HeaderBytes(Len(gs[n]), TRUE) \in Int /\ more \in Int /\ Total(s) \in Int
      BY <1>5, TotalType DEF HeaderBytes
    <3> DEFINE H == HeaderBytes(Len(gs[n]), TRUE)
               E == Total(SizesOf(gs[n]))
    <3>9. Total(t) = Total(s) + ((H + more) + E) - (H + E) /\ E \in Int /\ H \in Int
      <4>1. s[n] = H + E /\ t[n] = (H + more) + E
        BY <3>6, <3>7, Zenon
      <4>2. H \in Int /\ E \in Nat
        BY <3>6, <3>8, Zenon
      <4> HIDE DEF more, H, E, n
      <4> QED BY <3>5, <4>1, <4>2
    <3> HIDE DEF more, H, E
    <3> QED BY <3>8, <3>9
  <2> QED BY <2>1, <2>2
<1>11. SizeOf(us) = SizeOf(gs) + ElementSize(m) + (2 + more)
  <2>1. SizeOf(us) = 13 + Total(v) /\ SizeOf(gs) = 13 + Total(s)
    BY DEF SizeOf, OVERHEAD, s, v
  <2>2. Total(s) \in Int /\ more \in Int
    BY <1>5, TotalType
  <2> HIDE DEF more
  <2> QED BY <1>7, <1>9, <1>10, <2>1, <2>2
<1>. QED
  BY <1>3, <1>4, <1>11 DEF us

\* No two groups share their header.
Distinct(gs) == \A j, k \in 1 .. Len(gs) : SameGroup(gs[j][1], gs[k][1]) => j = k

\* The groups chosen have headers of their own, and the queue counts the bytes of
\* their frame; the frame on air is that of the groups, until it is altered.
CodecInv ==
  /\ Groups(groups) /\ Distinct(groups)
  /\ size = SizeOf(groups) /\ size <= LIMIT
  /\ altered \in Nat
  /\ frame # Absent /\ altered = 0 => frame = Encode(Header, Selected)

\* The messages of the node are sound.
LEMMA MessagesSound ==
  ASSUME NEW m \in Messages
  PROVE  m \in Sound
  BY MessageAssumption, Zenon DEF Sound

\* The empty selection satisfies the invariant.
LEMMA CodecStart ==
  ASSUME CodecInit
  PROVE  CodecInv
<1>1. Groups(<<>>) /\ Distinct(<<>>)
  BY DEF Groups, Distinct
<1>2. SizeOf(<<>>) = OVERHEAD
  <2>1. SizesIn(<<>>) = <<>> /\ <<>> \in Seq(Int) /\ Len(<<>>) = 0
    BY DEF SizesIn
  <2>2. PICK c : Sums(c, <<>>) /\ Total(<<>>) = c[0]
    BY <2>1, TotalIs
  <2>3. Total(<<>>) = 0
    BY <2>2 DEF Sums
  <2> QED BY <2>1, <2>3 DEF SizeOf, OVERHEAD
<1>3. OVERHEAD <= LIMIT
  BY CodecAssumption DEF OVERHEAD
<1>. QED
  BY <1>1, <1>2, <1>3 DEF CodecInit, CodecInv

\* Packing a message keeps the invariant: the queue adds what the frame grows by.
LEMMA JoinKeeps ==
  ASSUME CodecInv, NEW m \in Messages, Join(m)
  PROVE  CodecInv'
<1> DEFINE n == Len(groups)
           same == {k \in DOMAIN groups : SameGroup(groups[k][1], m)}
           first == CHOOSE k \in same : \A l \in same : k <= l
           g == IF same = {} THEN n + 1 ELSE first
<1>1. /\ Groups(groups) /\ Distinct(groups) /\ size = SizeOf(groups) /\ altered \in Nat
      /\ groups \in Seq(Seq(Sound)) /\ n \in Nat /\ DOMAIN groups = 1 .. n
  BY LenProperties DEF CodecInv, Groups
<1>2. m \in Sound
  BY MessagesSound
<1>3. /\ frame = Absent /\ frame' = frame /\ altered' = altered
      /\ same # {} => Len(groups[g]) < GROUP_MAX
      /\ size' = size + Grow(g, m) /\ size + Grow(g, m) <= LIMIT
      /\ groups' = IF same = {} THEN Append(groups, <<m>>)
                   ELSE [groups EXCEPT ![g] = Append(@, m)]
  BY Zenon DEF Join
<1>4. CASE same = {}
  <2> HIDE DEF same
  <2>1. g = n + 1 /\ groups' = Append(groups, <<m>>)
    BY <1>3, <1>4
  <2>2. /\ Groups(groups') /\ Len(groups') = n + 1 /\ groups'[n + 1] = <<m>>
        /\ \A k \in 1 .. n : groups'[k] = groups[k]
        /\ SizeOf(groups') = SizeOf(groups) + ElementSize(m)
                             + (2 + IF groups # <<>> /\ Len(Last(groups)) = 1 THEN 1 ELSE 0)
    BY <1>1, <1>2, <2>1, SizeAppended
  <2>3. ElementSize(m) \in Int /\ SizeOf(groups) \in Int
    BY <1>1, <1>2, FieldsStand, SizesInAre, TotalType DEF SizeOf, OVERHEAD
  <2>4. Grow(g, m) = ElementSize(m)
                     + (2 + IF groups # <<>> /\ Len(Last(groups)) = 1 THEN 1 ELSE 0)
    <3>1. ~(g <= n)
      BY <1>1, <2>1
    <3> HIDE DEF g
    <3> QED BY <3>1, Zenon DEF Grow
  <2>5. size' = SizeOf(groups') /\ size' <= LIMIT
    <3> DEFINE more == IF groups # <<>> /\ Len(Last(groups)) = 1 THEN 1 ELSE 0
               M == ElementSize(m)
    <3>1. more \in Int
      OBVIOUS
    <3>2. /\ SizeOf(groups') = SizeOf(groups) + M + (2 + more)
          /\ Grow(g, m) = M + (2 + more)
          /\ M \in Int
      BY <2>2, <2>3, <2>4
    <3>3. size' = SizeOf(groups) + Grow(g, m) /\ size' <= LIMIT
      <4> HIDE DEF n, same
      <4> QED BY <1>1, <1>3
    <3> HIDE DEF more, M, g
    <3>4. size' = SizeOf(groups) + (M + (2 + more)) /\ SizeOf(groups) \in Int
      BY <2>3, <3>2, <3>3
    <3> HIDE DEF n
    <3>5. size' = SizeOf(groups')
      BY <3>1, <3>2, <3>4
    <3> QED BY <3>3, <3>5
  <2>6. Distinct(groups')
    <3>1. \A k \in 1 .. n : ~SameGroup(groups[k][1], m) /\ ~SameGroup(m, groups[k][1])
      BY <1>1, <1>4, SameGroupFacts, Zenon DEF same
    <3>2. <<m>>[1] = m
      OBVIOUS
    <3> SUFFICES ASSUME NEW j \in 1 .. n + 1, NEW k \in 1 .. n + 1,
                        SameGroup(groups'[j][1], groups'[k][1])
                 PROVE  j = k
      BY <2>2 DEF Distinct
    <3>3. (j \in 1 .. n \/ j = n + 1) /\ (k \in 1 .. n \/ k = n + 1)
      BY <1>1
    <3> HIDE DEF n, g
    <3>4. CASE j \in 1 .. n /\ k \in 1 .. n
      <4>1. groups'[j] = groups[j] /\ groups'[k] = groups[k]
        BY <2>2, <3>4
      <4> QED BY <1>1, <3>4, <4>1 DEF Distinct, n
    <3>5. CASE j \in 1 .. n /\ k = n + 1
      <4>1. SameGroup(groups[j][1], m)
        BY <2>2, <3>2, <3>5
      <4> QED BY <3>1, <3>5, <4>1
    <3>6. CASE j = n + 1 /\ k \in 1 .. n
      <4>1. SameGroup(m, groups[k][1])
        BY <2>2, <3>2, <3>6
      <4> QED BY <3>1, <3>6, <4>1
    <3> QED BY <3>3, <3>4, <3>5, <3>6
  <2> QED BY <1>1, <1>3, <2>2, <2>5, <2>6 DEF CodecInv
<1>5. CASE same # {}
  <2>1. first \in same
    <3>1. same \in SUBSET Nat
      BY <1>1
    <3> HIDE DEF same
    <3>2. \E k \in same : \A l \in same : k <= l
      BY <1>5, <3>1, LeastNatural
    <3> QED BY <3>2
  <2>2. g = first
    <3> HIDE DEF same, first
    <3> QED BY <1>5
  <2> HIDE DEF first
  <2>3. g \in 1 .. n /\ SameGroup(groups[g][1], m) /\ Len(groups[g]) < GROUP_MAX
    <3>1. g \in same
      BY <2>1, <2>2
    <3> HIDE DEF g
    <3> QED BY <1>1, <1>3, <1>5, <3>1
  <2>4. groups' = [groups EXCEPT ![g] = Append(@, m)]
    <3> HIDE DEF same, g
    <3> QED BY <1>3, <1>5
  <2> HIDE DEF same, g
  <2>5. /\ Groups(groups') /\ Len(groups') = n /\ \A k \in 1 .. n : groups'[k][1] = groups[k][1]
        /\ SizeOf(groups') = SizeOf(groups) + ElementSize(m) + Wider(groups, g)
        /\ Wider(groups, g) \in Int
    <3> DEFINE u == Append(groups[g], m)
    <3>1. u \in Seq(Sound)
      <4>1. groups[g] \in Seq(Sound)
        BY <1>1, <2>3, ElementOfSeq
      <4> QED BY <1>2, <4>1, AppendProperties
    <3> HIDE DEF u
    <3>2. groups' = [groups EXCEPT ![g] = u]
      BY <1>1, <2>3, <2>4 DEF u
    <3>3. /\ groups' \in Seq(Seq(Sound)) /\ Len(groups') = n /\ groups'[g] = u
          /\ \A k \in 1 .. n : k # g => groups'[k] = groups[k]
      BY <1>1, <2>3, <3>1, <3>2, ExceptSeq
    <3>4. groups'[g] = Append(groups[g], m)
      BY <3>3 DEF u
    <3> QED BY <1>1, <1>2, <2>3, <3>3, <3>4, SizeJoined
  <2>6. ElementSize(m) \in Int /\ SizeOf(groups) \in Int
    BY <1>1, <1>2, FieldsStand, SizesInAre, TotalType DEF SizeOf, OVERHEAD
  <2>7. Grow(g, m) = ElementSize(m) + Wider(groups, g)
    <3>1. g <= n
      BY <1>1, <2>3
    <3> QED BY <3>1, Zenon DEF Grow, Wider
  <2>8. size' = SizeOf(groups') /\ size' <= LIMIT
    <3>1. size' = SizeOf(groups) + Grow(g, m) /\ size' <= LIMIT
      <4> HIDE DEF n
      <4> QED BY <1>1, <1>3
    <3> QED BY <2>5, <2>6, <2>7, <3>1
  <2>9. Distinct(groups')
    <3> SUFFICES ASSUME NEW j \in 1 .. n, NEW k \in 1 .. n,
                        SameGroup(groups'[j][1], groups'[k][1])
                 PROVE  j = k
      BY <2>5 DEF Distinct
    <3>1. SameGroup(groups[j][1], groups[k][1])
      BY <2>5
    <3> QED BY <1>1, <3>1 DEF Distinct
  <2> QED BY <1>1, <1>3, <2>5, <2>8, <2>9 DEF CodecInv
<1>. QED
  BY <1>4, <1>5

\* Every step keeps the invariant.
LEMMA CodecStep ==
  ASSUME CodecInv, [CodecNext]_codecVars
  PROVE  CodecInv'
<1>1. ASSUME NEW m \in Messages, Join(m) PROVE CodecInv'
  BY <1>1, JoinKeeps
<1>2. CASE Send
  BY <1>2 DEF Send, CodecInv, Selected
<1>3. CASE Cut
  BY <1>3 DEF Cut, CodecInv
<1>4. ASSUME NEW i, NEW byte, Alter(i, byte) PROVE CodecInv'
  BY <1>4 DEF Alter, CodecInv
<1>5. CASE UNCHANGED codecVars
  BY <1>5 DEF codecVars, CodecInv, Selected
<1>. QED
  BY <1>1, <1>2, <1>3, <1>4, <1>5 DEF CodecNext

\* The size counted is that of the frame encoded, and what was packed is read back.
THEOREM Faithful == CodecSpec => []FrameFaithful
<1>1. CodecInit => CodecInv
  BY CodecStart
<1>2. CodecInv /\ [CodecNext]_codecVars => CodecInv'
  BY CodecStep
<1>3. CodecInv => FrameFaithful
  <2> SUFFICES ASSUME CodecInv, frame # Absent, altered = 0 PROVE FrameFaithful
    BY DEF FrameFaithful
  <2>1. Groups(groups) /\ Distinct(groups) /\ size = SizeOf(groups) /\ size <= LIMIT
    BY DEF CodecInv
  <2>2. frame = Encode(Header, FlattenSeq(groups))
    BY DEF CodecInv, Selected
  <2>3. Apart(groups)
    <3>1. Len(groups) \in Nat
      BY <2>1, LenProperties DEF Groups
    <3>2. \A k \in 2 .. Len(groups) : k - 1 \in 1 .. Len(groups) /\ k \in 1 .. Len(groups) /\ k - 1 # k
      BY <3>1
    <3> QED BY <2>1, <3>2 DEF Apart, Distinct
  <2>4. SizeOf(groups) <= 255
    <3>1. SizeOf(groups) \in Int
      BY <2>1, SizesInAre, TotalType DEF SizeOf, OVERHEAD
    <3>2. LIMIT \in Int /\ LIMIT <= 255
      BY CodecAssumption
    <3> HIDE DEF CodecInv
    <3> QED BY <2>1, <3>1, <3>2
  <2>5. /\ Len(frame) = size /\ FrameSize(FlattenSeq(groups)) = size
        /\ DecodeHeader(frame) = Header
        /\ Decode(frame).error = "none" /\ Decode(frame).messages = FlattenSeq(groups)
    BY <2>1, <2>2, <2>3, <2>4, FrameRead
  <2> QED BY <2>5 DEF FrameFaithful, Selected
<1>. QED
  BY <1>1, <1>2, <1>3, PTL DEF CodecSpec
=============================================================================
