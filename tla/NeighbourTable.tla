---------------------------- MODULE NeighbourTable ----------------------------
(***************************************************************************)
(* mesh/neighbours.py: the table of one board, with the reception and      *)
(* acknowledgement windows of its entries, the ageing of failures, the     *)
(* expiry of silent entries and the cached time of the next scan, and the  *)
(* parents that selection flags (mesh/parents.py).                         *)
(*                                                                         *)
(* Times are kept as ages: a tick makes everything one unit older, up to   *)
(* the longest limit that tests them.  soon is the time left before        *)
(* _next_expiry.  remove, which nothing calls, is left out.                *)
(***************************************************************************)
EXTENDS Integers, Sequences, FiniteSets

CONSTANTS
  Addresses,        \* neighbours
  Measured,         \* neighbours whose link quality varies (bound)
  ROOT,             \* address of the root
  CAPACITY,         \* entries
  Periods,          \* presence periods
  EXPIRY_PERIODS,   \* periods without a frame before removal (4)
  SILENCE_HALVES,   \* silence limit in half periods (5)
  WINDOW,           \* counters of the reception window, samples of p_ack (16)
  ACK_MIN,          \* samples before p_ack replaces d_in (4)
  UNREACH_RUN,      \* failed samples of an unreachable link (4)
  ETX_ONE,          \* fixed-point unit of the ETX (128)
  None

ASSUME TableAssumption ==
  /\ Measured \subseteq Addresses /\ None \notin Nat
  /\ CAPACITY \in Nat \ {0} /\ Periods \subseteq Nat \ {0}
  /\ \E p \in Periods : \A q \in Periods : q <= p
  /\ EXPIRY_PERIODS \in Nat \ {0} /\ SILENCE_HALVES \in 0 .. 2 * EXPIRY_PERIODS
  /\ WINDOW \in Nat \ {0} /\ ACK_MIN \in 1 .. WINDOW /\ UNREACH_RUN \in 1 .. WINDOW
  /\ ETX_ONE \in Nat \ {0}

VARIABLES
  table,   \* address -> entry, for the addresses in the table
  period,  \* presence period
  soon     \* time left before the next scan

vars == <<table, period, soon>>

ETX_MAX == 4 * ETX_ONE
Limit(p) == EXPIRY_PERIODS * p
Silence(p) == (SILENCE_HALVES * p) \div 2
LongestPeriod == CHOOSE p \in Periods : \A q \in Periods : q <= p

Least(S) == CHOOSE x \in S : \A y \in S : x <= y

Init == table = [a \in {} |-> None] /\ period \in Periods /\ soon = 0

------------------------------------------------------------------------------
(* One entry: [heard, answered: ages; fail: age of the newest failure in   *)
(* the window, or None; run, latched, parent; rx: which counters of the    *)
(* reception window were received, acks: samples, oldest first; margin:    *)
(* "none" measured yet, "good" or "bad" by the hysteresis].                *)

New == [heard |-> 0, answered |-> 0, fail |-> None, run |-> 0, latched |-> FALSE,
        parent |-> FALSE, rx |-> <<TRUE>>, acks |-> <<>>, margin |-> "none"]

Newest(s) == SubSeq(s, 1 + Len(s) - Least({Len(s), WINDOW}), Len(s))

Trues(s) == Cardinality({i \in DOMAIN s : s[i]})

\* _counter: the counters skipped were lost.
Received(rx, gap) ==
  IF gap > WINDOW THEN <<TRUE>>
  ELSE Newest(rx \o [i \in 1 .. gap |-> i = gap])

\* heard, of an entry: a frame with a later counter.
Again(e, gap) == [e EXCEPT !.heard = 0, !.rx = Received(@, gap)]

\* _margin: the average of the last frames is below MARGIN_LOW, above MARGIN_HIGH or
\* between.
Margin(margin, average) ==
  CASE average = "low" -> "bad"
    [] average = "high" -> "good"
    [] OTHER -> IF margin = "none" THEN "good" ELSE margin

\* _ack
Ack(e, ok) ==
  LET acks == Newest(Append(e.acks, ok))
  IN  [e EXCEPT !.acks = acks, !.latched = @ \/ Len(acks) >= ACK_MIN,
                !.run = IF ok THEN 0 ELSE Least({@ + 1, UNREACH_RUN}),
                !.answered = IF ok THEN 0 ELSE @, !.fail = IF ok THEN @ ELSE 0]

\* A mutant of Age: the run goes on.
AgeKeepingRun(e) == [e EXCEPT !.acks = [i \in 1 .. Trues(@) |-> TRUE], !.fail = None]

\* _age: the failures are forgotten.
Age(e) == [e EXCEPT !.acks = [i \in 1 .. Trues(@) |-> TRUE], !.fail = None, !.run = 0]

\* etx
Etx(e) ==
  LET n == Len(e.acks)
      acked == Trues(e.acks)
      squared == Trues(e.rx) * Trues(e.rx)
  IN  IF n >= ACK_MIN \/ (n > 0 /\ e.latched)
        THEN IF acked = 0 THEN (n + 1) * ETX_ONE ELSE (n * ETX_ONE + acked \div 2) \div acked
        ELSE (Len(e.rx) * Len(e.rx) * ETX_ONE + squared \div 2) \div squared

\* reachable
Reachable(e) == e.run < UNREACH_RUN \/ e.answered < Silence(period)

\* eligible
Eligible(a, e, reach) ==
  e.margin = "good" /\ IF reach \/ a = ROOT THEN Reachable(e) ELSE Etx(e) <= ETX_MAX

------------------------------------------------------------------------------
(* The table. *)

Only(t, S) == [a \in S |-> t[a]]

\* What ends of entry e: its own expiry, and the ageing of its failures.
Ends(e, p) == {Limit(p) - e.heard} \cup (IF e.fail = None THEN {} ELSE {Silence(p) - e.fail})

\* expire: the entries kept, and the time left before the next scan.
Kept(t) ==
  LET kept == {a \in DOMAIN t : t[a].heard < Limit(period)}
  IN  [a \in kept |-> IF t[a].fail # None /\ t[a].fail >= Silence(period) THEN Age(t[a]) ELSE t[a]]

Scanned(t) == IF soon > 0 THEN t ELSE Kept(t)

NextScan(t) ==
  IF soon > 0 THEN soon
  ELSE Least({Limit(period)} \cup UNION {Ends(Kept(t)[a], period) : a \in DOMAIN Kept(t)})

Expire == table' = Scanned(table) /\ soon' = NextScan(table) /\ UNCHANGED period

\* A mutant of Victims: a parent may be evicted.
VictimsAny(t) == {a \in DOMAIN t : \A b \in DOMAIN t : t[b].heard <= t[a].heard}

\* _evict: the stalest entries that are no parents (the first slot among equals).
Victims(t) ==
  {a \in DOMAIN t : ~t[a].parent /\ \A b \in DOMAIN t : t[b].parent \/ t[b].heard <= t[a].heard}

\* _insert: where there is room, or in place of a victim; refused if all are parents.
Places(t) ==
  IF Cardinality(DOMAIN t) < CAPACITY THEN {t}
  ELSE {Only(t, DOMAIN t \ {v}) : v \in Victims(t)}

\* heard: a frame with a counter gap above the last one; gap 0 is a stale one.
Heard(a, gap, average) ==
  LET t == Scanned(table)
      measured(e) == [e EXCEPT !.margin = IF average = "none" THEN @ ELSE Margin(@, average)]
  IN  /\ IF a \in DOMAIN t
           THEN table' = IF gap = 0 THEN t ELSE [t EXCEPT ![a] = measured(Again(t[a], gap))]
           ELSE \/ Places(t) = {} /\ table' = t
                \/ \E u \in Places(t) :
                     table' = [b \in DOMAIN u \cup {a} |-> IF b = a THEN measured(New) ELSE u[b]]
      /\ soon' = NextScan(table)
      /\ UNCHANGED period

\* A mutant of Acked: the ageing of a failure does not bring the scan forward.
AckedLate(a, ok) ==
  /\ a \in DOMAIN table
  /\ table' = [table EXCEPT ![a] = Ack(@, ok)]
  /\ UNCHANGED <<period, soon>>

\* acked: one sample of the neighbour.
Acked(a, ok) ==
  /\ a \in DOMAIN table
  /\ table' = [table EXCEPT ![a] = Ack(@, ok)]
  /\ soon' = IF ok THEN soon ELSE Least({soon, Silence(period)})
  /\ UNCHANGED period

\* answered: an acknowledgement that gives no sample.
Answered(a) ==
  /\ a \in DOMAIN table
  /\ table' = [table EXCEPT ![a].run = 0, ![a].answered = 0]
  /\ UNCHANGED <<period, soon>>

\* set_period
SetPeriod(p) == p # period /\ period' = p /\ soon' = 0 /\ UNCHANGED table

\* _select of parents.py: expire, then flag the members, heard within the silence
\* limit over eligible links; another preferred parent, which may have been a member
\* already, restarts its reachability.
Select(members, preferred, changed) ==
  LET t == Scanned(table)
      restarts == preferred # ROOT /\ (changed \/ ~t[preferred].parent)
  IN  /\ members \subseteq DOMAIN t
      /\ \A a \in members : t[a].heard < Silence(period) /\ Eligible(a, t[a], a = preferred)
      /\ table' = [a \in DOMAIN t |->
                     [t[a] EXCEPT !.parent = a \in members,
                                  !.run = IF a = preferred /\ restarts THEN 0 ELSE @,
                                  !.answered = IF a = preferred /\ restarts THEN 0 ELSE @]]
      /\ soon' = NextScan(table)
      /\ UNCHANGED period

\* _detach: no parents.
Detach ==
  /\ table' = [a \in DOMAIN table |-> [table[a] EXCEPT !.parent = FALSE]]
  /\ UNCHANGED <<period, soon>>

Older(age, longest) == Least({age + 1, longest})

Tick ==
  /\ table' = [a \in DOMAIN table |->
                 [table[a] EXCEPT !.heard = Older(@, Limit(LongestPeriod)),
                                  !.answered = Older(@, Silence(LongestPeriod)),
                                  !.fail = IF @ = None THEN None ELSE Older(@, Silence(LongestPeriod))]]
  /\ soon' = IF soon = 0 THEN 0 ELSE soon - 1
  /\ UNCHANGED period

Next ==
  \/ \E a \in Measured, gap \in 0 .. WINDOW + 1, average \in {"none", "low", "mid", "high"} :
       Heard(a, gap, average)
  \/ \E a \in Addresses \ Measured : Heard(a, 1, "high")
  \/ \E a \in Measured : Answered(a) \/ \E ok \in BOOLEAN : Acked(a, ok)
  \/ \E p \in Periods : SetPeriod(p)
  \/ \E members \in SUBSET Addresses, changed \in BOOLEAN :
       \E preferred \in members : Select(members, preferred, changed)
  \/ Expire \/ Detach \/ Tick

Spec == Init /\ [][Next]_vars

------------------------------------------------------------------------------
Ages == 0 .. Limit(LongestPeriod)

TypeOK ==
  /\ DOMAIN table \subseteq Addresses /\ Cardinality(DOMAIN table) <= CAPACITY
  /\ period \in Periods /\ soon \in Ages
  /\ \A a \in DOMAIN table :
       LET e == table[a]
       IN  /\ e.heard \in Ages /\ e.answered \in Ages /\ e.fail \in Ages \cup {None}
           /\ e.run \in 0 .. UNREACH_RUN /\ e.margin \in {"none", "good", "bad"}
           /\ Len(e.rx) \in 1 .. WINDOW /\ Len(e.acks) \in 0 .. WINDOW
           /\ e.rx[Len(e.rx)]

\* The cached time of the next scan is never later than the expiry of an entry or the
\* ageing of a failure: skipping the scan before it never keeps a silent neighbour
\* (neighbours.py, expire).
CacheSound ==
  \A a \in DOMAIN table : \A end \in Ends(table[a], period) : soon > 0 => soon <= end

\* The run of failed samples never counts a failure that the acknowledgement window
\* has forgotten, so that a link is unreachable only on samples it still has; and a
\* failure still in the window will age out (neighbours.py, _ack, _age, restart_reach).
RunInWindow ==
  \A a \in DOMAIN table :
    LET e == table[a]
        n == Len(e.acks)
    IN  /\ e.run <= n /\ \A i \in n - e.run + 1 .. n : ~e.acks[i]
        /\ e.fail = None => \A i \in 1 .. n : e.acks[i]

\* A parent leaves the table only because it was not heard for the whole limit: never
\* to make room (neighbours.py, _evict; MP13).
ParentsKept ==
  [][\A a \in DOMAIN table : table[a].parent /\ a \notin DOMAIN table' =>
       table[a].heard >= Limit(period)]_vars
==============================================================================
