------------------------------- MODULE DutyCycle -------------------------------
(***************************************************************************)
(* mesh/dutycycle.py and its use by mesh/link.py: the air time of a board, *)
(* charged to the bins of a sliding window kept in retained memory.        *)
(*                                                                         *)
(* A frame is admitted when it is packed, charged when it starts, once the *)
(* channel was sensed, and charged again when it ends if it lasted longer  *)
(* than computed; time passes in between, and the board may be reset at    *)
(* any point.  The clock of the board restarts with it: as only            *)
(* differences of times are used, the model counts in true time, with the  *)
(* window bound to the clock at the first call after a boot, as in the     *)
(* code.                                                                   *)
(***************************************************************************)
EXTENDS Integers

CONSTANTS
  BINS,        \* complete bins of the window (60)
  BIN,         \* time units of a bin (60 s)
  BUDGET,      \* air time allowed per window
  Percent,     \* share of the budget allowed to each priority: <<100, 80, 60>>
  TOAS,        \* computed times on air
  EXCESS,      \* bound: how much longer than computed a frame may last
  MAX_TIME,    \* bound: end of time
  MAX_RESETS   \* bound: soft resets

ASSUME DutyCycleAssumption ==
  /\ BINS \in Nat \ {0} /\ BIN \in Nat \ {0}
  /\ BUDGET \in Nat
  /\ DOMAIN Percent = 1 .. 3 /\ \A p \in 1 .. 3 : Percent[p] \in 0 .. 100
  /\ TOAS \subseteq Nat \ {0}
  /\ EXCESS \in Nat /\ MAX_TIME \in Nat /\ MAX_RESETS \in Nat

VARIABLES
  time,    \* true time
  window,  \* the charges: [slots, head, total, start, phase]
  saved,   \* retained memory: the window as of the last charge
  access,  \* transmit path: "IDLE", "SENSING" or "TRANSMITTING"
  frame,   \* the frame packed or on air: [prio, toa]
  air,     \* history: air time charged when a frame started, by time
  extra,   \* history: air time charged when a frame ended, by time
  resets   \* history: number of soft resets

vars == <<time, window, saved, access, frame, air, extra, resets>>

Times == 0 .. MAX_TIME
Priorities == 1 .. 3
Window == BINS * BIN

\* Mutant: the window has no bin to spare.
CountOfWindow == BINS

\* Mutant: one bin more than needed to spare.
CountOneMore == BINS + 2

\* Slots: the bins of the window and the current one.
Count == BINS + 1

Slots == 0 .. Count - 1

\* The window of a boot without a valid record; it starts at the first call.
NotStarted == -1 - Window
Empty == [slots |-> [i \in Slots |-> 0], head |-> 0, total |-> 0,
          start |-> NotStarted, phase |-> 0]

NoFrame == [prio |-> 1, toa |-> 0]

Init ==
  /\ time = 0
  /\ window = Empty
  /\ saved = Empty
  /\ access = "IDLE"
  /\ frame = NoFrame
  /\ air = [t \in Times |-> 0]
  /\ extra = [t \in Times |-> 0]
  /\ resets = 0

------------------------------------------------------------------------------
\* The sum of f over the elements of S below n.
Sum(f, n, S) ==
  LET sum[i \in 0 .. n] ==
        IF i = 0 THEN 0 ELSE sum[i - 1] + (IF i - 1 \in S THEN f[i - 1] ELSE 0)
  IN  sum[n]

Total(slots) == Sum(slots, Count, Slots)

\* The slots cleared when the current bin moves e bins ahead of head.
Left(head, e) == IF e >= Count THEN Slots ELSE {(head + k) % Count : k \in 1 .. e}

\* Mutant: the total keeps the charges that leave.
TotalKept(w, gone) == w.total

\* The total once the slots gone are cleared.
TotalWithout(w, gone) == w.total - Sum(w.slots, Count, gone)

\* _advance: the window w at time t; the first call binds it to the clock.
Advance(w, t) ==
  IF w.start = NotStarted THEN [w EXCEPT !.start = t - w.phase]
  ELSE LET e == (t - w.start) \div BIN
           gone == Left(w.head, e)
       IN  [w EXCEPT !.slots = [i \in Slots |-> IF i \in gone THEN 0 ELSE w.slots[i]],
                     !.total = TotalWithout(w, gone),
                     !.head = IF e >= Count THEN @ ELSE (@ + e) % Count,
                     !.start = @ + e * BIN]

\* Mutant: charged without advancing the window first.
ChargeStale(ms) ==
  LET c == [window EXCEPT !.slots[window.head] = @ + ms, !.total = @ + ms]
  IN  IF ms = 0 THEN UNCHANGED <<window, saved>>
                ELSE window' = c /\ saved' = [c EXCEPT !.start = NotStarted, !.phase = time - c.start]

\* _charge of ms, if any, to the current bin, saved.
Charge(ms) ==
  LET w == Advance(window, time)
      c == [w EXCEPT !.slots[w.head] = @ + ms, !.total = @ + ms]
  IN  IF ms = 0 THEN window' = w /\ UNCHANGED saved
                ELSE window' = c /\ saved' = [c EXCEPT !.start = NotStarted, !.phase = time - c.start]

Allowance(p) == (BUDGET * Percent[p]) \div 100

\* Mutant: the frame itself is not counted.
AllowsUsed(w, p, toa) == w.total < Allowance(p)

\* allows: the frame fits the allowance of the priority, the window being w.
Allows(w, p, toa) == w.total + toa <= Allowance(p)

\* pack: a frame of least urgent priority p is admitted.
Pack(p, toa) ==
  /\ access = "IDLE"
  /\ window' = Advance(window, time)
  /\ Allows(window', p, toa)
  /\ access' = "SENSING"
  /\ frame' = [prio |-> p, toa |-> toa]
  /\ UNCHANGED <<time, saved, air, extra, resets>>

\* used, allows or next_release, for a frame refused or a report: the window
\* advances.
Look ==
  /\ window' = Advance(window, time)
  /\ UNCHANGED <<time, saved, access, frame, air, extra, resets>>

\* The channel is busy, or no frame counter is left to send the frame: it will be
\* packed anew.
ChannelBusy ==
  /\ access = "SENSING"
  /\ access' = "IDLE"
  /\ frame' = NoFrame
  /\ UNCHANGED <<time, window, saved, air, extra, resets>>

\* start: the frame packed goes on air.
Transmit ==
  /\ access = "SENSING"
  /\ Charge(frame.toa)
  /\ access' = "TRANSMITTING"
  /\ air' = [air EXCEPT ![time] = @ + frame.toa]
  /\ UNCHANGED <<time, frame, extra, resets>>

\* done: the frame lasted that much longer than computed.
TxDone(excess) ==
  /\ access = "TRANSMITTING"
  /\ Charge(excess)
  /\ access' = "IDLE"
  /\ frame' = NoFrame
  /\ extra' = [extra EXCEPT ![time] = @ + excess]
  /\ UNCHANGED <<time, air, resets>>

Tick ==
  /\ time < MAX_TIME
  /\ time' = time + 1
  /\ UNCHANGED <<window, saved, access, frame, air, extra, resets>>

\* _restore accepts the record r.
Valid(r) == r.head \in Slots /\ r.phase < BIN /\ Total(r.slots) = r.total

\* Soft reset or watchdog: the window is the one of the last charge.
SoftReset ==
  /\ resets < MAX_RESETS
  /\ resets' = resets + 1
  /\ window' = IF Valid(saved) THEN saved ELSE Empty
  /\ access' = "IDLE"
  /\ frame' = NoFrame
  /\ UNCHANGED <<time, saved, air, extra>>

\* Power loss: retained memory is cleared, an accepted risk: the air time
\* forgotten counts no more.
PowerLoss ==
  /\ saved # Empty
  /\ window' = Empty
  /\ saved' = Empty
  /\ access' = "IDLE"
  /\ frame' = NoFrame
  /\ air' = [t \in Times |-> 0]
  /\ extra' = [t \in Times |-> 0]
  /\ UNCHANGED <<time, resets>>

Next ==
  \/ \E p \in Priorities, toa \in TOAS : Pack(p, toa)
  \/ Look
  \/ ChannelBusy
  \/ Transmit
  \/ \E excess \in 0 .. EXCESS : TxDone(excess)
  \/ Tick
  \/ SoftReset
  \/ PowerLoss

Spec == Init /\ [][Next]_vars

------------------------------------------------------------------------------
Windows ==
  [slots : [Slots -> Nat], head : Slots, total : Nat,
   start : Int, phase : 0 .. BIN - 1]

\* The type invariant of the window, its record and the transmit path.
TypeOK ==
  /\ time \in Times
  /\ window \in Windows /\ saved \in Windows
  /\ access \in {"IDLE", "SENSING", "TRANSMITTING"}
  /\ frame \in [prio : Priorities, toa : TOAS \cup {0}]
  /\ air \in [Times -> Nat] /\ extra \in [Times -> Nat]
  /\ resets \in 0 .. MAX_RESETS

\* Air time of the history f charged in the last d units of time, now included.
Within(f, d) == Sum(f, MAX_TIME + 1, {t \in Times : t <= time /\ t >= time - d})

\* What used(now) would return.
Used == Advance(window, time).total

\* Every charge counts for a whole window at least, soft resets included
\* (dutycycle.py 3-10 and 23-27: the window "can only keep airtime longer").
NeverUndercounted == Used >= Within(air, Window) + Within(extra, Window)

\* Without a reset no charge counts longer than a window and a bin.
ForgottenInTime == resets = 0 => Used <= Within(air, Window + BIN) + Within(extra, Window + BIN)

\* The record is accepted by a restoration, which drops another one silently.
RecordValid == Valid(saved)

\* When a frame starts, the air time computed for the frames started within one
\* window, that one included, is within the allowance of its priority, although
\* it was admitted before the channel was sensed (sim/invariants.py 797-810).
WithinAllowance ==
  [][air' # air /\ air'[time] # 0 => Within(air', Window) <= Allowance(frame.prio)]_vars
==============================================================================
