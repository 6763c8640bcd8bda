-------------------------------- MODULE Board --------------------------------
(***************************************************************************)
(* One board: the runner's task (mesh/runner.py), the transmit path of the *)
(* core (mesh/core.py, mesh/link.py), the SX1262 adapter with its tasks    *)
(* (board/sx1262.py, board/sense.py) and the contract between them         *)
(* (mesh/radio.py, sily/radio.py).                                         *)
(*                                                                         *)
(* Tasks are cooperative: while the runner is between two waits no other   *)
(* task runs, but time passes and the radio raises interrupts.  An SPI     *)
(* error may end any radio operation half way.                             *)
(***************************************************************************)
EXTENDS Integers, FiniteSets, SequencesExt

CONSTANTS
  MAX_ATTEMPTS,  \* busy senses before giving up
  MAX_PENDING,   \* bound: messages queued
  MAX_EVENTS,    \* bound: events waiting when a frame is received
  MAX_RAW,       \* bound: raw frames sent by the bench
  MAX_ERRORS     \* bound: SPI errors

ASSUME BoardAssumption ==
  /\ MAX_ATTEMPTS \in Nat \ {0} /\ MAX_PENDING \in Nat \ {0}
  /\ MAX_EVENTS \in Nat /\ MAX_RAW \in Nat /\ MAX_ERRORS \in Nat

VARIABLES
  run,     \* runner: "start", "outer", "drain", "wait" or "ended"
  queue,   \* _events
  woken, stopped, flag,
  core,    \* transmit path: [state, attempts, dirty, timer, pending]
  radio,   \* adapter and chip: [tx, raw, air, irq, edge, late, window]
  cutting, \* a task waits to cut its raw frame
  raws, errors

vars == <<run, queue, woken, stopped, flag, core, radio, cutting, raws, errors>>

\* timer: the deadline is "none", "set" or "due".  irq: flags of the chip not cleared;
\* edge: the interrupt was raised since the service task last woke; air: "rx",
\* "mesh", "raw" (on air) or "standby"; window: of Reception.
Init ==
  /\ run = "start" /\ queue = <<>> /\ woken = FALSE /\ stopped = FALSE /\ flag = FALSE
  /\ core = [state |-> "IDLE", attempts |-> 0, dirty |-> FALSE, timer |-> "none", pending |-> 0]
  /\ radio = [tx |-> FALSE, raw |-> FALSE, air |-> "rx", irq |-> {}, edge |-> FALSE,
              late |-> FALSE, window |-> "none"]
  /\ cutting = FALSE /\ raws = 0 /\ errors = 0

------------------------------------------------------------------------------
(* The adapter.  An outcome is [radio, posts, errors]: the new state, the  *)
(* events posted and the errors met.                                       *)

Outcome(r, posts, n) == [radio |-> r, posts |-> posts, errors |-> n]

\* _receive, which an SPI error leaves in standby.
Receive(r) == {Outcome([r EXCEPT !.air = "rx"], <<>>, 0),
               Outcome([r EXCEPT !.air = "standby"], <<>>, 1)}

\* _tx_done: back to reception, then the report.
TxDone(r) ==
  LET posts == IF r.raw THEN <<>> ELSE <<"TX_DONE">>
  IN  {IF o.errors = 0
         THEN Outcome([o.radio EXCEPT !.tx = FALSE, !.raw = FALSE], posts, 0)
         ELSE o : o \in Receive(r)}

\* _service: every flag is handled; in transmission all but TX_DONE are dropped.
Service(r) ==
  LET clear == [r EXCEPT !.irq = {}]
  IN  IF r.irq = {} THEN {Outcome(r, <<>>, 0)}
      ELSE {Outcome(r, <<>>, 1)} \cup
           (IF r.tx THEN IF "done" \in r.irq THEN TxDone(clear) ELSE {Outcome(clear, <<>>, 0)}
            ELSE IF r.irq \cap {"rx", "crc"} # {}
              THEN {Outcome([clear EXCEPT !.window = "none"],
                            <<IF "crc" \in r.irq THEN "RX_ERROR" ELSE "RX">>, 0)}
            ELSE IF "preamble" \in r.irq THEN {Outcome([clear EXCEPT !.window = "open"], <<>>, 0)}
            ELSE {Outcome(clear, <<>>, 0)})

\* A mutant of StartTransmit: a raw frame not sent is reported too.
StartTransmitReporting(r, kind) ==
  LET sending == [r EXCEPT !.window = "none", !.tx = TRUE, !.late = FALSE, !.air = kind]
      stopping == [r EXCEPT !.window = "none", !.tx = FALSE, !.raw = FALSE]
  IN  {Outcome(sending, <<>>, 0)} \cup
      {Outcome(o.radio, <<"TX_DONE">>, 1 + o.errors) : o \in Receive(stopping)}

\* transmit: an error before the start is reported as a frame not sent.
StartTransmit(r, kind) ==
  LET sending == [r EXCEPT !.window = "none", !.tx = TRUE, !.late = FALSE, !.air = kind]
      stopping == [r EXCEPT !.window = "none", !.tx = FALSE, !.raw = FALSE]
  IN  {Outcome(sending, <<>>, 0)} \cup
      {Outcome(o.radio, IF r.raw THEN <<>> ELSE <<"TX_DONE">>, 1 + o.errors) : o \in Receive(stopping)}

\* busy: what happens to the outcome s of servicing the interrupts.
Sensed(s) ==
  LET r == s.radio
      active == r.window = "open"
      past == [r EXCEPT !.window = IF active THEN @ ELSE "none"]
  IN  IF r.tx \/ active THEN {Outcome(past, s.posts \o <<"busy">>, s.errors)}
      ELSE {Outcome(past, s.posts \o <<answer>>, s.errors) : answer \in {"busy", "free"}}

\* A mutant of Sense: only the RSSI is looked at.
SenseRssi(r) == {Outcome(r, <<answer>>, 0) : answer \in {"busy", "free"}}

Sense(r) ==
  IF r.tx THEN {Outcome(r, <<"busy">>, 0)}
  ELSE UNION {Sensed(s) : s \in Service(r)}

\* _abort: standby, reception, then no transmission.
Abort(r) ==
  {Outcome(r, <<>>, 1)} \cup
  {IF o.errors = 0 THEN Outcome([o.radio EXCEPT !.tx = FALSE, !.raw = FALSE], <<>>, 0) ELSE o :
     o \in Receive(r)}

\* A mutant of Watch: the timeout is not reported to the core.
WatchSilent(r) ==
  IF r.tx /\ r.late THEN Abort(r) ELSE {Outcome(r, <<>>, 0)}

\* _watch: a transmission past its deadline is aborted and reported; reception is
\* restored.
Watch(r) ==
  IF r.tx
    THEN IF r.late
           THEN {[o EXCEPT !.posts = IF o.radio.tx \/ r.raw THEN <<>> ELSE <<"TX_DONE">>] : o \in Abort(r)}
           ELSE {Outcome(r, <<>>, 0)}
    ELSE IF r.window = "open" \/ r.air = "rx" THEN {Outcome([r EXCEPT !.window =
                                                     IF @ = "over" THEN "none" ELSE @], <<>>, 0)}
    ELSE Receive(r)

------------------------------------------------------------------------------
(* The transmit path of the core.  A result is [core, action].             *)

Result(c, action) == [core |-> c, action |-> action]

\* _access: pack and sense, or wait for the duty cycle.
Access(c) ==
  LET idle == [c EXCEPT !.dirty = FALSE, !.timer = "none", !.state = "IDLE"]
  IN  IF c.pending = 0 THEN {Result([idle EXCEPT !.attempts = 0], "none")}
      ELSE {Result([idle EXCEPT !.state = "SENSING", !.attempts = @ + 1], "SENSE"),
            Result([idle EXCEPT !.attempts = 0, !.timer = "set"], "none")}

\* _service of the link engine, at the end of a step.
EndOfStep(c) ==
  IF \/ c.state = "IDLE" /\ (c.dirty \/ c.timer = "due")
     \/ c.state = "BACKOFF" /\ c.timer = "due"
    THEN Access(c) ELSE {Result(c, "none")}

\* _channel: transmit, or wait a backoff, which gives up after MAX_ATTEMPTS.
Channel(c, answer) ==
  IF c.state # "SENSING" THEN {Result(c, "none")}
  ELSE IF answer = "free"
    THEN {Result([c EXCEPT !.state = "TRANSMITTING", !.attempts = 0, !.pending = @ - 1], "TX")}
    ELSE {Result([c EXCEPT !.state = "BACKOFF", !.timer = "set",
                           !.attempts = IF @ >= MAX_ATTEMPTS THEN 0 ELSE @], "none")}

\* handle: the event, before the end of the step; a frame received may queue another.
Handle(c, event) ==
  CASE event \in {"busy", "free"} -> Channel(c, event)
    [] event = "TX_DONE" ->
         {Result(IF c.state = "TRANSMITTING" THEN [c EXCEPT !.state = "IDLE", !.dirty = TRUE] ELSE c, "none")}
    [] event = "RX" ->
         {Result(d, "none") :
            d \in {c} \cup IF c.pending = MAX_PENDING THEN {}
                           ELSE {[c EXCEPT !.pending = @ + 1, !.dirty = TRUE]}}
    [] OTHER -> {Result(c, "none")}

\* step: the event, then what is due.
CoreStep(event) ==
  UNION {IF h.action = "none" THEN EndOfStep(h.core) ELSE {h} : h \in Handle(core, event)}

\* execute: hand the action to the adapter.
Execute(action) ==
  CASE action = "SENSE" -> Sense(radio)
    [] action = "TX" -> StartTransmit(radio, "mesh")
    [] OTHER -> {Outcome(radio, <<>>, 0)}

------------------------------------------------------------------------------
\* The outcome of an operation of the radio enters the state; before are the events
\* left to process.
Takes(o, before) ==
  /\ errors + o.errors <= MAX_ERRORS
  /\ errors' = errors + o.errors
  /\ radio' = o.radio
  /\ queue' = before \o o.posts

\* _step
Step(event, before) ==
  \E s \in CoreStep(event) :
    /\ core' = s.core
    /\ \E o \in Execute(s.action) :
         Takes(o, before) /\ flag' = (flag \/ o.posts # <<>>)

(* The runner's task. *)

Start ==
  /\ run = "start" /\ run' = "outer"
  /\ Step("none", queue)
  /\ UNCHANGED <<woken, stopped, cutting, raws>>

Outer ==
  /\ run = "outer" /\ run' = IF stopped THEN "ended" ELSE "drain"
  /\ UNCHANGED <<queue, woken, stopped, flag, core, radio, cutting, raws, errors>>

Drain ==
  /\ run = "drain" /\ queue # <<>>
  /\ Step(Head(queue), Tail(queue))
  /\ UNCHANGED <<run, woken, stopped, cutting, raws>>

Woken ==
  /\ run = "drain" /\ queue = <<>> /\ woken
  /\ run' = "outer" /\ woken' = FALSE
  /\ Step("none", queue)
  /\ UNCHANGED <<stopped, cutting, raws>>

Due ==
  /\ run = "drain" /\ queue = <<>> /\ ~woken /\ core.timer = "due"
  /\ run' = "outer"
  /\ Step("none", queue)
  /\ UNCHANGED <<woken, stopped, cutting, raws>>

\* A mutant of Sleep: an event left between two tests is slept over.
SleepUntested ==
  /\ run = "drain" /\ core.timer # "due"
  /\ run' = "wait" /\ flag' = FALSE
  /\ UNCHANGED <<queue, woken, stopped, core, radio, cutting, raws, errors>>

Sleep ==
  /\ run = "drain" /\ queue = <<>> /\ ~woken /\ core.timer # "due"
  /\ run' = "wait" /\ flag' = FALSE
  /\ UNCHANGED <<queue, woken, stopped, core, radio, cutting, raws, errors>>

\* The flag, the deadline, or MAX_WAIT_MS.
WakeUp ==
  /\ run = "wait" /\ run' = "outer"
  /\ UNCHANGED <<queue, woken, stopped, flag, core, radio, cutting, raws, errors>>

------------------------------------------------------------------------------
(* The other tasks, which run while the runner waits. *)

Free == run \in {"wait", "ended"}

\* A submission and Runner.wake.
Submit ==
  /\ Free /\ core.pending < MAX_PENDING
  /\ core' = [core EXCEPT !.pending = @ + 1, !.dirty = TRUE]
  /\ woken' = TRUE /\ flag' = TRUE
  /\ UNCHANGED <<run, queue, stopped, radio, cutting, raws, errors>>

Stop ==
  /\ Free /\ ~stopped
  /\ stopped' = TRUE /\ flag' = TRUE
  /\ UNCHANGED <<run, queue, woken, core, radio, cutting, raws, errors>>

\* An operation of the adapter by one of its tasks.
Task(outcomes) ==
  /\ Free
  /\ \E o \in outcomes : Takes(o, queue) /\ flag' = (flag \/ o.posts # <<>>)
  /\ UNCHANGED <<run, woken, stopped, core>>

\* run: the service task, woken by an interrupt.
ServiceTask ==
  /\ radio.edge
  /\ Task(Service([radio EXCEPT !.edge = FALSE]))
  /\ UNCHANGED <<cutting, raws>>

\* _housekeeping, every 100 ms.
Housekeeping ==
  /\ Task(UNION {{[w EXCEPT !.posts = s.posts \o @, !.errors = s.errors + @] : w \in Watch(s.radio)} :
                   s \in Service(radio)})
  /\ UNCHANGED <<cutting, raws>>

\* transmit_raw, with a cut or not.
RawStart(cut) ==
  /\ ~cutting /\ ~radio.tx /\ raws < MAX_RAW
  /\ raws' = raws + 1 /\ cutting' = cut
  /\ Task(StartTransmit([radio EXCEPT !.raw = TRUE], "raw"))

RawCut ==
  /\ cutting /\ cutting' = FALSE
  /\ Task(IF radio.tx THEN Abort(radio) ELSE {Outcome(radio, <<>>, 0)})
  /\ UNCHANGED raws

(* The chip and the time. *)

Interrupt(flags) ==
  /\ radio' = [radio EXCEPT !.irq = @ \cup flags, !.edge = @ \/ radio.irq = {},
                            !.air = IF "done" \in flags THEN "standby" ELSE @]
  /\ UNCHANGED <<run, queue, woken, stopped, flag, core, cutting, raws, errors>>

TxEnds == radio.air \in {"mesh", "raw"} /\ Interrupt({"done"})

\* A preamble, or the end of a frame, which is only counted while few events wait.
Hears ==
  /\ radio.air = "rx" /\ radio.irq \cap {"rx", "crc"} = {} /\ Len(queue) < MAX_EVENTS
  /\ \E kind \in {"preamble", "rx", "crc"} : Interrupt({kind})

TransmissionLate ==
  /\ radio.tx /\ ~radio.late
  /\ radio' = [radio EXCEPT !.late = TRUE]
  /\ UNCHANGED <<run, queue, woken, stopped, flag, core, cutting, raws, errors>>

WindowOver ==
  /\ radio.window = "open"
  /\ radio' = [radio EXCEPT !.window = "over"]
  /\ UNCHANGED <<run, queue, woken, stopped, flag, core, cutting, raws, errors>>

TimerDue ==
  /\ core.timer = "set"
  /\ core' = [core EXCEPT !.timer = "due"]
  /\ UNCHANGED <<run, queue, woken, stopped, flag, radio, cutting, raws, errors>>

Runner == Start \/ Outer \/ Drain \/ Woken \/ Due \/ Sleep \/ WakeUp

Next ==
  \/ Runner \/ Submit \/ Stop
  \/ ServiceTask \/ Housekeeping \/ RawCut \/ \E cut \in BOOLEAN : RawStart(cut)
  \/ TxEnds \/ Hears \/ TransmissionLate \/ WindowOver \/ TimerDue

Spec == Init /\ [][Next]_vars

\* The scheduler runs every task that is ready again and again (strong fairness: a
\* task is not ready while the runner has its turn), and time passes.
FairSpec ==
  /\ Spec
  /\ WF_vars(Runner) /\ SF_vars(Housekeeping) /\ WF_vars(TransmissionLate) /\ WF_vars(TimerDue)

------------------------------------------------------------------------------
Count(event) == Cardinality({i \in DOMAIN queue : queue[i] = event})

TypeOK ==
  /\ run \in {"start", "outer", "drain", "wait", "ended"}
  /\ ToSet(queue) \subseteq {"RX", "RX_ERROR", "TX_DONE", "busy", "free"}
  /\ woken \in BOOLEAN /\ stopped \in BOOLEAN /\ flag \in BOOLEAN /\ cutting \in BOOLEAN
  /\ core.state \in {"IDLE", "SENSING", "BACKOFF", "TRANSMITTING"}
  /\ core.attempts \in 0 .. MAX_ATTEMPTS /\ core.pending \in 0 .. MAX_PENDING
  /\ radio.air \in {"rx", "mesh", "raw", "standby"} /\ radio.window \in {"none", "open", "over"}
  /\ raws \in 0 .. MAX_RAW /\ errors \in 0 .. MAX_ERRORS

\* The runner never sleeps over something to do: an event, a wake or a stop sets the
\* flag after it was cleared; a core that waits for nothing but the radio has a
\* deadline if it has a message or a backoff (mesh/runner.py, run; link.py, _access).
NothingSleptOver ==
  run = "wait" /\ ~flag =>
    /\ queue = <<>> /\ ~woken /\ ~stopped
    /\ core.state # "SENSING"
    /\ (core.state = "BACKOFF" \/ (core.state = "IDLE" /\ core.pending > 0)) => core.timer # "none"

\* Every answer of the radio finds the core waiting for it: a sense is answered once,
\* a transmission is answered at most once and never while it is still on air, and
\* whatever the core has on air it waits for (the contract of mesh/radio.py).
AnswersExpected ==
  /\ run # "start" => Count("busy") + Count("free") = IF core.state = "SENSING" THEN 1 ELSE 0
  /\ Count("TX_DONE") + (IF radio.tx /\ ~radio.raw THEN 1 ELSE 0) <=
       IF core.state = "TRANSMITTING" THEN 1 ELSE 0

\* The mesh never transmits over a raw frame, nor the bench over a frame of the mesh:
\* between a free sense and the transmission no other task runs (sx1262.py,
\* transmit_raw).
NeverOver == [][radio'.tx /\ radio.tx => radio'.raw = radio.raw /\ radio'.air \in {radio.air, "standby", "rx"}]_vars

Waiting == core.state = "TRANSMITTING" /\ ~stopped

\* Whatever the interrupts lost and the SPI errors, the core is told of the end of its
\* transmission unless a cut of a raw frame was pending when it began: the watchdog
\* of sx1262.py.
Answered == radio.tx /\ ~radio.raw /\ ~cutting ~> ~Waiting

\* The same with cuts, as sx1262.py:38 says, does not hold: a cut that comes late, when
\* its raw frame is over, aborts the frame of the mesh that followed, without report.
NeverLeftWaiting == Waiting ~> ~Waiting
==============================================================================
