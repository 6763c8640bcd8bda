# A TLA+ development of SILy's mesh

SILy is a LoRa mesh for small boards (MicroPython). `src/src/mesh/` holds the protocol: a sans-IO
core driven by events and deadlines; `src/src/board/` the drivers; `src/sim/` a host simulator. This
directory models the protocol's parts one module at a time, checks them with TLC on small
instances and proves with TLAPS what does not depend on the instance. Every definition is
translated from the code (`PROJECT.json`, `map`, names the lines). Paths below are relative to
`src/src/mesh/` unless they start otherwise.

## 1. Inventory

| Component | State | Operations | Interacts with | Hard behaviour | What makes it correct |
|---|---|---|---|---|---|
| Frame counter (`counter.py`) | next counter, recorded limit, flash record | creation, `next`, `_reserve` | storage (`platform.py`, NVS), `Security.seal` | power loss and failing writes between two steps of a reservation, exhaustion | no counter twice under a key, bounded skip, no wait for flash |
| Replay table (`replay.py`) | highest counter per sender, least recently heard order, retained copy | `check`, `update`, restoration | `Security.receive`, retained memory | loss, reordering, repetition, damage; eviction; soft reset and power loss | a frame in once per baseline, genuine frames always in |
| Security (`security.py`) | two keys, nonce buffer | `seal`, `receive` | counter, table, cipher | order of verification, check and update; key switch | only authentic, fresh frames change anything |
| Transmit queue (`txqueue.py`) | slots, ages, origin indices, turns, selection | `offer`, `pack`, `commit`, `retry`, `hold`, `redirect`, `promote`, `remove`, `drop` | link, class 1, routing, duty cycle | changed between packing and transmission; full; quotas; turns | custody, quota, order, fair turns |
| Class 1 sender (`reliable.py`) | per slot: state, hop, counter, timer, identity, kept root counters; undecided failures; poll | `sent`, `on_ack`, `overheard`, `tick`, `hold`, `route_changed` | queue, neighbours (samples), parents (`reroute`) | late, lost and repeated acknowledgements; timers against route changes | no message forgotten, one sample per frame, no transmission to a former parent |
| Class 1 receiver (`reliable.py`, `link.py`) | duplicate cache, owed and batched acknowledgements | `owe`, `cancel_owed`, `acknowledge`, `_accept` | queue, link | retries crossing acknowledgements, refusals, cache eviction | acknowledged implies taken; delivered once |
| Link (`link.py`) | transmit state, wake-up, dirty flag, selection | `submit`, `send`, `forward`, `handle`, `access_at` | everything | the answer of the radio races submissions and route changes | the transmit path never stops with something to send |
| Duty cycle (`dutycycle.py`) | bins of charges, phase, retained copy | `admit`, `start`, `done`, `_advance`, `_save` | queue, link | restart, late and long transmissions | the last hour's air time is never undercounted |
| Neighbours (`neighbours.py`) | entries, windows of samples, cached expiry | `heard`, `acked`, `answered`, `expire`, `_evict` | class 1, parents | stale cached expiry, full table | nobody silent stays, parents stay |
| Parents, DODAG, Trickle (`parents.py`, `dodag.py`, `trickle.py`) | set, rank, lowest rank, drops, hold, version; timers | `recompute`, `next_parent`, `detach`, `on_new_version` | neighbours, routing, class 1 | ranks out of date at different nodes | no lasting loop, rejoin after a detach |
| Frame codec (`frame.py`, reports' and acknowledgements' payloads) | none | `encode`, `decode_messages`, `expand_first_hop`, `encode_presence`... | queue, link, routing | bundles, lengths left out, compression of the first hop, other encoders | size counted is size sent; read as written; what a relay takes it can send on |
| Routing, reports (`routing.py`, `reports.py`) | presence, topology, sticky flags | `_changed`, `_forward`, `_sent` | queue, dodag | a flag raised while a report is on air | every flag reaches a report on air |
| Runner, radio (`runner.py`, `radio.py`, `board/sx1262.py`) | event list, flag; radio state | `run`, `_post`, `wake`; sense, transmit | core | events posted around a wait; cut transmissions | no lost wake-up; every action answered |

The codec keeps no state, but three parts must agree on bytes: the queue counts them, the encoder
writes them, a relay changes some and the root reads them. Cryptography, profiles and air-time
arithmetic carry no state of their own; the bench, the simulator and the tools are not part of a
board. `PROJECT.json` lists them as not modelled, and lists, under `hazards`, what is hard to test
and where.

A step of the core (`LinkEngine.handle`) is atomic: one event, then the protocol timers and the
route changes, then the transmit path. Concurrency lies between the steps: the radio answers a
sense or ends a frame whenever it does, frames are received in between, the application submits
between steps, the other boards do what they want, and a reset may come between any two writes.

## 2. Modules

* **NonceSource** is abstract: counters under a key strictly increase and stop at a limit.
* **FrameCounter** models `counter.py` with its storage. `found` is the set of records a restart may
  find: after a write that raised, both the old and the new one. `Boot`, `NextPlain`,
  `NextReserving` and `NextCatchingUp` are the creation and the three paths of `next`, each with
  the reservation returning or raising; `Reset` and `Erase` may come at any time (an erase on a
  stopped board). It implements NonceSource with the identity mapping of `used`.
* **ReplayTable** models `replay.py` and the order of `Security.receive` for one receiver. `sent`
  is every frame sealed so far: all of them may arrive at any time, any number of times; a damaged
  frame is one that is not in `sent`. `pos` gives the order of the entries (1: next to be evicted).
* **TxQueue** models `txqueue.py`. The queue is in order of age; `packed` marks the messages of the
  selection (the code compares message objects). `Offer`, `Pack`, `Commit` and the operations the
  other modules ask for interleave freely, so that a selection is out of date in every possible way
  when it is committed. What a message adds to a frame depends on the messages already there, as in
  `pack`: it may share a group's header, turn it into a bundle, or take from the last group the place
  of the last (`Growth`; `shape` stands for mode, routing header and length of the payload). The
  allowances of the duty cycle are any three decreasing lengths of `Ends`. The offers are messages
  that `offer` does not raise for; FrameCodec models its checks. **MCTxQueue** defines them.
* **FrameCodec** is the byte level of the same packing loop (`Join`, whose `size` is `total` of
  `pack`), of `frame.py` (`Encode`, `Decode`, `WellFormed` for `check_message`), of the payloads of
  reports and acknowledgements, and of what relay and root do with them (`Expanded`, then `Forwarded`
  to the queue, whose `offer` raises unless `Admitted`; `Reported`). The reports are those that
  `encode_presence` and `encode_topology` accept (`ReportAssumption`); names have characters of one
  byte, so that the UTF-8 names of several bytes that `decode_node_info` accepts are refused here.
  `Alter` and `Cut` stand for other encoders: they change the body, as an authentic frame of another
  version could be. **MCFrameCodec** defines the messages.
* **ClassOneSender** models the sender side of `reliable.py` with the transmit path of `link.py` and
  the route hooks of `routing.py` and `dodag.py`. `copy` is the queue entry of a message, `slot` its
  class 1 state, `sel` the frame packed, `stepping` holds from the event of a step to its transmit
  path. Events: `Step`, `Submit`, `OnAck`, `Overheard`, `ChannelBusy`, `Transmit`, `TxDone`; timers
  and routes: `NewParent`, `DelayOver`, `LateOver`, `AckTimeout`, `Decide`, `ResumeHeld`, `Forget`,
  and `Apply`, which applies at the end of the timers the change of parent that a reroute made;
  transmit path: `Rest`, `Access`. A next hop may have received any frame, so that it may
  acknowledge any. `frames` is a history with the samples each frame gave.
* **Custody** is abstract: a message submitted is held by some node until it is delivered or given
  up with a report; a node leaves a message only to another holder. **Chain** is the receive path
  that must implement it, over several nodes: `Receive` is `LinkEngine._receive` for one frame
  (`Accepted` folds over its messages: duplicate cache, `holding`, refusal, delivery), `Overhear`
  the passive acknowledgement, `OweDue` and `OnAck` the explicit ones, `Transmit`, `Timeout`,
  `Detach`, `ResumeHeld` what ClassOneSender shows in detail. A frame is received or overheard by any
  subset of those that would react; an acknowledgement in a queue, in the root's batch or on air is
  in `acks` until it arrives, or for ever. The next hop of each frame is left open, so that messages
  meet every loop. `C == INSTANCE Custody` maps `holders` to the nodes with a copy in their queue.
* **DutyCycle** models `dutycycle.py` and its three uses by `link.py`: a frame is admitted when it is
  packed (`Pack`), charged when it starts (`Transmit`) after the sense (`ChannelBusy` otherwise), and
  charged again when it lasted longer than computed (`TxDone`). `saved` is the retained record, with
  the phase of the last charge; `SoftReset` restores it, `PowerLoss` loses it. `air` and `extra` are
  histories of the charges at their true times. **MCDutyCycle** gives the shares.
* **NeighbourTable** models `neighbours.py` on one board: entries with their reception and
  acknowledgement windows, `Heard` (with insertion and eviction), `Acked`, `Answered`, `Expire` with
  its cached time, `SetPeriod`, `Select` and `Detach` from the selection. Times are ages.
* **ParentSelection** holds the rules of `parents.py` as operators: feasibility (version and rank
  rule), eligibility, path cost, order, choice, advertised rank, and when a drop keeps a parent. The
  parent set, a tuple that begins with the preferred parent in the code, is a set here.
  **Dodag** runs them on the boards of a network with `dodag.py`: a transmission carries the header
  of its moment and the step of each board that hears it (`Heard`, `Adopts`, `Solicited`) is part of
  it; `HoldOver`, `WindowOver`, `Silent` are the ends of durations; `Exhausted` is class 1 giving a
  hop up; `SetVersion` the root's repair; a link may be cut. The poison is a frame like another one,
  which a board may never send: the code offers it to the queue once, where it may be refused, or
  leave in the frame of the solicitation.
* **Advertising** models, on one board, `trickle.py` with its users in `dodag.py`, and the presence
  reports of `reports.py`, which share the frames on air: `packed` is the frame that waits for the
  channel while messages are replaced, dropped or added. `asked` and `unreported` are histories of
  the needs and flags not met yet.
* **Board** composes the runner (`runner.py`), the core's step and transmit path (`core.py`,
  `link.py`) and the driver (`board/sx1262.py`, `board/sense.py`). Tasks are cooperative: between two
  waits of the runner no other task runs, but interrupts come at any time. Any operation on the bus
  may fail half way. `RawStart` and `RawCut` are the frames of the bench.
* **FrameProofs** (FrameCounter, ReplayTable and FrameCodec), **TxQueueProofs**, **RoutingProofs**
  (Dodag, with ParentSelection, and Advertising), **DutyCycleProofs**, **ChainProofs** (with those of
  Custody), **ClassOneSenderProofs**, **NeighbourTableProofs** and **BoardProofs** hold the theorems,
  each with the lemmas of its component. Components proved in one module have distinct names for
  their initial states, steps and specification (`CounterSpec`, `CodecSpec`, `AdvertSpec`).

What is abstracted: durations (a timer that is armed may fire in any step), bytes (units of length)
except in FrameCodec, slots (positions or messages), 24-bit counters (integers below a constant; the
16 low bits kept by class 1 are the whole counter, since no instance wraps), the wording of counters
and logs. In ClassOneSender which ready messages of one next hop a frame takes is left open (TxQueue
decides it), and so are the parent selected and the outcome of the sampling rule of one batching
delay (`Decide`); class 0 traffic, downward messages, and the number of failures awaiting a decision
(one per slot in the code) are left out. So is the error path of `seal`, in ClassOneSender and in Board:
when a reservation fails (`counter.py` 72-75), the exception ends the runner, and the board with it. In Chain a message keeps one identity and its age in a
cache is a choice. In Dodag the link costs are constant and every link passes its tests until it is
cut: their changes belong to NeighbourTable.

## 3. Runs

Every run is `tlc -config <run>.cfg <module>`. The bounds of each are named constants.

| Run | Module | Instance | Shows |
|---|---|---|---|
| FrameCounter | FrameCounter | blocks of 4, counters below 11 (inside a third block), random starts 0 and 4 | no nonce repeats, skip bound, half a block ahead, refinement of NonceSource |
| ReplayTable | ReplayTable | 3 senders, 2 entries, 2 counters each, 2 losses of baseline per sender | one acceptance per baseline, genuine frames in, recent senders kept |
| TxQueue | MCTxQueue | 3 entries, 2 origins (one the node), 3 ports, 2 next hops, quota 2, one attempt, allowances of 3, 6 or 7 bytes | custody, quota, eviction, indices, order, equal shares with and without shared headers |
| FrameCodec | MCFrameCodec | 14 messages, frames of 3 messages and 40 bytes, one byte altered or cut | size counted, reading, restoration, forwarding |
| ClassOneSender | ClassOneSender | 2 messages (one own, one forwarded), root and relay, 2 frames, 2 attempts | nothing forgotten, a frame fails once, with both messages in one frame or not |
| Chain | Chain | origin, relay, root; 2 messages, 2 slots, a cache of 1, 3 frames | refinement of Custody, delivery once within the cache |
| ChainLoop | Chain | a second relay, 1 message | the documented promise for loops does not hold (finding) |
| DutyCycle | MCDutyCycle | 2 bins of 2 time units, budget 3, 9 times, 1 soft reset, any power losses | no window undercounted, no charge kept too long, no allowance exceeded |
| NeighbourTable | NeighbourTable | 3 neighbours (one with a varying link), 2 entries, 2 periods, windows of 2 | expiry in time, failures within the window, parents kept |
| Dodag | Dodag | root and 2 nodes in a triangle, one version issued or one link cut, one frame lost in a row | ranks downhill, loops only by a loss, all settle |
| Advertising | Advertising | K = 2, three intervals, one flag and that of the first report | flags and needs kept |
| Board | Board | 2 attempts, 2 messages queued, 2 events, 2 raw frames, 1 bus error | nothing slept over, the radio's contract |

Why these bounds are enough. A block of 4 has two halves, and the limit falls inside a block reached
by two reservations, random starts and catching up included. Three senders and two entries force
evictions in every order; two losses per sender cover eviction followed by power loss. Three queue
entries are the least that let one origin reach its quota and the other be served beside it or evict
it. A frame limit of 7 bytes takes a message with a header of its own and two that share one, or not, and the `Ends` of the
allowances cut it before the second message, the third, or nowhere. In class 1, an
interaction of two messages goes through a shared frame, the next hop or the poll: two messages and
two frames reach each; the number of frames is also the counter's limit, so that its exhaustion is
reached (with three counters the space exceeds 16 million states). In Chain two messages fill a
queue and overflow a cache of one, and three frames are a first transmission, a retry that crosses
its acknowledgement, and the relay's forward; symmetry of the messages and a view that drops
acknowledgements without effect are exact reductions. Eight time units are two windows of two bins:
every slot of the three is reused, by steps and by a jump longer than the window, before and after a
reset in any phase; a budget of 3 gives the priorities allowances of 3, 2 and 1, with frames of 1
and 2. Three neighbours for two entries evict in every order, with a parent among them. Two nodes and
the root are the least that can form a loop; MAX_COST 24 and MAX_INCREASE 16, with links of 8, make
both bounds of a rank count within three hops. Four nodes are out of TLC's reach. `STRAY` lets messages
be given up on at any hop ever heard (a message may still wait for a former parent); it is FALSE in
the run, where the space is out of reach otherwise, and free in the theorems. In FrameCodec three
messages make a group stop being the last one, become a bundle, and both; the altered bytes include
each control, count and length at and beyond its limit. The limits themselves are scaled (routes of
one hop, one flow, a short hardware address); the code compares with the same constants.

CHECK_DEADLOCK is FALSE in three configurations: FrameCodec (a frame altered is the end), Chain and
ChainLoop (no frame is left to send); elsewhere deadlock is checked.

The type invariants of Board, Dodag, NeighbourTable and Chain hold on the same instances and are
proved; they are not part of the runs.

### Properties

* FrameCounter: `UsedBelowRecord` (whatever the flash holds after an interrupted write is above
  every counter used), `SkipBound`, `RecordedAhead` (each counter used leaves more than half a block
  recorded), `NonceSpec`.
* ReplayTable: `ReplayBound`, `GenuineAccepted`, `RecentKept`.
* TxQueue: `IndexExact`, `QuotaBound` (the largest of the quota and what half a queue lets in),
  `Custody` (only a caller's request makes a class 1 message leave, move or miscount its
  transmissions; never an admission, an eviction or a stale commit), `EvictionFair`,
  `NoOvertaking` (no message goes before a more urgent one, or an older one of its origin, that would
  have made the frame no longer: one that needs a header of its own may be passed over for one that
  shares a header), `EqualShare` (origins alike in next hop, length and group have shares within one
  message of each other in a frame; with several groups they may differ by two).
* FrameCodec: `FrameFaithful`, `ReportsRestored`, `ForwardedAlike` (of a frame of any encoder, what the
  relay's queue takes, its fields restored, is encoded and read alike by the next hop; a message that
  the queue raises for has a reserved port or fits in no frame).
* ClassOneSender: `NothingForgotten` (a waiting message has a timer, a ready one a transmit path that
  will run), `FailsOnce` (no frame fails twice, nor after it was acknowledged).
* Chain: `KeepsCustody` (each step is one of Custody, or stutters), `DeliveredOnce` (the root delivers
  again only what its cache forgot, for its age or for its size).
* DutyCycle: `NeverUndercounted` (what a board believes it used covers all it charged in the last
  window, soft resets included), `ForgottenInTime` (without a reset nothing counts longer than a
  window and a bin), `RecordValid` (the record is never one that a restart drops),
  `WithinAllowance` (when a frame starts, the frames started within one window fit the allowance of
  its priority, though it was admitted before the sense; `src/sim/invariants.py` 797-810 states it of
  boards that do not restart). Two accepted losses are outside them: a power loss forgets the
  window, and the excess of a frame cut by a reset is never charged.
* NeighbourTable: `CacheSound` (no entry ends before the cached time of the next scan),
  `RunInWindow`, `ParentsKept`.
* Dodag: `Downhill` (a rank lies above that of the preferred parent as last heard, every other
  member's below the lowest rank advertised), `LoopsOnlyByLoss` (preferred parents close a loop only
  while a board on it has missed the last frame of its own), `Settles` (once links stop failing, every board joined to the root has a path to it in the last
  version, every other one has no parent).
* Advertising: `FlagsKept`, `NeedKept`.
* Board: `NothingSleptOver`, `AnswersExpected`, `NeverOver`, `Answered`.

### Fairness

Board's `FairSpec`: weak fairness of the runner (it waits on its own events and the loop of asyncio
runs every ready task), strong fairness of the driver's housekeeping (it is ready again and again,
not while the runner has its turn), weak fairness of the passing of time (a transmission gets too
late, a timer comes due). Nothing is assumed of interrupts, of the bus beyond the bound of its errors,
or of the service task: `Answered` rests on the watchdog alone.

Dodag's `FairSpec` states, with the guard of each action written out (TLC evaluates ENABLED of these
steps too slowly), that boards keep sending (presence, Trickle beacons, periodic
solicitations while they have no route), that a neighbour does not lose all the information of a
board, and that hold, window and silence end: each is a timer of `dodag.py`, `trickle.py` or
`neighbours.py` that is set again until it has done its work. `Settles` supposes in its premise that
class 1 stops giving up links that work.

A loop lasts until ranks reach the bound `L` + MaxRankIncrease, or a message that travels along it
reveals the inconsistency (`routing.py`, `inconsistent`, which is not part of the module).

### Finding

*A loop of three nodes loses a message* (ChainLoop). The origin has sent a message to a relay; the
relay, without a route then, has acknowledged it and later sends it to the other relay, which sends
it back to the origin. The origin drops it as held: `holding` (`reliable.py` 409-428) leaves out only
a copy that waits for the node it came from, and the origin's waits for the first relay. It
acknowledges the second relay, which frees its copy; the first has overheard the second's frame and
frees its own; its acknowledgement, still under way, then frees the origin's. No copy is left and
nothing is reported. `MESH_DESIGN.md` 1540-1542 says that a message that comes back "is thus never
dropped without a copy left", 778-781 that "a loop never loses it".

### Divergences met while modelling

These are not runs; each was seen on the model and read again in the code.

1. *Turns.* A frame that skips an origin, because its messages go to another next hop or are too long
   for what is left, moves the turn past it (`txqueue.py` 419, 383-384, 399-400); repeated, this serves
   the others for ever. `MESH_DESIGN.md` 434-437 and `txqueue.py` 8-13 promise equal shares whatever
   the volume. `EqualShare` is what holds within a frame.
2. *Detach during a sense.* `_transmit` (`link.py` 662) sends the selection packed before the detach,
   `sent` makes the held message pending, and its timeout retries it towards the former parent;
   `routing.py` 17-20 and 187 say it is held and not retried (`NotRetriedWhileDetached`).
3. *Two samples.* A frame to a relay that timed out and is then overheard gives a failure and a success
   (`reliable.py` 619-621, 585-587); `reliable.py` 23-24 and `MESH_DESIGN.md` 520-522 say one sample per
   frame (`OneSamplePerFrame`).
4. *Late cut.* `transmit_raw` with a cut sleeps while its frame may end by the watchdog and a frame of
   the mesh begin; `_tx` is then set again, and the cut (`board/sx1262.py` 257-261) aborts the wrong
   frame without report. `board/sx1262.py` 36-39 says the core is never left waiting
   (`NeverLeftWaiting`). Only the bench sends raw frames.
5. *Second request in an interval.* A request for information that arrives in an Imin interval in which
   information was already sent is not answered until the next decision; `MESH_DESIGN.md` 984-985 and
   `dodag.py` 65-66 say within Imin. `NeedKept` counts a need from the moment nothing in the interval
   has met it.
6. `fail_at` of a neighbour stays set after its failure left the window, so that a scan may come for
   nothing; it keeps nothing too long (`CacheSound`).
7. *One lost solicitation closes a loop.* `dodag.py` 539-542 offers the poison of a detached board to
   the queue once. It may never go on air by itself: a queue full of held messages refuses it, or it
   leaves in one frame with the solicitation. A child that loses the solicitation then follows the
   board still, and the board takes it as parent when it hears it in its answer window.
   `MESH_DESIGN.md` 756-757 (and 165) says that no loop forms with at most one consecutive loss per
   link; that holds when the poison was sent (`NoLoop`). `LoopsOnlyByLoss` is what holds without it.
8. *A relay offers what its queue raises for.* `_receive` (`link.py` 717-794) decodes a frame and
   offers its messages one by one (`forward`, 505-529); the decoding accepts reserved ports, and a compressed message at the
   limit, to which the relay adds the origin (2 bytes) and for a presence the parent (2 more). `offer`
   then raises (`txqueue.py` 204-207), which leaves the step in the middle of the frame
   (`OffersChecked`). `txqueue.py` 200-203 calls it "a bug of the caller: submissions are checked
   before". This code's own encoder stays clear of it: it sends no reserved port, and its longest
   reports (201 bytes of topology) have room to spare, unless an application gives a presence an
   extension that makes its payload longer than 236 bytes.

## 4. Proofs

Each theorem holds for every value of the constants allowed by the assumptions of the module it is
about, and TLC evaluates these assumptions on the runs: `CounterAssumption` (natural bounds, a block
above 2), `ReplayAssumption` (natural bounds, at least one entry; any set of senders),
`TxQueueAssumption` (at least two entries; a positive quota and number of attempts; any
messages of the three classes and priorities, of any length and group, any origins and next hops, any
frame limit and allowances),
`AdvertisingAssumption` (a positive redundancy constant, any range of intervals, any flags),
`ChainAssumption` and `NoneAssumption` (a root and another origin among the nodes, at least one slot
and one cache entry; `None` is no message, entry or key),
`CodecAssumption` (a frame of 13 to 255 bytes, bundles of at least two messages, routes of at most 127
hops), `HeaderAssumption`, `MessageAssumption` and `ReportAssumption` (a header, messages and reports that `encode_header`,
`check_message` and the report encoders accept: the encoder refuses the others; nothing else is assumed of them),
`SelectionAssumption` and `DodagAssumption` (any nodes and links, costs in the order of the code's:
a path cost below the infinite rank, a link cost that is at least the rank hysteresis, as 8 and 4
are), `DutyCycleAssumption` (at least one bin and one time unit per bin, a natural budget, shares from
0 to 100 %), `ClassOneAssumption` (at least one attempt;
finitely many messages, which is no restriction: a step that breaks a safety property comes after
finitely many submissions), `TableAssumption` (at least one entry, windows that hold the samples
their tests ask for, a silence limit within the expiry, a longest period), `BoardAssumption` (at least
one attempt and one message). Bounds such as the number of frames, events or bus errors are arbitrary
naturals in the theorems.

* *Frame counter.* `UsedBelowRecord` is not inductive: a restart trusts the record, a failed
  reservation leaves two. The invariant `IInv` adds that, while the board runs, the flash holds the
  record of the limit or the one a block above it, the next counter is at most the limit
  (`RunningRecord`), and the counters used are below the next one (`RunningUsed`). From it follow
  `UsedBelowRecord` and `SkipBound` and, with a lemma per step, `RecordedAhead` and the refinement
  `NonceSpec` (each step issues a counter above all others, changes the key or stutters).
* *Replay table.* `ReplayBound` alone says nothing of the table. The invariant adds that the retained
  copy is the table and entries stand at positions up to the count (`Packed`), that a frame was
  accepted at most once per baseline lost, plus once if the present baseline covers it (`Accounted`),
  and that the highest counter of a known sender was really sealed (`GenuineBaseline`).
  `ReplayBound` and `GenuineAccepted` follow. `RecentKept` (`MostRecentKept`) needs that the history
  of senders heard has each of them once and holds every known one, in the order of the table's
  positions (`HeardInv`): an eviction then takes the one that falls out of the last CAPACITY.
* *Codec.* `FrameFaithful` (`Faithful`) is proved from a field to the frame. A sequence `Stands` at a
  place of another one; words, addresses, routes, elements, group headers and whole groups that stand
  somewhere are read there and nothing beyond them (`WordRead`, `ElementRead`, `GroupHeaderRead`,
  `GroupRead`, `BodyRead`). The decoder, the encoder's grouping and the sums are recursive functions,
  unrolled by `Recursion` and compared step by step. The encoder groups the messages again, by itself:
  it finds the groups of the packing loop because two that follow each other never share a header
  (`GroupedAgain`). The invariant `CodecInv` of the loop (TLC agreed before it was proved) says that
  all groups have headers of their own and that `size` is 13 plus the sum of the groups' sizes, the
  last one without its length; `JoinKeeps` shows it for a message that joins a group, whose header may
  become that of a bundle, and for a new group, which takes from the one before it the place of the
  last (`SizeJoined`, `SizeAppended`).
* *Transmit queue.* The invariant `IInv` says that an origin has one index exactly while it holds
  messages, that none exceeds its share, and that a message that does not wait has an attempt left;
  from it `IndexAlwaysFree`, `FloodContained` and `TypeCorrect`. A free index exists whenever the queue
  has room, by counting: with all indices in use there would be as many messages as entries. Each
  removal renumbers the queue; `Without` is shown to be an order-preserving map of the entries that
  stay, through the rank of an element in a finite ordered set (`Rank`, `Nth`), from which the quotas
  are counted and `EvictionFair` (`EvictionIsFair`) follows. `ServiceOrder` exists because two origins
  never share an index, so that no two ready messages tie. A packed frame is the last of a sequence of
  frames that only grow in length and urgency: a message left behind that adds no more than one taken
  after it, in its stead, would have been taken, which is `NoOvertaking` (`NeverOvertaken`) and, for rounds of equal
  messages of one group, `EqualShare` (`SharesAreEqual`). `Custody` (`CustodyKept`) is a map from the class 1 and 2
  messages of the queue to those of the next one that keeps their order and leaves no gap before them
  (`Carries`), composed over a commit or an eviction and the newcomer behind.
* *Advertising.* `FlagsKept` is not inductive: what a frame on air reports must be what the report
  carried. `CarriedTracked` adds that the queued report holds the flags it carries, and so does the
  frame packed with it (`NoFlagLost`). `NeedKept` is not either: `Unanswered` adds that a need not met
  belongs to an interval that has not decided, sent no information and heard fewer than K, so that
  the decision must advertise (`NeedMet`, with a lemma on what a reset keeps).
* *Chain, deliveries.* `DeliveredOnce` (`NoEarlyDuplicate`, any nodes) holds because the root's ring of
  keys follows its deliveries: the key i places before the next one is that of the i-th last delivery.
  `Receive` folds over the messages of a frame; the fold is unrolled by induction on its length, each
  prefix of the frame keeping the agreement.
* *Chain, custody.* That each step is one of Custody (`Refinement`) needs to know what an
  acknowledgement will do when it arrives, however late. Each acknowledgement owed, batched or on air,
  and the frame on air when it goes to the root, is a promise (`Promised`): each message it would
  remove is over, or has a copy that neither this acknowledgement nor an earlier one can remove
  (`Secure`: copies are told apart by the counter of their frame). The invariant `CustodyInv` joins
  these promises to the counters, the hops and the root's cache. It holds for one relay
  (`OneRelay`); with two it does not, and the run ChainLoop shows the message that is lost. Under the
  same hypothesis, no message submitted is lost (`NothingLost`), and `CustodyKept` gives the promise of
  Custody itself (`MessageNeverLost`, with `CustodyTypes`, for any nodes) for the chain. `OneRelay`
  concerns custody only: the types and the deliveries are proved for any nodes.
* *Class 1.* `NothingForgotten` (`Attended`) needs that each wait has its own end: `Timed` is what ends
  the wait of one message, and each step is shown to arm it or wake the transmit path for every message
  it changes. `FailsOnce` (`FailedOnce`) is about a frame, while its failure comes through any of its
  messages. `SamplesInv` says when a message may still charge a failure (`Open`): as long as one may, or
  the frame is undecided, the frame has no sample, and no message stays open beside an undecided frame.
  `Fresh` (a message not submitted has no copy) is what keeps an error message from taking one over.
* *Neighbour table.* `CacheSound` is nearly inductive: it needs the cached time within the limit, since
  an entry heard again ends a whole limit later (`InTime`), and that ages pass no slower than the time
  to the scan. `RunInWindow` needs the windows' bounds (`WindowsOK`): a failure that leaves a full window
  cannot be one of the run, which is at most UNREACH_RUN, itself within the window. `ParentsKept`
  follows from what a scan and an eviction remove. The capacity is part of `TypeCorrect`.
* *Duty cycle.* The window counts bins, the history counts times. `IInv` relates them (`Books`): for
  each k, the current bin and the k before it count at least what was charged since the k-th of them
  began. A step of the window only moves the bins back (`Follows`), and a soft reset binds the record
  to a later start, so that each bin covers more time than it did: nothing is undercounted
  (`NeverUndercounted`, `NothingUndercounted`). Without a reset the same counts are exact (`Exact`),
  whence `ForgottenInTime` (`AllForgotten`). `WithinAllowance` (`AllowanceKept`) needs that the frame
  which waits for the channel still fits (`Admitted`): the window only loses charges meanwhile.
  `RecordValid` (`RecordAccepted`) is that the total is the sum of the slots, saved with them.
* *DODAG.* `Downhill` (`ForwardsDownhill`, with `RoutingTypes`) is a property of each board, whatever its
  neighbours send. It does not hold between the entry of a frame in the table and the selection that
  follows, and it needs that an attached board is never in the hold, the solicitation or the window,
  where nothing would be selected again (`Sane`). A selection puts the rank above the one last heard of
  the parent chosen even when the advertised rank is kept, because the hysteresis is at most a link
  cost (`RankIs`), and within the bound even when the lowest rank follows it down (`BoundKept`).
* *Board.* `BoardInv` says where the only answer is that the core waits for (`AnswersDue`: in the
  queue, or still to come from the radio), that a channel sensed free stays without transmission
  until the core answers, because the runner keeps its turn (`StillFree`), and what the runner looked
  at before it sleeps (`Awake`). From it `NothingSleptOver` (`Sleepless`), `AnswersExpected`
  (`Contract`) and `NeverOver` (`OneTransmission`).

Induction over data is stated for sets (a set of naturals with 0 and each successor, `Induction`) and for
functions (`Recursion`: the iterates of a function exist), both from the well-foundedness of the naturals,
in the modules that need it: ChainProofs (the messages of a frame received), TxQueueProofs (those of a
frame packed), DutyCycleProofs (the sums over bins and times) and FrameProofs (bytes, elements and
groups). The order of the parent set needs
only that a set of naturals has a least element (`LeastNatural`).

Only model-checked, and why. `ReportsRestored` and `ForwardedAlike` of the codec: the first is the
same argument once more for the payloads of five kinds of reports, not made; the second speaks of
bodies that no encoder of this code wrote, for which each refusal of the decoder would have to be
shown to be enough. `LoopsOnlyByLoss` of Dodag: it speaks of paths
of any length through ranks out of date, and needs an invariant over what each board last heard of the
others, with the losses of each link, still to be found. Liveness and `ENABLED` (`Settles`, `Answered`)
are out of the prover's reach.

## 5. Not modelled, and plan

Not modelled: cryptography (the tag is abstracted to whether a frame was sealed), profiles, ports and
air-time arithmetic (no state), pins, the bench, the simulator and the tools (not part of a board);
downward and peer messages, class 2 (its sender does not exist yet), broadcasts, the error messages of
port 4, the pacing of the root's acknowledgement batches, the choice of topology entries, the filter of
noise samples.

Next, in order: `ReportsRestored` for any reports, from the lemmas on what stands in a frame; the
root's acknowledgement batches and the errors of port 4.
