----------------------------- MODULE FrameCounter -----------------------------
(***************************************************************************)
(* mesh/counter.py: the frame counter of a board, reserved in flash by     *)
(* blocks.  The storage is the one of mesh/platform.py: a value set and    *)
(* not committed may or may not be there after a restart, either call may  *)
(* raise, and a full erase of the flash loses the record.                  *)
(*                                                                         *)
(* A power loss in the middle of a reservation is a reservation that       *)
(* raises, followed by Reset.                                              *)
(***************************************************************************)
EXTENDS Integers

CONSTANTS
  BLOCK,          \* counters per block (256)
  COUNTER_LIMIT,  \* first counter never sent (2^24 - 1)
  RANDOM_RANGE,   \* bound of a random restart (2^23)
  RECORD_MAX,     \* greatest record: 4 bytes (2^32 - 1)
  NoRecord        \* a storage without a (valid) record

ASSUME CounterAssumption ==
  /\ BLOCK \in Nat /\ BLOCK > 2
  /\ COUNTER_LIMIT \in Nat
  /\ RANDOM_RANGE \in Nat
  /\ RECORD_MAX \in Nat
  /\ NoRecord \notin Nat

VARIABLES
  found,   \* the records a restart may find in the storage
  up,      \* the board runs: FrameCounter exists
  next,    \* _next: counter of the next frame
  limit,   \* _limit: counters below it are recorded as used
  used     \* history: counters handed to seal since the last full erase

counterVars == <<found, up, next, limit, used>>

Half == BLOCK \div 2

\* Starts of the blocks a board without a record draws from.
RandomStarts == {BLOCK * k : k \in 0 .. (RANDOM_RANGE \div BLOCK) - 1}

\* Mutant: the last value of the 24 bits is sent too.
ExhaustedLate == next > COUNTER_LIMIT

\* exhausted: the board stops transmitting for ever.
Exhausted == next >= COUNTER_LIMIT

CounterInit ==
  /\ found = {NoRecord}
  /\ up = FALSE
  /\ next = 0
  /\ limit = 0
  /\ used = {}

------------------------------------------------------------------------------
\* Mutant: the record keeps the first counter of the block, not of the next.
ReserveRecordsStart(l) ==
  /\ l + BLOCK <= RECORD_MAX
  /\ found' = {l}
  /\ limit' = l + BLOCK

\* Mutant: two blocks are recorded at once.
ReserveTwoBlocks(l) ==
  /\ l + 2 * BLOCK <= RECORD_MAX
  /\ found' = {l + 2 * BLOCK}
  /\ limit' = l + 2 * BLOCK

\* _reserve returns: the record of the block after l is durable, then _limit
\* moves past it.
Reserve(l) ==
  /\ l + BLOCK <= RECORD_MAX
  /\ found' = {l + BLOCK}
  /\ limit' = l + BLOCK

\* Mutant: _limit moves although the record may not be durable.
ReserveRaisesEarly(held, l) ==
  /\ found' = held
  /\ limit' = l + BLOCK

\* _reserve raises with held the records the storage may hold: at set, nothing
\* is written; at commit, the new record may still reach the flash.
ReserveRaises(held, l) ==
  /\ \/ found' = held
     \/ /\ l + BLOCK <= RECORD_MAX
        /\ found' = held \cup {l + BLOCK}
  /\ limit' = l

\* __init__ starts at the record found, or at a random block without one.
StartsFrom(r) == IF r = NoRecord THEN RandomStarts ELSE {r}

\* FrameCounter(storage, random); an exception leaves the board down.
Boot ==
  /\ ~up
  /\ UNCHANGED used
  /\ \E r \in found : \E start \in StartsFrom(r) :
       /\ next' = start
       /\ \/ Reserve(start) /\ up' = TRUE
          \/ ReserveRaises({r}, start) /\ up' = FALSE

\* next() within the first half of the recorded block.
NextPlain ==
  /\ up
  /\ ~Exhausted
  /\ next + 1 < limit - Half
  /\ next' = next + 1
  /\ used' = used \cup {next}
  /\ UNCHANGED <<found, up, limit>>

\* Mutant: a failed reservation goes unnoticed and the counter is used.
NextReservingUnnoticed ==
  /\ up
  /\ ~Exhausted
  /\ next + 1 >= limit - Half
  /\ next' = next + 1
  /\ used' = used \cup {next}
  /\ (Reserve(limit) \/ ReserveRaises(found, limit))
  /\ UNCHANGED up

\* next() reaches the second half: the following block is recorded first.  If
\* that raises, the counter is consumed and no frame is sealed with it.
NextReserving ==
  /\ up
  /\ ~Exhausted
  /\ next < limit
  /\ next + 1 >= limit - Half
  /\ next' = next + 1
  /\ \/ Reserve(limit) /\ used' = used \cup {next}
     \/ ReserveRaises(found, limit) /\ UNCHANGED used
  /\ UNCHANGED up

\* next() after failed reservations, the recorded block used up: it catches up
\* before it consumes the counter.
NextCatchingUp ==
  /\ up
  /\ ~Exhausted
  /\ next >= limit
  /\ \/ /\ Reserve(limit)
        /\ next' = next + 1
        /\ used' = used \cup {next}
     \/ /\ ReserveRaises(found, limit)
        /\ UNCHANGED <<next, used>>
  /\ UNCHANGED up

\* Reset, watchdog or power loss: RAM is lost, the flash is not.
Reset ==
  /\ up
  /\ up' = FALSE
  /\ UNCHANGED <<found, next, limit, used>>

\* Full flash erase of a stopped board; the procedure is a key change, which
\* makes the counters of the former key irrelevant.
Erase ==
  /\ ~up
  /\ found' = {NoRecord}
  /\ used' = {}
  /\ UNCHANGED <<up, next, limit>>

CounterNext ==
  \/ Boot
  \/ NextPlain
  \/ NextReserving
  \/ NextCatchingUp
  \/ Reset
  \/ Erase

CounterSpec == CounterInit /\ [][CounterNext]_counterVars

------------------------------------------------------------------------------
Records == 0 .. RECORD_MAX

\* The type invariant of the counter and its storage (counter.py 45-60).
CounterTypeOK ==
  /\ found \in SUBSET (Records \cup {NoRecord})
  /\ up \in BOOLEAN
  /\ next \in Nat
  /\ limit \in Nat
  /\ used \in SUBSET (0 .. COUNTER_LIMIT - 1)

\* Whatever a restart at this very moment finds in flash lies above every
\* counter already sealed: "the counters below it are the only ones a board
\* may have used" (counter.py 7-9), failed and half-done writes included.
UsedBelowRecord ==
  \A u \in used : \A r \in found : r # NoRecord /\ u < r

\* A restart skips at most a block and a half (counter.py 13-14: "the rest of
\* the current block, and the next one if already recorded").
SkipBound == up => \A r \in found : r - next <= BLOCK + Half

\* Every frame sealed leaves more than half a block recorded ahead, even through
\* failed reservations, so that no record is due before the next counter is used
\* (counter.py 10-12; the record that next makes ahead is still part of its call).
RecordedAhead ==
  [][up' /\ used' # used => limit' - next' > Half]_counterVars

\* The counter keeps the promise of a nonce source across resets, power losses
\* and failed writes (counter.py 3-5).
Nonces == INSTANCE NonceSource
NonceSpec == Nonces!Spec
==============================================================================
