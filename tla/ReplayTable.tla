----------------------------- MODULE ReplayTable -----------------------------
(***************************************************************************)
(* mesh/replay.py and the reception order of mesh/security.py, for one     *)
(* receiver.  Every sender is a nonce source (module NonceSource); its     *)
(* frames stay on the medium for ever, so that each may be lost, delayed,  *)
(* reordered or received any number of times, and a frame damaged on the   *)
(* way may show any source and counter.                                    *)
(*                                                                         *)
(* The table keeps, for each sender, its highest counter and the position  *)
(* of its entry, 0 without one; the least recently heard sender stands at  *)
(* position 1.  It is worked on in RAM and saved to retained memory, which *)
(* a power loss clears.                                                    *)
(***************************************************************************)
EXTENDS Integers, Sequences

CONSTANTS
  Senders,
  CAPACITY,       \* entries of the table (128)
  SEND_LIMIT,     \* first counter that no sender uses
  MAX_LOST        \* bound: baselines lost per sender

ASSUME ReplayAssumption ==
  /\ CAPACITY \in Nat \ {0}
  /\ SEND_LIMIT \in Nat
  /\ MAX_LOST \in Nat

Counters == 0 .. SEND_LIMIT - 1
Frames == [source : Senders, counter : Counters]
None == -1

VARIABLES
  sent,      \* frames sealed so far, under a key the receiver holds
  highest,   \* table: highest counter authenticated of each sender, or None
  pos,       \* table: position of the entry of each sender, or 0
  count,     \* table: number of entries
  saved,     \* retained memory: the table as of the last save
  accepted,  \* history: how many times each frame was accepted
  heard,     \* history: the senders accepted since the last power loss, by
             \* last acceptance
  lost       \* history: how many times each sender's baseline was lost

table == <<highest, pos, count>>
vars == <<sent, highest, pos, count, saved, accepted, heard, lost>>

\* The table of a memory without a valid one.
Empty == <<[s \in Senders |-> None], [s \in Senders |-> 0], 0>>

Init ==
  /\ sent = {}
  /\ highest = Empty[1] /\ pos = Empty[2] /\ count = Empty[3]
  /\ saved = Empty
  /\ accepted = [f \in Frames |-> 0]
  /\ heard = <<>>
  /\ lost = [s \in Senders |-> 0]

------------------------------------------------------------------------------
\* Security.seal at a sender: a counter above all the previous ones (a restart
\* may skip some).
Seal(f) ==
  /\ \A g \in sent : g.source = f.source => g.counter < f.counter
  /\ sent' = sent \cup {f}
  /\ UNCHANGED <<highest, pos, count, saved, accepted, heard, lost>>

Known(s) == pos[s] # 0

\* check: unknown senders are accepted.
Check(f) == Known(f.source) => f.counter > highest[f.source]

\* Mutant: the former entry of a known sender is left behind.
FreedKeepingPlace(s) ==
  IF ~Known(s) /\ count = CAPACITY THEN 1 ELSE count + 1

\* The position an update for s takes an entry away from: the one of s itself,
\* the first one of a full table, or none.
Freed(s) ==
  IF Known(s) THEN pos[s] ELSE IF count = CAPACITY THEN 1 ELSE count + 1

\* Senders evicted by an update for s.
Evicted(s) == {t \in Senders \ {s} : pos[t] = Freed(s)}

\* Mutant: the update stays in RAM.
SaveForgotten == UNCHANGED saved

\* _save: the retained memory holds the table of this instant.
Save == saved' = table'

\* The number of entries after an update for s.
Grown(s) == IF Freed(s) > count THEN count + 1 ELSE count

\* update: record the counter, move the entry to the end, save.
Update(f) ==
  LET s == f.source IN
  /\ highest' = [t \in Senders |-> IF t = s THEN f.counter
                                   ELSE IF t \in Evicted(s) THEN None
                                   ELSE highest[t]]
  /\ pos' = [t \in Senders |-> IF t = s THEN Grown(s)
                               ELSE IF t \in Evicted(s) THEN 0
                               ELSE IF pos[t] > Freed(s) THEN pos[t] - 1
                               ELSE pos[t]]
  /\ count' = Grown(s)
  /\ Save

\* The senders heard, s last.
HeardAgain(s) ==
  LET before == {i \in DOMAIN heard : heard[i] = s}
      p == IF before = {} THEN Len(heard) + 1 ELSE CHOOSE i \in before : TRUE
      n == IF before = {} THEN Len(heard) + 1 ELSE Len(heard)
  IN  [i \in 1 .. n |-> IF i = n THEN s ELSE heard[IF i < p THEN i ELSE i + 1]]

\* Mutant: the table is updated whether or not the tag verifies.
AuthenticAny(f) == TRUE

\* The tag verifies: only frames really sealed pass.
Authentic(f) == f \in sent

\* Security.receive accepts f: the tag is verified, then the replay check, then
\* the update.  Any other frame is dropped and changes nothing.
Receive(f) ==
  /\ Authentic(f)
  /\ Check(f)
  /\ Update(f)
  /\ \A s \in Evicted(f.source) : lost[s] < MAX_LOST
  /\ lost' = [s \in Senders |-> IF s \in Evicted(f.source) THEN lost[s] + 1
                                ELSE lost[s]]
  /\ accepted' = [accepted EXCEPT ![f] = @ + 1]
  /\ heard' = HeardAgain(f.source)
  /\ UNCHANGED sent

\* The table reads as t.
Restore(t) == highest' = t[1] /\ pos' = t[2] /\ count' = t[3]

\* Soft reset or watchdog: the table is restored from retained memory.
SoftReset ==
  /\ Restore(saved)
  /\ UNCHANGED <<sent, saved, accepted, heard, lost>>

\* Power loss: retained memory reads as zeros, the table is emptied.
PowerLoss ==
  /\ \A s \in Senders : Known(s) => lost[s] < MAX_LOST
  /\ Restore(Empty)
  /\ saved' = Empty
  /\ lost' = [s \in Senders |-> IF Known(s) THEN lost[s] + 1 ELSE lost[s]]
  /\ heard' = <<>>
  /\ UNCHANGED <<sent, accepted>>

Next ==
  \/ \E f \in Frames : Seal(f)
  \/ \E f \in Frames : Receive(f)
  \/ SoftReset
  \/ PowerLoss

Spec == Init /\ [][Next]_vars

------------------------------------------------------------------------------
\* The type invariant of the table, its retained copy and the histories.
Tables ==
  [Senders -> Counters \cup {None}] \X [Senders -> 0 .. CAPACITY] \X (0 .. CAPACITY)

TypeOK ==
  /\ sent \in SUBSET Frames
  /\ table \in Tables
  /\ saved \in Tables
  /\ accepted \in [Frames -> Nat]
  /\ lost \in [Senders -> Nat]

\* A frame gets in once, and once more at most each time the baseline of its
\* sender was lost, by an eviction or a power loss (replay.py 6-7 and 10-11:
\* "its frames can then be replayed once"); a soft reset lets none in again.
ReplayBound ==
  \A f \in Frames : accepted[f] <= 1 + lost[f.source]

\* Whatever old, repeated or damaged frames were heard, the next frame a sender
\* seals passes the check: genuine traffic is never locked out (security.py
\* 18-20: "only authenticated, fresh frames change it").
GenuineAccepted ==
  \A f \in Frames :
    (\A g \in sent : g.source = f.source => g.counter < f.counter) => Check(f)

\* The table keeps the senders heard most recently, as many as it can hold: a
\* sender keeps its baseline while fewer than CAPACITY other ones are heard
\* after it (replay.py 5-7 and 13-16).
RecentKept ==
  /\ count = IF Len(heard) < CAPACITY THEN Len(heard) ELSE CAPACITY
  /\ \A i \in DOMAIN heard :
       LET p == i - (Len(heard) - count)
       IN  pos[heard[i]] = IF p > 0 THEN p ELSE 0
==============================================================================
