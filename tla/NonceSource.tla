----------------------------- MODULE NonceSource -----------------------------
(***************************************************************************)
(* What a board promises the receivers of its frames: under one key, the   *)
(* frame counters it seals strictly increase and stop below a limit.  The  *)
(* pair (link source, counter) is the AEAD nonce, so it never repeats.     *)
(***************************************************************************)
EXTENDS Integers

CONSTANT COUNTER_LIMIT

VARIABLE used   \* counters sealed under the current key

Init == used = {}

\* A frame is sealed with a counter above all the previous ones.
Issue(c) ==
  /\ c \in 0 .. COUNTER_LIMIT - 1
  /\ \A u \in used : u < c
  /\ used' = used \cup {c}

\* The key changes: the counters of the former key no longer matter.
ChangeKey == used' = {}

Next == ChangeKey \/ \E c \in 0 .. COUNTER_LIMIT - 1 : Issue(c)

Spec == Init /\ [][Next]_used
==============================================================================
