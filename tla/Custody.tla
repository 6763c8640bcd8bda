------------------------------- MODULE Custody -------------------------------
(***************************************************************************)
(* What the hop-by-hop reliability of class 1 promises (mesh/reliable.py,  *)
(* "Custody"): a message submitted is always in the queue of some node,    *)
(* unless it was delivered or a node gave it up and told its origin.       *)
(* A node hands a message over by leaving it to another one that has it.   *)
(***************************************************************************)

CONSTANTS Nodes, Messages

VARIABLES
  holders,    \* nodes that have each message in their queue
  delivered,  \* messages delivered
  givenUp     \* messages whose failure some node has reported

vars == <<holders, delivered, givenUp>>

Over(m) == m \in delivered \cup givenUp

Init ==
  /\ holders = [m \in Messages |-> {}]
  /\ delivered = {}
  /\ givenUp = {}

\* What happens to the holders of m when the node n takes it, or leaves it.
Taken(m, n) == holders'[m] = holders[m] \cup {n}
Left(m, n) == holders'[m] = holders[m] \ {n}

Submit(n) ==
  /\ \A m \in Messages : \/ holders'[m] = holders[m]
                         \/ Taken(m, n) /\ holders[m] = {} /\ ~Over(m)
  /\ UNCHANGED <<delivered, givenUp>>

\* A node takes messages that others have, and leaves to them some of its own.
Hand(n) ==
  /\ \A m \in Messages : \/ holders'[m] = holders[m]
                         \/ Taken(m, n) /\ (holders[m] # {} \/ Over(m))
                         \/ Left(m, n) /\ (holders[m] \ {n} # {} \/ Over(m))
  /\ UNCHANGED <<delivered, givenUp>>

\* The destination receives messages.
Deliver ==
  /\ delivered \subseteq delivered'
  /\ \A m \in delivered' : holders[m] # {} \/ Over(m)
  /\ UNCHANGED <<holders, givenUp>>

\* A node reports failures, and leaves the messages.
GiveUp(n) ==
  /\ givenUp \subseteq givenUp'
  /\ \A m \in givenUp' : m \in givenUp \/ n \in holders[m]
  /\ \A m \in Messages : \/ holders'[m] = holders[m]
                         \/ Left(m, n) /\ m \in givenUp'
  /\ UNCHANGED delivered

Next ==
  /\ holders' \in [Messages -> SUBSET Nodes]
  /\ delivered' \subseteq Messages /\ givenUp' \subseteq Messages
  /\ \/ Deliver
     \/ \E n \in Nodes : Submit(n) \/ Hand(n) \/ GiveUp(n)

Spec == Init /\ [][Next]_vars

------------------------------------------------------------------------------
\* The type invariant of the abstract state.
TypeOK ==
  /\ holders \in [Messages -> SUBSET Nodes]
  /\ delivered \subseteq Messages
  /\ givenUp \subseteq Messages

\* A message never vanishes: one that a node has is later held by a node, delivered
\* or given up (reliable.py, holding; link.py, _receive).
NeverLost ==
  [][\A m \in Messages : holders[m] # {} \/ Over(m) => (holders[m] # {} \/ Over(m))']_vars
==============================================================================
