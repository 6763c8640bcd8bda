------------------------------ MODULE MCTxQueue ------------------------------
(***************************************************************************)
(* Small instance of TxQueue: two origins, one the node itself, on a port  *)
(* where their messages share a header, with urgent ones, ones in custody  *)
(* that need a header of their own, reports replaced by newer ones and a   *)
(* parent switch.                                                          *)
(***************************************************************************)
EXTENDS TxQueue

CONSTANTS own, a

Message(o, c, port, prio, len, up, replace) ==
  [origin |-> o, cls |-> c, port |-> port, prio |-> prio, shape |-> len, len |-> len,
   hop |-> 1, up |-> up, replace |-> replace]

SomeOffers ==
  {Message(own, 0, 131, 3, 1, FALSE, TRUE), Message(own, 0, 20, 1, 0, FALSE, FALSE),
   Message(a, 1, 130, 3, 1, TRUE, FALSE), Message(a, 0, 131, 3, 1, FALSE, FALSE)}

TwoHops == {1, 2}
NewParent == {2}
==============================================================================
