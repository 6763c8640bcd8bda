----------------------------- MODULE MCDutyCycle -----------------------------
(***************************************************************************)
(* Small instance of DutyCycle.                                            *)
(***************************************************************************)
EXTENDS DutyCycle

Shares == <<100, 80, 60>>
==============================================================================
