------------------------------ MODULE MCSession ------------------------------
(***************************************************************************)
(* Session for TLC.  Commands are told apart by what they are and do, not  *)
(* by their names, so they may take their names, which are numbers, in the *)
(* order in which they come.  No other behaviour is cut off, and none of   *)
(* the steps that fairness speaks of.                                      *)
(***************************************************************************)
EXTENDS Session

InOrder == \A c, d \in Commands : c < d /\ pc'[d] # "idle" => pc'[c] # "idle"
==============================================================================
