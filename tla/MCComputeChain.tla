--------------------------- MODULE MCComputeChain ---------------------------
(* ComputeChain for TLC.  One worker waits no longer than the listener does,
   every other one longer. *)
EXTENDS ComputeChain

MCClientTimeout ==
  LET hasty == CHOOSE w \in Workers : TRUE
  IN [w \in Workers |-> IF w = hasty THEN ListenerBudget ELSE ListenerBudget + 1]

=============================================================================
