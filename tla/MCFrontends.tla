----------------------------- MODULE MCFrontends -----------------------------
(* Runs for TLC: one that closes the daemon at every point of two clients'   *)
(* lives, with a request in flight; one with a target transition, which can  *)
(* fill a queue; and one that forwards the console to two clients in turn.   *)
EXTENDS Frontends

MCRuns ==
  { [console |-> FALSE, text |-> 0, states |-> 0, requests |-> 1, faults |-> 1],
    [console |-> FALSE, text |-> 0, states |-> 1, requests |-> 0, faults |-> 0],
    [console |-> TRUE, text |-> 1, states |-> 0, requests |-> 0, faults |-> 0] }
=============================================================================
