--------------------------- MODULE MCEventDelivery ---------------------------
(***************************************************************************)
(* Values for TLC: one inspection may wait beside the samples; there are no *)
(* breakpoints, and hence no hints.                                         *)
(***************************************************************************)
EXTENDS EventDelivery

MCNoBreakpoints == {}

MCTransport == {"transport"}
=============================================================================
