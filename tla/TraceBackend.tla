---------------------------- MODULE TraceBackend ----------------------------
(***************************************************************************)
(* What tracecontrol expects of a trace helper: the Backend interface, with *)
(* what the code says of Abort, Poisoned and Done.  One helper process       *)
(* answers one request at a time.  A request that was admitted and not       *)
(* answered poisons the lifetime, a poisoned one admits nothing, and Done    *)
(* comes after the end of the process, always so once it is poisoned.        *)
(***************************************************************************)
VARIABLE backend

Operations == {"open", "status", "read", "start", "stop", "close"}

(* opened: a native connection was confirmed.  closing: a close was          *)
(* admitted.  The first thing pending is the greeting of the process.        *)
Backends ==
    [alive : BOOLEAN, poisoned : BOOLEAN, done : BOOLEAN, opened : BOOLEAN,
     closing : BOOLEAN, pending : Operations \union {"none", "ready"}]

Started ==
    [alive |-> TRUE, poisoned |-> FALSE, done |-> FALSE, opened |-> FALSE,
     closing |-> FALSE, pending |-> "ready"]

CanAdmit(op) ==
    /\ ~backend.poisoned /\ ~backend.done /\ ~backend.closing
    /\ backend.pending = "none"
    /\ backend.opened <=> op # "open"

Admitted(op) ==
    [backend EXCEPT !.pending = op, !.closing = @ \/ op = "close"]

CanAnswer == backend.pending # "none" /\ ~backend.poisoned

Answered ==
    [backend EXCEPT !.pending = "none",
                    !.opened = (@ \/ backend.pending = "open") /\ backend.pending # "close"]

Poisoned == [backend EXCEPT !.poisoned = TRUE]

Failed == [backend EXCEPT !.poisoned = TRUE, !.pending = "none"]

Ended == [backend EXCEPT !.alive = FALSE]

CanReap == ~backend.alive /\ (backend.poisoned \/ backend.closing)

Reaped == [backend EXCEPT !.done = TRUE]

Admit == \E op \in Operations : CanAdmit(op) /\ backend' = Admitted(op)
Answer == CanAnswer /\ backend' = Answered
Abort == backend' = Poisoned
Fail == backend.pending # "none" /\ backend' = Failed
End == backend.alive /\ backend' = Ended
Kill == backend.poisoned /\ End
Reap == CanReap /\ ~backend.done /\ backend' = Reaped
ReapPoisoned == backend.poisoned /\ Reap

Init == backend = Started

Next == Admit \/ Answer \/ Abort \/ Fail \/ End \/ Reap

Spec ==
    /\ Init /\ [][Next]_backend
    /\ WF_backend(Kill) /\ WF_backend(ReapPoisoned)

=============================================================================
