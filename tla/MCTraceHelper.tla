---------------------------- MODULE MCTraceHelper ----------------------------
(* The helper alone with a client that makes one request at a time, reads    *)
(* what the last status offered, and asks again when that is stale: what     *)
(* TraceBridge does when nothing fails, with longer histories of the buffer. *)
EXTENDS TraceHelper

CONSTANT MaxRequests    \* bound: requests made

VARIABLE asked          \* requests made, and the status the client knows

vars == <<helperVars, asked>>

Init == HelperInit /\ asked = [seq |-> 0, known |-> None]

Quiet ==
    process.at = "serve" /\ task.at = "idle" /\ toHelper = <<>> /\ toClient = <<>>

Ask(op) ==
    /\ Quiet /\ asked.seq < MaxRequests
    /\ session.opened <=> op # "open"
    /\ op = "read" => asked.known # None
    /\ toHelper' = << [op |-> op, seq |-> asked.seq + 1]
                       @@ (IF op = "read" THEN asked.known ELSE <<>>) >>
    /\ asked' = [asked EXCEPT !.seq = @ + 1]
    /\ UNCHANGED <<collection, callbacks, native, session, task, process, toClient, pipes,
                   served, told>>

Learn ==
    /\ toClient # <<>>
    /\ LET response == Head(toClient) IN
       asked' = IF "count" \in DOMAIN response
                THEN [asked EXCEPT !.known = [generation |-> response.generation,
                                              count |-> response.count]]
                ELSE asked
    /\ toClient' = Tail(toClient)
    /\ UNCHANGED <<collection, callbacks, native, session, task, process, toHelper, pipes,
                   served, told>>

Next ==
    \/ (Buffer \/ HelperStep) /\ UNCHANGED asked
    \/ \E op \in {"open", "status", "read", "start", "close"} : Ask(op)
    \/ Learn

Spec == Init /\ [][Next]_vars
=============================================================================
