----------------------------- MODULE TraceBridge ----------------------------
(***************************************************************************)
(* tracebridge.Client and the helper process it owns.  Each call is a        *)
(* sequence of steps of its caller; the goroutines that write a request,     *)
(* read the responses, wait for the process and kill it run beside them.     *)
(* The helper may stop answering at any point, and may be killed at any.     *)
(***************************************************************************)
EXTENDS TraceHelper

CONSTANTS
    Callers,        \* goroutines that call the client
    MaxRequests,    \* bound: requests sent
    NoCaller

ASSUME CallersAssumption == NoCaller \notin Callers
ASSUME MaxRequestsAssumption == MaxRequests \in Nat

VARIABLES
    client,     \* the fields of Client under its lock, and the killer goroutine
    pending,    \* Client.pending
    caller,     \* what each caller is doing, and how its last call ended
    gate,       \* the caller that holds the gate
    writer,     \* the request the writer goroutine has
    reader,     \* readLoop
    waiter,     \* waitProcess
    start,      \* startOwnedCommand
    past        \* history: a request sent was not answered; a close succeeded

clientVars == <<client, pending, caller, gate, writer, reader, waiter, start, past>>

vars == <<helperVars, clientVars>>

Pending(op, seq) ==
    [op |-> op, seq |-> seq, delivered |-> FALSE, closeAck |-> FALSE, response |-> None]

Idle == [at |-> "idle", op |-> "none"]

Init ==
    /\ HelperInit
    /\ client = [opened |-> FALSE, closing |-> FALSE, closed |-> FALSE, poisoned |-> FALSE,
                 ended |-> FALSE, exitFailed |-> FALSE, cleanupFailed |-> FALSE,
                 lastGeneration |-> 0, nextSeq |-> 0, killer |-> "none", known |-> None]
    /\ pending = Pending("ready", 0)
    /\ caller = [c \in Callers |-> Idle]
    /\ gate = NoCaller
    /\ writer = None
    /\ reader = "reading"
    /\ waiter = "waiting"
    /\ start = "assign"
    /\ past = [unanswered |-> FALSE, confirmed |-> FALSE]

(* abortWith: the first abort starts the goroutine that kills the process.   *)
Aborted(c) ==
    [c EXCEPT !.poisoned = TRUE, !.killer = IF @ = "none" THEN "armed" ELSE @]

Pipes == UNCHANGED <<toHelper, toClient, pipes>>

Machine == UNCHANGED <<collection, callbacks, native, session, task, process, served, told>>

-----------------------------------------------------------------------------
(* startOwnedCommand, from the moment the process exists.                    *)

StartOnly == Machine /\ Pipes /\ UNCHANGED <<caller, gate, writer, reader, waiter, past>>

Assign(assigned) ==
    /\ start = "assign"
    /\ start' = IF assigned THEN "greeting" ELSE "failing"
    /\ client' = IF assigned THEN client ELSE Aborted(client)
    /\ UNCHANGED pending /\ StartOnly

Greeted ==
    /\ start = "greeting" /\ pending.response # None
    /\ IF pending.response.bits /\ ~client.poisoned /\ ~client.ended
       THEN start' = "started" /\ pending' = None /\ UNCHANGED client
       ELSE start' = "failing" /\ client' = Aborted(client) /\ UNCHANGED pending
    /\ StartOnly

StartGivenUp ==
    /\ start = "greeting"
    /\ start' = "failing"
    /\ client' = Aborted(client)
    /\ UNCHANGED pending /\ StartOnly

(* failedStartError waits for the end of the process, for some time.         *)
StartFails ==
    /\ start = "failing"
    /\ start' = "failed"
    /\ UNCHANGED <<client, pending>> /\ StartOnly

-----------------------------------------------------------------------------
(* call and Close                                                            *)

CallOnly == Machine /\ Pipes /\ UNCHANGED <<reader, waiter, start>>

Goto(c, at) == caller' = [caller EXCEPT ![c].at = at] /\ UNCHANGED past

(* A request was sent while the caller waited for its answer, and ever since. *)
Sent(c) == caller[c].at \in {"waiting", "reaping"}

Return(c, result) ==
    /\ caller' = [caller EXCEPT ![c] = Idle]
    /\ past' = [unanswered |-> past.unanswered
                                \/ (Sent(c) /\ result \notin {"ok", "stale"}),
                confirmed |-> past.confirmed \/ (caller[c].op = "close" /\ result = "ok")]

(* The deferred functions of call, when it returns with the gate.            *)
Release == gate' = NoCaller /\ pending' = None

(* The packets of the status it knows: what the controller reads.            *)
Arguments(op) ==
    [op |-> op, seq |-> client.nextSeq + 1]
        @@ (IF op = "read"
            THEN [generation |-> client.known.generation, count |-> client.known.count]
            ELSE <<>>)

BeginCall(c, op) ==
    /\ caller[c].at = "idle" /\ start = "started"
    /\ client.nextSeq < MaxRequests
    /\ op = "read" => client.known # None
    /\ LET settled == op = "close" /\ client.closed IN
       /\ op = "close" => ~client.poisoned
       /\ caller' = [caller EXCEPT ![c] =
                        [at |-> IF settled THEN "settling" ELSE "gate", op |-> op]]
    /\ UNCHANGED <<client, pending, gate, writer, past>> /\ CallOnly

(* The deadline passes, or the client is aborted, before the gate is had.    *)
LeaveGate(c) ==
    /\ caller[c].at = "gate"
    /\ \/ Return(c, "cancelled")
       \/ client.poisoned /\ Return(c, "failed")
    /\ UNCHANGED <<client, pending, gate, writer>> /\ CallOnly

TakeGate(c) ==
    /\ caller[c].at = "gate" /\ gate = NoCaller
    /\ \/ client.poisoned /\ Return(c, "failed") /\ UNCHANGED gate
       \/ /\ ~client.poisoned /\ (client.closing \/ client.closed \/ client.ended)
          /\ IF caller[c].op = "close" /\ client.closed
             THEN Goto(c, "settling") ELSE Return(c, "refused")
          /\ UNCHANGED gate
       \/ /\ ~client.poisoned /\ ~client.closing /\ ~client.closed /\ ~client.ended
          /\ IF client.opened <=> caller[c].op # "open"
             THEN Goto(c, "gated") /\ gate' = c
             ELSE Return(c, "refused") /\ UNCHANGED gate
    /\ UNCHANGED <<client, pending, writer>> /\ CallOnly

AdmitMutant(c) ==
    /\ caller[c].at = "gated"
    /\ LET seq == client.nextSeq + 1 IN
       /\ client' = [client EXCEPT !.nextSeq = seq,
                                   !.closing = @ \/ caller[c].op = "close"]
       /\ pending' = Pending(caller[c].op, seq)
       /\ writer' = Arguments(caller[c].op)
    /\ Goto(c, "waiting")
    /\ UNCHANGED gate /\ CallOnly

(* The request is encoded; then the client is looked at once more.           *)
Admit(c) ==
    /\ caller[c].at = "gated"
    /\ \/ /\ Return(c, "cancelled") /\ Release
          /\ UNCHANGED <<client, writer>>
       \/ /\ client.poisoned \/ client.ended
          /\ Return(c, "failed") /\ Release
          /\ client' = Aborted(client)
          /\ UNCHANGED writer
       \/ /\ ~client.poisoned /\ ~client.ended
          /\ LET seq == client.nextSeq + 1 IN
             /\ client' = [client EXCEPT !.nextSeq = seq,
                                         !.closing = @ \/ caller[c].op = "close"]
             /\ pending' = Pending(caller[c].op, seq)
             /\ writer' = Arguments(caller[c].op)
             /\ Goto(c, "waiting")
             /\ UNCHANGED gate
    /\ CallOnly

Fail(c) == Return(c, "failed") /\ Release /\ client' = Aborted(client)

Commit(op, response) ==
    [client EXCEPT
        !.lastGeneration = IF op = "close" THEN @ ELSE response.generation,
        !.opened = (@ \/ op = "open") /\ op # "close",
        !.closed = @ \/ op = "close",
        !.known = IF op \in {"open", "status"}
                  THEN [generation |-> response.generation, count |-> response.count] ELSE @]

(* The response is taken before the deadline: a refused read leaves the      *)
(* client as it is, any other refusal poisons it, and so does a generation   *)
(* that went back.                                                           *)
Receive(c) ==
    /\ caller[c].at = "waiting" /\ pending.response # None
    /\ LET op == caller[c].op
           response == pending.response IN
       IF client.poisoned THEN Fail(c)
       ELSE IF ~response.ok
       THEN IF op = "read" /\ response.code = "stale_generation"
            THEN Return(c, "stale") /\ Release /\ UNCHANGED client
            ELSE Fail(c)
       ELSE IF op # "close" /\ response.generation < client.lastGeneration THEN Fail(c)
       ELSE /\ client' = Commit(op, response)
            /\ IF op = "close" THEN Goto(c, "reaping") ELSE Return(c, "ok")
            /\ Release
    /\ UNCHANGED writer /\ CallOnly

GiveUpAbortedMutant(c) ==
    /\ caller[c].at = "waiting" /\ client.poisoned
    /\ Fail(c)
    /\ UNCHANGED writer /\ CallOnly

(* The deadline passes, or the client is aborted, while the call waits for   *)
(* its request to be written or answered.                                    *)
GiveUp(c) ==
    /\ caller[c].at = "waiting"
    /\ Fail(c)
    /\ UNCHANGED writer /\ CallOnly

Done == waiter = "done"

(* Wait and closeOutcome, when Done comes in time.                           *)
Outcome ==
    IF client.cleanupFailed \/ client.poisoned \/ client.exitFailed THEN "failed" ELSE "ok"

(* Close after its acknowledgement.                                          *)
AwaitExit(c) ==
    /\ caller[c].at = "reaping"
    /\ \/ /\ Done /\ Return(c, Outcome)
          /\ client' = IF client.cleanupFailed THEN Aborted(client) ELSE client
       \/ Return(c, "failed") /\ client' = Aborted(client)
    /\ UNCHANGED <<pending, gate, writer>> /\ CallOnly

(* A Close that found the client closed: waitClosed.                         *)
AwaitClosed(c) ==
    /\ caller[c].at = "settling"
    /\ \/ Done /\ Return(c, Outcome)
       \/ Return(c, "cancelled")
    /\ UNCHANGED <<client, pending, gate, writer>> /\ CallOnly

Abort ==
    /\ start \in {"started", "failed"} /\ ~client.poisoned
    /\ client' = Aborted(client)
    /\ Machine /\ Pipes
    /\ UNCHANGED <<pending, caller, gate, writer, reader, waiter, start, past>>

-----------------------------------------------------------------------------
(* The goroutines of the client.                                             *)

Write ==
    /\ writer # None /\ pipes /\ process.at # "exited"
    /\ toHelper' = Append(toHelper, writer)
    /\ writer' = None
    /\ Machine
    /\ UNCHANGED <<toClient, pipes, client, pending, caller, gate, reader, waiter, start, past>>

(* call aborts when it learns of the failure.                                *)
WriteFails ==
    /\ writer # None /\ (~pipes \/ process.at = "exited")
    /\ writer' = None
    /\ client' = Aborted(client)
    /\ Machine /\ Pipes
    /\ UNCHANGED <<pending, caller, gate, reader, waiter, start, past>>

Expected(message) ==
    /\ pending # None /\ ~pending.delivered
    /\ IF pending.seq = 0 THEN message.event = "ready"
       ELSE message.event = "none" /\ message.seq = pending.seq

RemoteFailure(message) ==
    /\ pending.seq # 0 /\ ~message.ok
    /\ ~(pending.op = "read" /\ message.code = "stale_generation")

Reading == reader = "reading" /\ start # "assign"

ReadFrame ==
    /\ Reading /\ pipes /\ toClient # <<>>
    /\ toClient' = Tail(toClient)
    /\ LET message == Head(toClient) IN
       \/ /\ client.poisoned /\ message.event # "fatal"
          /\ reader' = "done" /\ UNCHANGED <<client, pending>>
       \/ /\ message.event = "fatal" \/ (~client.poisoned /\ ~Expected(message))
          /\ reader' = "done" /\ client' = Aborted(client) /\ UNCHANGED pending
       \/ /\ ~client.poisoned /\ message.event # "fatal" /\ Expected(message)
          /\ pending' = [pending EXCEPT !.delivered = TRUE, !.response = message,
                                        !.closeAck = (pending.op = "close" /\ message.ok)]
          /\ IF RemoteFailure(message)
             THEN reader' = "done" /\ client' = Aborted(client)
             ELSE UNCHANGED <<reader, client>>
    /\ Machine
    /\ UNCHANGED <<toHelper, pipes, caller, gate, writer, waiter, start, past>>

ExpectedEOFMutant == pipes /\ client.closed

ExpectedEOF ==
    pipes /\ (client.closed \/ (client.closing /\ pending # None /\ pending.closeAck))

ReadEnds ==
    /\ Reading
    /\ ~pipes \/ (toClient = <<>> /\ process.at = "exited")
    /\ reader' = "done"
    /\ client' = IF ExpectedEOF \/ client.poisoned THEN client ELSE Aborted(client)
    /\ Machine /\ Pipes
    /\ UNCHANGED <<pending, caller, gate, writer, waiter, start, past>>

ProcessEnded ==
    /\ waiter = "waiting" /\ start # "assign" /\ process.at = "exited"
    /\ waiter' = "ended"
    /\ client' = [client EXCEPT !.ended = TRUE, !.exitFailed = (process.code # 0)]
    /\ Machine /\ Pipes
    /\ UNCHANGED <<pending, caller, gate, writer, reader, start, past>>

ReleaseJobMutant(released) ==
    /\ waiter = "ended"
    /\ waiter' = "cleanup"
    /\ LET after == [client EXCEPT !.cleanupFailed = ~released] IN
       client' = IF ~client.closing THEN Aborted(after) ELSE after
    /\ Machine /\ Pipes
    /\ UNCHANGED <<pending, caller, gate, writer, reader, start, past>>

(* An exit nobody asked for, or one that failed, is an abort; closing the    *)
(* job object may fail.  Nobody begins to close once the process has ended.  *)
ReleaseJob(released) ==
    /\ waiter = "ended"
    /\ waiter' = "cleanup"
    /\ LET after == [client EXCEPT !.cleanupFailed = ~released] IN
       client' = IF client.exitFailed \/ ~client.closing THEN Aborted(after) ELSE after
    /\ Machine /\ Pipes
    /\ UNCHANGED <<pending, caller, gate, writer, reader, start, past>>

CleanUp ==
    /\ waiter = "cleanup" /\ writer = None /\ reader = "done"
    /\ waiter' = "done"
    /\ pipes' = FALSE
    /\ Machine
    /\ UNCHANGED <<toHelper, toClient, client, pending, caller, gate, writer, reader, start, past>>

(* The goroutine of abortWith.                                               *)
Kill ==
    /\ client.killer = "armed"
    /\ client' = [client EXCEPT !.killer = "fired"]
    /\ pipes' = FALSE
    /\ IF process.at = "exited"
       THEN Machine /\ UNCHANGED <<toHelper, toClient>> ELSE Killed
    /\ UNCHANGED <<pending, caller, gate, writer, reader, waiter, start, past>>

Crash ==
    /\ process.at # "exited"
    /\ Killed /\ UNCHANGED <<pipes, clientVars>>

Ops == {"open", "status", "read", "start", "stop", "close"}

CallStep(c) ==
    \/ LeaveGate(c) \/ TakeGate(c) \/ Admit(c) \/ Receive(c) \/ GiveUp(c)
    \/ AwaitExit(c) \/ AwaitClosed(c)

StartStep ==
    \/ \E assigned \in BOOLEAN : Assign(assigned)
    \/ Greeted \/ StartGivenUp \/ StartFails

Next ==
    \/ (Buffer \/ HelperStep) /\ UNCHANGED clientVars
    \/ StartStep
    \/ \E c \in Callers : CallStep(c) \/ \E op \in Ops : BeginCall(c, op)
    \/ Abort \/ Write \/ WriteFails \/ ReadFrame \/ ReadEnds
    \/ ProcessEnded \/ \E released \in BOOLEAN : ReleaseJob(released)
    \/ CleanUp \/ Kill \/ Crash

Spec == Init /\ [][Next]_vars

(* The runtime runs every goroutine that can go on, deadlines pass, and the  *)
(* system ends a process that was killed.  Nothing is asked of the helper.   *)
FairSpec ==
    /\ Spec
    /\ WF_vars(StartStep)
    /\ \A c \in Callers : WF_vars(CallStep(c))
    /\ WF_vars(WriteFails) /\ WF_vars(ReadFrame) /\ WF_vars(ReadEnds)
    /\ WF_vars(ProcessEnded) /\ WF_vars(\E released \in BOOLEAN : ReleaseJob(released))
    /\ WF_vars(CleanUp) /\ WF_vars(Kill)

-----------------------------------------------------------------------------

(* A call whose request was handed to the writer and that was not answered   *)
(* has poisoned the client: the controller may take a cancelled call of a    *)
(* client that is not poisoned for one that never began.                     *)
UnansweredPoisons == past.unanswered => client.poisoned

ClientFlags ==
    {"opened", "closing", "closed", "poisoned", "ended", "exitFailed", "cleanupFailed"}

ClientFields == ClientFlags \union {"lastGeneration", "nextSeq", "killer", "known"}

ClientShape(x) ==
    /\ x = [f \in ClientFields |-> x[f]]
    /\ \A f \in ClientFlags : x[f] \in BOOLEAN

CallerSteps == {"idle", "gate", "gated", "waiting", "reaping", "settling"}

BridgeTypes ==
    /\ ClientShape(client)
    /\ caller \in [Callers -> [at : CallerSteps, op : Ops \union {"none"}]]
    /\ gate \in Callers \union {NoCaller}
    /\ process \in [at : {"boot", "serve", "drain", "exited"}, code : {0, 1}]
    /\ waiter \in {"waiting", "ended", "cleanup", "done"}
    /\ past \in [unanswered : BOOLEAN, confirmed : BOOLEAN]

(* Who holds the gate found the client neither closing nor in the wrong      *)
(* state for its request, and nobody else can have changed that.             *)
GateInv ==
    \A c \in Callers :
        /\ caller[c].at \in {"gated", "waiting"} <=> gate = c
        /\ caller[c].at # "idle" => start = "started" /\ caller[c].op \in Ops
        /\ caller[c].at = "gated" =>
              ~client.closing /\ (client.opened <=> caller[c].op # "open")

(* How far waitProcess has come tells what the client knows of the process.  *)
ReapInv ==
    /\ waiter # "waiting" => process.at = "exited" /\ client.ended
    /\ waiter \in {"cleanup", "done"} =>
          client.poisoned \/ (client.closing /\ ~client.exitFailed)
    /\ Done => writer = None /\ reader = "done"

(* Inductive: callers, gate and reaping fit together, and what was sent and  *)
(* not answered has poisoned the client (call, waitProcess, abortWith).      *)
BridgeInv == BridgeTypes /\ GateInv /\ ReapInv /\ UnansweredPoisons

(* Close succeeds only when the helper disconnected, and its process ended   *)
(* by itself and was reaped, whoever aborts the client or kills the process  *)
(* meanwhile (Close, closeOutcome, waitProcess).                             *)
CloseIsConfirmed ==
    past.confirmed =>
        native.state = "closed" /\ process = [at |-> "exited", code |-> 0] /\ Done

(* The other way round: once the helper has acknowledged the close, only an  *)
(* exit code, an abort or a caller's deadline poisons the client; the end of *)
(* the pipe and of the process do not, whichever is seen first (readLoop's   *)
(* expectedEOF, waitProcess's expectedExit).                                 *)
CleanCloseUnpoisoned ==
    [][/\ client.closed \/ (pending # None /\ pending.closeAck)
       /\ ~client.poisoned /\ client'.poisoned
       => process.code # 0 \/ caller' # caller \/ Abort]_vars

(* Close reports neither more nor less than what happened: no success that   *)
(* is not one, and no failure of a helper that ended as it was told to.      *)
CloseIsExact == []CloseIsConfirmed /\ CleanCloseUnpoisoned

(* Every call returns, though the helper may never answer it.                *)
CallsReturn == \A c \in Callers : caller[c].at # "idle" ~> caller[c].at = "idle"

(* The request admitted and not yet settled; before the first, the greeting. *)
Outstanding ==
    IF start # "started" THEN "ready"
    ELSE IF gate # NoCaller /\ caller[gate].at = "waiting" THEN caller[gate].op ELSE "none"

Mapped ==
    [alive |-> process.at # "exited", poisoned |-> client.poisoned, done |-> Done,
     opened |-> client.opened, closing |-> client.closing, pending |-> Outstanding]

Backend == INSTANCE TraceBackend WITH backend <- Mapped

(* Client and helper are a backend as the controller expects it.             *)
ImplementsBackend == Backend!Spec

=============================================================================
