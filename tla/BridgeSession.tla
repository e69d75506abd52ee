---------------------------- MODULE BridgeSession ----------------------------
(***************************************************************************)
(* A daemon's MULTI session from the start of its bridge child to the      *)
(* release of everything it owns: bridge.Start and the reaper              *)
(* (internal/bridge/bootstrap.go), the MBP client (client.go), the         *)
(* executor with its one worker (executor.go), and the part of the actor   *)
(* that bootstraps a session, rolls a cold one back and runs a poll or a   *)
(* resume on an open one (internal/core/actor/actor.go).  The goroutines   *)
(* are the daemon's startup and shutdown, the reaper, the actor's loop,    *)
(* the dispatch of the operation in flight and the worker of the executor. *)
(***************************************************************************)
EXTENDS BridgeServer

CONSTANTS
    Configurations,     \* the sets of configured cores to consider
    MaxOperations       \* polls and resumes of an open session, a bound

ASSUME ConfigurationsAssumption ==
    /\ Configurations \subseteq {{"elf0"}, {"elf0", "elf1"}}
    /\ Configurations # {}
    /\ MaxOperations \in Nat

VARIABLES
    cores,      \* the configured cores, named by their programs
    daemon,     \* the thread of Runtime.Start and Runtime.Close
    reaper,     \* Process.reap, and whether it found a client: "none", "wait", "saw", "blind", "done"
    dir,        \* the private startup directory exists
    installed,  \* Process.client is set
    actor,      \* the actor's loop, see NewActor
    dispatch,   \* the dispatch goroutine of the operation in flight
    inbox,      \* runtime.complete, the completions on their way to the loop
    executor,   \* [closed, queue, worker], see NewExecutor
    job,        \* the operation the worker runs, and its MBP call
    finished,   \* completions waiting in their job.done
    ended       \* operations whose context has ended

sessionVars == <<cores, daemon, reaper, dir, installed, actor, dispatch, inbox, executor, job, finished, ended>>
vars == <<serverVars, sessionVars>>

\* rpcWork kinds: the bootstrap, the rollback, and two operations of an open session.
Bootstrap == {"open", "cores", "state"}
Kinds == Bootstrap \cup {"close", "poll", "resume"}

\* Errors as completionFailureIsTerminal tells them apart.
Errors == {"ok", "refused", "protocol", "context", "poisoned"}
Terminal(err) == err \in {"protocol", "context", "poisoned"}

NewActor == [commands |-> <<>>, opening |-> FALSE, opened |-> FALSE, confirmed |-> FALSE,
             faulted |-> FALSE, pending |-> <<>>, inflight |-> None, submitted |-> FALSE,
             reply |-> None, cause |-> None, told |-> FALSE, done |-> FALSE]

NewExecutor == [closed |-> FALSE, queue |-> <<>>, worker |-> "none"]

Idle == [kind |-> None, todo |-> <<>>, calling |-> FALSE, routes |-> {}]
NoDispatch == [kind |-> None, pc |-> "none"]

SessionInit ==
    /\ cores \in Configurations
    /\ daemon = [pc |-> "workspace", startup |-> "live", spent |-> 0, served |-> FALSE]
    /\ reaper = "none"
    /\ dir = FALSE
    /\ installed = FALSE
    /\ actor = NewActor
    /\ dispatch = NoDispatch
    /\ inbox = <<>>
    /\ executor = NewExecutor
    /\ job = Idle
    /\ finished = {}
    /\ ended = {}

Init == ServerInit /\ SessionInit

\* The context of an operation: the bootstrap operations inherit the startup context, every
\* operation but open has a deadline of its own, and dispatch cancels it when it returns.
ContextEnded(kind) == kind \in ended \/ (kind \in Bootstrap /\ daemon.startup = "ended")

-----------------------------------------------------------------------------
\* bridge.Start, the caller's thread.

actorVars == <<actor, dispatch, inbox, executor, job, finished, ended>>

\* Nothing is left of a start that fails before there is a child: no directory, a launch
\* specification that does not hold together, no mpythonrun.
StartFails ==
    /\ daemon.pc = "workspace"
    /\ daemon' = [daemon EXCEPT !.pc = "failed"]
    /\ UNCHANGED <<serverVars, cores, reaper, dir, installed, actorVars>>

StartChild ==
    /\ daemon.pc = "workspace"
    /\ daemon' = [daemon EXCEPT !.pc = "ready"]
    /\ child' = "running"
    /\ dir' = TRUE
    /\ reaper' = "wait"
    /\ UNCHANGED <<mode, preparation, ready, conn, server, request, answer, link, mishaps,
                   cores, installed, actorVars>>

\* parseReadyFile: exactly a loopback host and a port.
GoodReadyFile == ready = "valid"

\* waitReady: a file that is there is read before the context or the exit is looked at.
WaitReady ==
    /\ daemon.pc = "ready"
    /\ LET found == dir /\ ready # "absent" IN
        /\ found \/ daemon.startup = "ended" \/ reaper = "done"
        /\ daemon' = [daemon EXCEPT !.pc = IF found /\ GoodReadyFile THEN "dial" ELSE "unstart"]
    /\ UNCHANGED <<serverVars, cores, reaper, dir, installed, actorVars>>

\* DialContext, once: there is no retry.
Dial ==
    /\ daemon.pc = "dial"
    /\ \/ /\ server.pc = "listening" /\ daemon.startup = "live"
          /\ conn' = [conn EXCEPT !.client = TRUE, !.server = TRUE]
          /\ daemon' = [daemon EXCEPT !.pc = "handshake"]
       \/ /\ server.pc # "listening" \/ daemon.startup = "ended"
          /\ daemon' = [daemon EXCEPT !.pc = "unstart"]
          /\ UNCHANGED conn
    /\ UNCHANGED <<mode, preparation, child, ready, server, request, answer, link, mishaps,
                   cores, reaper, dir, installed, actorVars>>

\* readHandshake: the protocol version, the encoding and a usable message size.
GoodHandshake == conn.hello = "valid" /\ daemon.startup = "live"

\* A bug: a failed handshake leaves the connection open.
HandshakeLeaks ==
    /\ daemon.pc = "handshake"
    /\ conn.hello # "none" \/ ~conn.server \/ daemon.startup = "ended"
    /\ daemon' = [daemon EXCEPT !.pc = IF GoodHandshake THEN "install" ELSE "unstart"]
    /\ UNCHANGED <<serverVars, cores, reaper, dir, installed, actorVars>>

\* newClientContext: the handshake line, the end of the stream, or the end of the context.
Handshake ==
    /\ daemon.pc = "handshake"
    /\ conn.hello # "none" \/ ~conn.server \/ daemon.startup = "ended"
    /\ daemon' = [daemon EXCEPT !.pc = IF GoodHandshake THEN "install" ELSE "unstart"]
    /\ conn' = [conn EXCEPT !.client = GoodHandshake]
    /\ UNCHANGED <<mode, preparation, child, ready, server, request, answer, link, mishaps,
                   cores, reaper, dir, installed, actorVars>>

\* What is left of Runtime.Start between bridge.Start and the actor's open: all goes well; the
\* source resolver or the actor cannot be made, so that the executor is closed again and there
\* never is a loop; or the backend, the server or its publisher cannot, and the actor is closed.
Proceeds ==
    /\ actor' = [actor EXCEPT !.commands = <<"open">>]
    /\ executor' = [executor EXCEPT !.worker = "loop"]
    /\ daemon' = [daemon EXCEPT !.pc = "open"]
    /\ UNCHANGED conn

NoActor ==
    /\ actor' = [actor EXCEPT !.done = TRUE]
    /\ executor' = [executor EXCEPT !.worker = "loop", !.closed = TRUE]
    /\ conn' = [conn EXCEPT !.client = FALSE]
    /\ daemon' = [daemon EXCEPT !.pc = "closeProcess"]

NoServer ==
    /\ executor' = [executor EXCEPT !.worker = "loop"]
    /\ daemon' = [daemon EXCEPT !.pc = "closeActor"]
    /\ UNCHANGED <<conn, actor>>

\* The client is installed unless the child is already reaped.
Install ==
    /\ daemon.pc = "install"
    /\ IF reaper = "done"
       THEN /\ conn' = [conn EXCEPT !.client = FALSE]
            /\ daemon' = [daemon EXCEPT !.pc = "unstart"]
            /\ UNCHANGED <<installed, actor, executor>>
       ELSE /\ installed' = TRUE
            /\ Proceeds \/ NoActor \/ NoServer
    /\ UNCHANGED <<mode, preparation, child, ready, server, request, answer, link, mishaps,
                   cores, reaper, dir, dispatch, inbox, job, finished, ended>>

\* Process.Close: the client, then the child; the reaper does the rest.  The caller is Start
\* after a failure, or the daemon when the actor has stopped.
CloseProcess ==
    /\ daemon.pc \in {"unstart", "closeProcess"}
    /\ daemon' = [daemon EXCEPT !.pc = IF daemon.pc = "unstart" THEN "unstarted" ELSE "closedProcess"]
    /\ IF reaper = "done" \/ child # "running"
       THEN /\ conn' = [conn EXCEPT !.client = @ /\ ~installed]
            /\ UNCHANGED <<child, server, request>>
       ELSE /\ child' = "exited"
            /\ conn' = [conn EXCEPT !.client = @ /\ ~installed, !.server = FALSE]
            /\ server' = [pc |-> "gone", window |-> FALSE]
            /\ request' = None
    /\ UNCHANGED <<mode, preparation, ready, answer, link, mishaps,
                   cores, reaper, dir, installed, actorVars>>

\* Close returns once the reaper is done.
ProcessClosed ==
    /\ daemon.pc \in {"unstarted", "closedProcess"}
    /\ reaper = "done"
    /\ daemon' = [daemon EXCEPT !.pc = IF daemon.served THEN "closed" ELSE "failed"]
    /\ UNCHANGED <<serverVars, cores, reaper, dir, installed, actorVars>>

\* reap: Wait returns and the client is looked up ...
ReapFinds ==
    /\ reaper = "wait"
    /\ child = "exited"
    /\ reaper' = IF installed THEN "saw" ELSE "blind"
    /\ UNCHANGED <<serverVars, cores, daemon, dir, installed, actorVars>>

\* ... it is closed when there was one, the directory goes, and done is closed.
ReapEnds ==
    /\ reaper \in {"saw", "blind"}
    /\ conn' = [conn EXCEPT !.client = @ /\ reaper = "blind"]
    /\ dir' = FALSE
    /\ reaper' = "done"
    /\ UNCHANGED <<mode, preparation, child, ready, server, request, answer, link, mishaps,
                   cores, daemon, installed, actorVars>>

-----------------------------------------------------------------------------
\* The actor's loop.

\* startNext: with nothing in flight the first pending operation is dispatched, with a fresh
\* context, unless the actor is faulted or closing.
Starts(a) == a.inflight = None /\ a.pending # <<>> /\ ~a.faulted /\ ~a.done
StartNext(a) ==
    IF Starts(a)
    THEN /\ actor' = [a EXCEPT !.inflight = Head(a.pending), !.pending = Tail(a.pending), !.submitted = FALSE]
         /\ dispatch' = [kind |-> Head(a.pending), pc |-> "submit"]
         /\ ended' = ended \ {Head(a.pending)}
    ELSE /\ actor' = a
         /\ UNCHANGED <<dispatch, ended>>

Enqueue(a, kind) == [a EXCEPT !.pending = Append(a.pending, kind)]
Answered(a, err) == [a EXCEPT !.opening = FALSE, !.reply = IF err = "ok" THEN "ok" ELSE "failed"]

\* failClosed: the pending operations are answered with an error.
FailClosed(a) == [a EXCEPT !.faulted = TRUE, !.pending = <<>>]

\* bootstrapFailed: a confirmed cold session is rolled back first, on the same client; anything
\* else, and an actor that is faulted already, just fails.
RollsBack(a) == a.opening /\ ~a.faulted /\ a.confirmed /\ mode = "cold"
BootstrapFailed(a, err) ==
    IF RollsBack(a)
    THEN Enqueue([a EXCEPT !.cause = err], "close")
    ELSE FailClosed(Answered(a, err))

\* The done functions of the six kinds of work.  An open that is confirmed after its context
\* has ended is already a failed bootstrap; a rollback ends in the fault it came from, whether
\* or not it worked.
OpenDone(a, err) ==
    LET b == [a EXCEPT !.confirmed = TRUE, !.told = TRUE] IN
    CASE err # "ok" -> Answered(a, err)
      [] err = "ok" /\ daemon.startup = "ended" -> BootstrapFailed(b, "context")
      [] OTHER -> Enqueue(b, "cores")
CoresDone(a, err) == IF err = "ok" THEN Enqueue(a, "state") ELSE BootstrapFailed(a, err)
StateDone(a, err) ==
    IF err = "ok" THEN [Answered(a, "ok") EXCEPT !.opened = TRUE] ELSE BootstrapFailed(a, err)
RollbackDone(a) == FailClosed([Answered(a, a.cause) EXCEPT !.confirmed = FALSE])

WorkDone(a, kind, err) ==
    CASE kind = "open" -> OpenDone(a, err)
      [] kind = "cores" -> CoresDone(a, err)
      [] kind = "state" -> StateDone(a, err)
      [] kind = "close" -> RollbackDone(a)
      [] OTHER -> a

\* openCommand, executionCommand and closeCommand.  executionCommand takes a resume to the
\* bridge only when there is a single configured core: the execution domain of several has no
\* executor.  closeCommand closes the executor, and with it the client.
MayExecute == cores = {"elf0"}

HandleOpen ==
    /\ actor.commands # <<>> /\ Head(actor.commands) = "open" /\ ~actor.done
    /\ LET a == [actor EXCEPT !.commands = Tail(@)]
       IN  StartNext(Enqueue([a EXCEPT !.opening = TRUE], "open"))
    /\ UNCHANGED <<serverVars, cores, daemon, reaper, dir, installed, inbox, executor, job, finished>>

HandleClose ==
    /\ actor.commands # <<>> /\ Head(actor.commands) = "close" /\ ~actor.done
    /\ actor' = [NewActor EXCEPT !.done = TRUE, !.told = actor.told, !.opened = actor.opened]
    /\ executor' = [executor EXCEPT !.closed = TRUE]
    /\ conn' = [conn EXCEPT !.client = FALSE]
    /\ inbox' = <<>>
    /\ ended' = ended \cup ({actor.inflight} \cap Bootstrap)
    /\ UNCHANGED <<mode, preparation, child, ready, server, request, answer, link, mishaps,
                   cores, daemon, reaper, dir, installed, dispatch, job, finished>>

\* The poll ticker, and a continue of the controlling frontend.
Operate ==
    /\ ~actor.done /\ actor.opened /\ ~actor.faulted
    /\ daemon.spent < MaxOperations
    /\ daemon' = [daemon EXCEPT !.spent = @ + 1]
    /\ \/ /\ ~\E i \in DOMAIN actor.pending : actor.pending[i] = "poll"
          /\ actor.inflight # "poll"
          /\ StartNext(Enqueue(actor, "poll"))
       \/ /\ MayExecute
          /\ StartNext(Enqueue(actor, "resume"))
    /\ UNCHANGED <<serverVars, cores, reaper, dir, installed, inbox, executor, job, finished>>

\* completeWork.  A failure that leaves the bridge or the session model in doubt is terminal,
\* but for a cold bootstrap, whose rollback comes first.
DefersFault(a, kind) == a.opening /\ a.confirmed /\ mode = "cold" /\ kind \in {"cores", "state"}
Completed(a, kind, err) ==
    WorkDone(IF a.submitted /\ Terminal(err) /\ ~DefersFault(a, kind) THEN FailClosed(a) ELSE a, kind, err)

CompleteWork ==
    /\ inbox # <<>> /\ ~actor.done
    /\ inbox' = Tail(inbox)
    /\ IF Head(inbox) = "accepted"
       THEN /\ actor' = [actor EXCEPT !.submitted = TRUE]
            /\ UNCHANGED <<dispatch, ended>>
       ELSE StartNext(Completed([actor EXCEPT !.inflight = None], actor.inflight, Head(inbox)))
    /\ UNCHANGED <<serverVars, cores, daemon, reaper, dir, installed, executor, job, finished>>

-----------------------------------------------------------------------------
\* dispatch, with Executor.Submit inside it.

\* deliver: dropped once the loop is done.
Deliver(message) == inbox' = IF actor.done THEN inbox ELSE Append(inbox, message)

\* dispatch returns and cancels the context of its operation, which matters only while the
\* executor still has it.
Abandoned(kind) == job.kind = kind \/ \E i \in DOMAIN executor.queue : executor.queue[i] = kind
Returns(message) ==
    /\ Deliver(message)
    /\ dispatch' = NoDispatch
    /\ ended' = IF Abandoned(dispatch.kind) THEN ended \cup {dispatch.kind} ELSE ended \ {dispatch.kind}

dispatchFrame == <<serverVars, cores, daemon, reaper, dir, installed, actor, job>>

\* Submit under its locks: refused when the executor is closed, otherwise it counts as a
\* submitter from here on.
SubmitEnters ==
    /\ dispatch.pc = "submit"
    /\ IF executor.closed
       THEN Returns("refused")
       ELSE /\ dispatch' = [dispatch EXCEPT !.pc = "entered"]
            /\ UNCHANGED <<inbox, ended>>
    /\ UNCHANGED <<dispatchFrame, executor, finished>>

\* Its first look at closing.
SubmitLooks ==
    /\ dispatch.pc = "entered"
    /\ IF executor.closed
       THEN Returns("refused")
       ELSE /\ dispatch' = [dispatch EXCEPT !.pc = "select"]
            /\ UNCHANGED <<inbox, ended>>
    /\ UNCHANGED <<dispatchFrame, executor, finished>>

\* Its select: the queue has room, and a closing executor or an ended context may win.
SubmitQueues ==
    /\ dispatch.pc = "select"
    /\ executor' = [executor EXCEPT !.queue = Append(@, dispatch.kind)]
    /\ Deliver("accepted")
    /\ dispatch' = [dispatch EXCEPT !.pc = "await"]
    /\ UNCHANGED <<dispatchFrame, finished, ended>>

SubmitGivesUp ==
    /\ dispatch.pc = "select"
    /\ executor.closed \/ ContextEnded(dispatch.kind)
    /\ \E err \in {"refused", "context"} :
        /\ err = "refused" => executor.closed
        /\ err = "context" => ContextEnded(dispatch.kind)
        /\ Returns(err)
    /\ UNCHANGED <<dispatchFrame, executor, finished>>

\* The completion arrives, or the context ends first and the operation is left to the worker.
AwaitCompletion ==
    /\ dispatch.pc = "await"
    /\ \E f \in finished :
        /\ f.kind = dispatch.kind
        /\ Returns(f.err)
        /\ finished' = finished \ {f}
    /\ UNCHANGED <<dispatchFrame, executor>>

AwaitGivesUp ==
    /\ dispatch.pc = "await"
    /\ ContextEnded(dispatch.kind)
    /\ Returns("context")
    /\ finished' = {}
    /\ UNCHANGED <<dispatchFrame, executor>>

\* The deadline of an operation passes; open has none but that of the startup.
DeadlinePasses ==
    /\ dispatch.pc # "none"
    /\ dispatch.kind \notin ended \cup {"open"}
    /\ ended' = ended \cup {dispatch.kind}
    /\ mishaps' = mishaps \cup {"deadline"}
    /\ UNCHANGED <<mode, preparation, child, ready, conn, server, request, answer, link,
                   cores, daemon, reaper, dir, installed, actor, dispatch, inbox, executor, job, finished>>

-----------------------------------------------------------------------------
\* The worker, and the client calls of the operation it runs.

workerFrame == <<mode, preparation, child, ready, server, link, mishaps,
                 cores, daemon, reaper, dir, installed, actor, dispatch, inbox>>

\* The first call of every kind of work; cores and state go on from what they are told.
FirstCalls(kind) ==
    CASE kind = "poll" -> <<"state">>
      [] OTHER -> <<kind>>

\* The worker takes an operation in its loop, and when it drains the queue of a closed executor.
TakeJob ==
    /\ executor.worker \in {"loop", "drain"}
    /\ job = Idle
    /\ executor.queue # <<>>
    /\ executor' = [executor EXCEPT !.queue = Tail(@)]
    /\ job' = [Idle EXCEPT !.kind = Head(executor.queue), !.todo = FirstCalls(Head(executor.queue))]
    /\ UNCHANGED <<workerFrame, conn, request, answer, finished, ended>>

\* e.submitters.
Submitting == dispatch.pc \in {"entered", "select"}

\* A bug: the worker does not wait for them.
WorkerSeesClosingEarly ==
    /\ executor.worker = "loop"
    /\ job = Idle
    /\ executor.closed
    /\ executor' = [executor EXCEPT !.worker = "drain"]
    /\ UNCHANGED <<workerFrame, conn, request, answer, job, finished, ended>>

\* Once closing is seen, the worker waits for the submitters that are still inside Submit.
WorkerSeesClosing ==
    /\ executor.worker = "loop"
    /\ job = Idle
    /\ executor.closed
    /\ ~Submitting
    /\ executor' = [executor EXCEPT !.worker = "drain"]
    /\ UNCHANGED <<workerFrame, conn, request, answer, job, finished, ended>>

WorkerExits ==
    /\ executor.worker = "drain"
    /\ job = Idle
    /\ executor.queue = <<>>
    /\ executor' = [executor EXCEPT !.worker = "exited"]
    /\ UNCHANGED <<workerFrame, conn, request, answer, job, finished, ended>>

\* run: the completion goes into the operation's own channel; nobody reads it after an abandoned
\* wait.
Awaited == dispatch.pc = "await" /\ dispatch.kind = job.kind
JobEnds(err) ==
    /\ job' = Idle
    /\ finished' = IF Awaited THEN {[kind |-> job.kind, err |-> err]} ELSE finished
    /\ ended' = IF Awaited THEN ended ELSE ended \ {job.kind}

Poison == conn' = [conn EXCEPT !.client = FALSE]

\* Call on a poisoned client.
CallRefused ==
    /\ job # Idle /\ ~job.calling
    /\ ~conn.client
    /\ JobEnds("poisoned")
    /\ UNCHANGED <<workerFrame, conn, request, answer, executor>>

\* writeRequest.  Whatever is still on the wire from before belongs to another call.
CallWrites ==
    /\ job # Idle /\ ~job.calling
    /\ conn.client
    /\ request = None
    /\ request' = [method |-> Head(job.todo), current |-> TRUE]
    /\ answer' = IF answer = None THEN None ELSE [answer EXCEPT !.current = FALSE]
    /\ job' = [job EXCEPT !.calling = TRUE]
    /\ UNCHANGED <<workerFrame, conn, executor, finished, ended>>

\* What the driver makes of a response.  ResolveTopology wants as many program components as
\* there are configured cores, and of each a configured program that no other has selected; a
\* refused H is no error.
Fits(j, result) ==
    CASE result = "n1" -> cores = {"elf0"}
      [] result = "n2" -> cores # {"elf0"}
      [] result \in Programs -> result \in cores /\ result \notin j.routes
      [] OTHER -> TRUE

Verdict(j, result) ==
    CASE result = "odd" -> "protocol"
      [] Head(j.todo) = "halt" -> "ok"
      [] result = "refused" \/ ~Fits(j, result) -> "refused"
      [] OTHER -> "ok"

\* The calls that remain: one routed P per component, H when the target is stopped.
Rest(j, result) ==
    CASE result = "n1" -> <<"route">>
      [] result = "n2" -> <<"route", "route">>
      [] result = "halted" -> <<"halt">>
      [] OTHER -> Tail(j.todo)

\* Call returns with the response to its request; the operation goes on or ends.
CallReturns ==
    /\ job.calling
    /\ conn.client
    /\ answer # None /\ answer.current
    /\ answer' = None
    /\ LET verdict == Verdict(job, answer.result)
           rest == Rest(job, answer.result)
       IN  IF verdict = "ok" /\ rest # <<>>
           THEN /\ job' = [job EXCEPT !.calling = FALSE, !.todo = rest,
                                      !.routes = @ \cup ({answer.result} \cap Programs)]
                /\ UNCHANGED <<finished, ended>>
           ELSE JobEnds(verdict)
    /\ UNCHANGED <<workerFrame, conn, request, executor>>

\* The call fails: its context has ended, the connection is closed on either side, or the
\* response is to another request.  The client is poisoned, so nothing is read from it again.
CallBreaks == \/ ContextEnded(job.kind)
              \/ ~conn.client
              \/ ~conn.server /\ answer = None
              \/ answer # None /\ ~answer.current

\* What the work makes of it.  An answer that can be read but is another request's is told from
\* the end of the context, which stateWork forgives an H: the sample then does without.
Broken(err) ==
    /\ CallBreaks
    /\ err = "poisoned" => ~ContextEnded(job.kind) \/ (answer # None /\ ~answer.current)
    /\ err = "context" => ContextEnded(job.kind)
    /\ JobEnds(IF err = "context" /\ Head(job.todo) = "halt" THEN "ok" ELSE err)

\* A bug: a call that gives up leaves the connection usable.
CallFailsOpen ==
    /\ job.calling
    /\ \E err \in {"context", "poisoned"} : Broken(err)
    /\ UNCHANGED <<workerFrame, conn, request, answer, executor>>

CallFails ==
    /\ job.calling
    /\ \E err \in {"context", "poisoned"} : Broken(err)
    /\ Poison
    /\ answer' = None
    /\ UNCHANGED <<workerFrame, request, executor>>

-----------------------------------------------------------------------------
\* The daemon's thread around the open session.

daemonFrame == <<serverVars, cores, reaper, dir, installed, dispatch, inbox, executor, job, finished, ended>>

\* The startup deadline, or the end of the caller's context.
StartupEnds ==
    /\ daemon.startup = "live"
    /\ ~daemon.served /\ daemon.pc \notin {"failed", "closed"}
    /\ daemon' = [daemon EXCEPT !.startup = "ended"]
    /\ UNCHANGED <<daemonFrame, actor>>

\* Actor.Open returns with the reply of the loop, or without it when its context ends.
OpenReturns ==
    /\ daemon.pc = "open"
    /\ \/ /\ actor.reply # None
          /\ daemon' = [daemon EXCEPT !.pc = IF actor.reply = "ok" THEN "serving" ELSE "closeActor",
                                      !.served = actor.reply = "ok"]
       \/ /\ daemon.startup = "ended"
          /\ daemon' = [daemon EXCEPT !.pc = "closeActor"]
    /\ UNCHANGED <<daemonFrame, actor>>

\* A bug: nobody watches the actor's fault.
LosesBridge ==
    /\ daemon.pc = "serving"
    /\ reaper = "done"
    /\ daemon' = [daemon EXCEPT !.pc = "closeActor"]
    /\ UNCHANGED <<daemonFrame, actor>>

\* monitorBridge and monitorActor end a daemon that has lost its bridge or its actor; otherwise
\* it is asked to shut down.
LosesSession ==
    /\ daemon.pc = "serving"
    /\ reaper = "done" \/ actor.faulted
    /\ daemon' = [daemon EXCEPT !.pc = "closeActor"]
    /\ UNCHANGED <<daemonFrame, actor>>

Shutdown ==
    /\ daemon.pc = "serving"
    /\ daemon' = [daemon EXCEPT !.pc = "closeActor"]
    /\ UNCHANGED <<daemonFrame, actor>>

\* Actor.Close, from the command to the end of the loop.
CloseActor ==
    /\ daemon.pc = "closeActor"
    /\ daemon' = [daemon EXCEPT !.pc = "closingActor"]
    /\ actor' = [actor EXCEPT !.commands = Append(@, "close")]
    /\ UNCHANGED daemonFrame

ActorClosed ==
    /\ daemon.pc = "closingActor"
    /\ actor.done
    /\ daemon' = [daemon EXCEPT !.pc = "closeProcess"]
    /\ UNCHANGED <<daemonFrame, actor>>

-----------------------------------------------------------------------------
DaemonNext ==
    \/ StartFails \/ StartChild \/ WaitReady \/ Dial \/ Handshake \/ Install \/ CloseProcess \/ ProcessClosed
    \/ ReapFinds \/ ReapEnds
    \/ HandleOpen \/ HandleClose \/ CompleteWork
    \/ SubmitEnters \/ SubmitLooks \/ SubmitQueues \/ SubmitGivesUp
    \/ AwaitCompletion \/ AwaitGivesUp \/ DeadlinePasses
    \/ TakeJob \/ WorkerSeesClosing \/ WorkerExits
    \/ CallRefused \/ CallWrites \/ CallReturns \/ CallFails
    \/ StartupEnds \/ OpenReturns \/ LosesSession \/ CloseActor \/ ActorClosed

Next ==
    \/ ServerNext /\ UNCHANGED sessionVars
    \/ DaemonNext
    \/ Operate
    \/ Shutdown

Spec == Init /\ [][Next]_vars

\* Go schedules its goroutines, and time passes; the child, MULTI and the people at the desk
\* owe nothing.
FairSpec == Spec /\ WF_vars(DaemonNext)

-----------------------------------------------------------------------------
\* Properties.

\* The types of the variables that the code declares.
BridgeTypeOK ==
    /\ daemon.startup \in {"live", "ended"}
    /\ reaper \in {"none", "wait", "saw", "blind", "done"}
    /\ actor.inflight \in Kinds \cup {None}
    /\ \A i \in DOMAIN actor.pending : actor.pending[i] \in Kinds
    /\ \A i \in DOMAIN inbox : inbox[i] \in Errors \cup {"accepted"}
    /\ \A i \in DOMAIN executor.queue : executor.queue[i] \in Kinds
    /\ dispatch.kind = actor.inflight \/ dispatch = NoDispatch \/ actor.done
    /\ ended \subseteq Kinds
    /\ request = None \/ request.method \in Methods
    /\ answer = None \/ answer.result \in Results

\* When the daemon has failed to start or has closed, no child, no private directory and no
\* connection of its own is left, and the actor's loop has ended (Process.Close, reap and the
\* deferred clean-up of Runtime.Start).
NothingOutlives ==
    daemon.pc \in {"failed", "closed"} =>
        /\ child # "running" /\ ~dir /\ ~conn.client
        /\ executor.worker # "none" => actor.done

\* Submit's promise: what was accepted is run, also by an executor that closes meanwhile.  The
\* worker never leaves an operation in the queue, nor a submitter that could still put one there.
NothingStranded ==
    executor.worker = "exited" => executor.queue = <<>> /\ ~Submitting

\* A call never finds on its connection what belongs to an earlier one: every way in which a call
\* can end without its response poisons the client.
NoStaleAnswer ==
    job.calling /\ conn.client =>
        /\ request # None => request.current
        /\ answer # None => answer.current

\* Warm sessions and unconfirmed opens are never closed, a session that has opened is left to
\* the operator, and several cores are never resumed together: what the child is asked is asked
\* with a right to ask it, and the operator's own connection is left alone.
RequestsAreEarned ==
    /\ request # None =>
        CASE request.method = "open" -> ~actor.told
          [] request.method = "close" -> mode = "cold" /\ actor.told /\ ~actor.opened
          [] request.method = "resume" -> actor.opened /\ cores = {"elf0"}
          [] OTHER -> actor.told
    /\ mode = "warm" => link = "operator"

\* What is on the wire is right: it is well formed, belongs to the call that waits for it, and asks
\* of MULTI only what the daemon may ask.
WireInv == BridgeTypeOK /\ NoStaleAnswer /\ RequestsAreEarned

\* A daemon that fails to start leaves a target connection behind only when the startup or an
\* operation ran out of time, the child died or MULTI would not disconnect: every other failed
\* bootstrap undoes its cold open before the daemon gives up.
ColdOpenIsUndone ==
    daemon.pc = "failed" /\ link = "bridge" => daemon.startup = "ended" \/ mishaps # {}

\* A daemon that ends leaves nothing of its own behind: no process, file or connection, and no
\* target connection that it could have undone.
EndsClean == NothingOutlives /\ ColdOpenIsUndone

\* Runtime.Start returns, however long the child and MULTI take.
StartupSettles == <>(daemon.pc \in {"serving", "failed", "closed"})

\* Once the executor is closed its worker ends, with every accepted operation completed.
ClosedExecutorEnds == executor.closed ~> executor.worker = "exited"

\* A daemon that serves without a bridge, or with a faulted actor, closes.
LossEndsDaemon == daemon.served /\ (reaper = "done" \/ actor.faulted) ~> daemon.pc = "closed"

\* No wait of the daemon is for ever, at its start, in its executor or after a loss.
DaemonSettles == StartupSettles /\ ClosedExecutorEnds /\ LossEndsDaemon

=============================================================================
