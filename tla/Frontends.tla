------------------------------ MODULE Frontends ------------------------------
(***************************************************************************)
(* The hand-over of the debugger from one DAP client to the next           *)
(* (internal/dap server, transport and session; internal/daemon backend;   *)
(* the lease, barrier, subscription and console parts of the core actor),  *)
(* and the forwarding of the MULTI console panes to whoever is attached.   *)
(*                                                                         *)
(* Processes: the serving goroutine of the one admitted connection, the    *)
(* event pump and the release of every frontend ever attached, the actor   *)
(* with the bridge behind it, and the daemon's shutdown.  Requests to the  *)
(* actor are one step each: its loop applies one command at a time.        *)
(***************************************************************************)
EXTENDS Integers, Sequences, FiniteSets

CONSTANTS
  MaxOwners,      \* bound on the attaches a run makes (b.nextOwner)
  MaxClients,     \* bound on the admitted connections of a run
  EventBuffer,    \* actor.Options.EventBuffer
  QueueSize,      \* defaultEventQueueSize
  Runs            \* the runs explored: is the console enabled, and how many
                  \* lines of pane text, target transitions, requests after
                  \* configurationDone, and faults or shutdowns there may be

ASSUME FrontendsAssumption ==
  /\ {MaxOwners, MaxClients, EventBuffer, QueueSize} \subseteq Nat \ {0}
  /\ Runs \subseteq [console : BOOLEAN, text : Nat, states : Nat, requests : Nat, faults : Nat]

Owners == 1 .. MaxOwners
Nobody == 0
Text == UNION {1 .. r.text : r \in Runs}

VARIABLES
  serve,     \* the admitted connection and its session
  active,    \* Backend.active
  fe,        \* the frontends the backend ever made, by owner
  actor,     \* lease, barrier and life of the actor, with its work queue
  console,   \* the actor's console bookkeeping
  panes,     \* the text of MULTI's panes and the bridge's cursor into it
  daemon,    \* the daemon's life
  shown,     \* history: what the admitted client was shown, and whether its
             \* console reset failed
  left       \* what the bounds leave of a run

vars == <<serve, active, fe, actor, console, panes, daemon, shown, left>>

NoServe == [pc |-> "none", phase |-> "AwaitInitialize", open |-> FALSE,
            attached |-> FALSE, owner |-> Nobody, queue |-> <<>>, since |-> Nobody]
NoFrontend == [pump |-> "none", release |-> "no", configuring |-> FALSE,
               reset |-> FALSE, sub |-> FALSE, events |-> <<>>]
Idle == [lease |-> Nobody, barrier |-> Nobody, faulted |-> FALSE, closed |-> FALSE,
         busy |-> FALSE, work |-> <<>>]
ShownNothing == [lines |-> {}, unreset |-> FALSE]
Quiet(enabled) == [enabled |-> enabled, disabled |-> FALSE, reported |-> FALSE,
                   pending |-> FALSE, targets |-> {}]

\* `since' is the last owner made before the connection was admitted: every
\* later one is this connection's.
Init ==
  /\ serve = NoServe
  /\ active = Nobody
  /\ fe = [o \in Owners |-> NoFrontend]
  /\ actor = Idle
  /\ panes = [text |-> 0, cursor |-> 0]
  /\ daemon = [pc |-> "up", ctx |-> TRUE, owner |-> Nobody]
  /\ shown = ShownNothing
  /\ \E r \in Runs :
       /\ console = Quiet(r.console)
       /\ left = [owner |-> 0, clients |-> MaxClients, text |-> r.text, states |-> r.states,
                  requests |-> r.requests, faults |-> r.faults]

-----------------------------------------------------------------------------
(* The actor's side of the calls. *)

Alive == ~actor.closed
Subscribed == {o \in Owners : fe[o].sub}

\* runtime.publish and publishTo: a full subscription is closed.
Publish(f, event, targets) ==
  [o \in Owners |->
    IF ~(f[o].sub /\ o \in targets) THEN f[o]
    ELSE IF Len(f[o].events) < EventBuffer THEN [f[o] EXCEPT !.events = Append(@, event)]
    ELSE [f[o] EXCEPT !.sub = FALSE]]

StateEvent == [kind |-> "state", lines |-> {}, for |-> Owners]
Reconcile == [kind |-> "reconcile", lines |-> {}, for |-> Owners]
Unavailable(targets) == [kind |-> "unavailable", lines |-> {}, for |-> targets]
Output(lines, targets) == [kind |-> "output", lines |-> lines, for |-> targets]

consoleFrontendActive ==
  console.enabled /\ ~actor.faulted /\ Subscribed # {} /\ actor.barrier = Nobody
consoleActive == consoleFrontendActive /\ ~console.disabled

hasConsoleWork == \E i \in DOMAIN actor.work : actor.work[i].kind \in {"read", "reset"}

\* The serving goroutine takes the answer to the call it waits for.
AfterReset(s) == IF s.pc = "resetting" THEN [s EXCEPT !.pc = "finish"] ELSE s
AfterRequest(s, ok) ==
  IF s.pc = "resolving" /\ ok THEN [s EXCEPT !.pc = "inspection"]
  ELSE IF s.pc \in {"requesting", "resolving"} THEN [s EXCEPT !.pc = "loop", !.owner = Nobody]
  ELSE s

\* noteConsoleFailure, with the frontends the failed read was for.
noteConsoleFailure(targets, told) ==
  IF console.reported THEN [console EXCEPT !.disabled = TRUE]
  ELSE IF told THEN [console EXCEPT !.disabled = TRUE, !.reported = TRUE]
  ELSE [console EXCEPT !.disabled = TRUE, !.pending = TRUE, !.targets = targets]

-----------------------------------------------------------------------------
(* Admission (dap.Server). *)

\* Serve and ServeConnection: claim an idle, open server.  A connection that
\* comes while another is served is told so and closed, changing nothing here.
Admit ==
  /\ serve.pc = "none" /\ daemon.pc \in {"up", "close"} /\ left.clients > 0
  /\ serve' = [NoServe EXCEPT !.pc = "loop", !.open = TRUE, !.since = left.owner]
  /\ left' = [left EXCEPT !.clients = @ - 1]
  /\ UNCHANGED <<active, fe, actor, console, panes, daemon, shown>>

\* The client goes away, or its transport fails.
ClientLeaves ==
  /\ serve.pc # "none" /\ serve.open
  /\ serve' = [serve EXCEPT !.open = FALSE]
  /\ UNCHANGED <<active, fe, actor, console, panes, daemon, shown, left>>

\* Server.offer: the result is the connection afterwards and whether it took
\* the input.  A connection that cannot take it is closed.
CanOffer(s) == s.pc # "none" /\ s.open /\ Len(s.queue) < QueueSize
Offer(s, input) ==
  IF CanOffer(s) THEN [s EXCEPT !.queue = Append(@, input)]
  ELSE IF s.pc = "none" THEN s
  ELSE [s EXCEPT !.open = FALSE]
Input(kind, from, lines) == [kind |-> kind, from |-> from, lines |-> lines]

-----------------------------------------------------------------------------
(* The serving goroutine: Session.Handle and the backend calls it makes. *)

AtLoop(phase) == serve.pc = "loop" /\ serve.phase = phase /\ serve.open
Goto(pc) == serve' = [serve EXCEPT !.pc = pc]
\* A call whose context has ended may return before its answer.
MayGiveUp == ~daemon.ctx

\* initialize: the only request a new session accepts.
initialize ==
  /\ AtLoop("AwaitInitialize")
  /\ serve' = [serve EXCEPT !.phase = "AwaitAttach"]
  /\ UNCHANGED <<active, fe, actor, console, panes, daemon, shown, left>>

\* Backend.attach: take an owner and subscribe it.  While the backend still
\* has a frontend, or the actor is gone, the request is refused.
attach ==
  /\ AtLoop("AwaitAttach")
  /\ active = Nobody /\ left.owner < MaxOwners
  /\ Alive /\ ~actor.faulted
  /\ left' = [left EXCEPT !.owner = @ + 1]
  /\ fe' = [fe EXCEPT ![left.owner + 1].sub = TRUE]
  /\ \/ serve' = [serve EXCEPT !.pc = "subscribed", !.owner = left.owner + 1]
     \/ MayGiveUp /\ UNCHANGED serve
  /\ UNCHANGED <<active, actor, console, panes, daemon, shown>>

CanAcquire(o) == Alive /\ ~actor.faulted /\ actor.lease \in {Nobody, o}

AcquireControl ==
  /\ serve.pc = "subscribed"
  /\ IF CanAcquire(serve.owner)
       THEN /\ actor' = [actor EXCEPT !.lease = serve.owner]
            /\ \/ Goto("leased")
               \/ MayGiveUp /\ Goto("undo")
       ELSE Goto("undo") /\ UNCHANGED actor
  /\ UNCHANGED <<active, fe, console, panes, daemon, shown, left>>

\* Threads, then BeginConfiguration.  A faulted reducer refuses it; a fault
\* of the actor alone does not.
BeginConfiguration ==
  /\ serve.pc = "leased"
  /\ \/ /\ Alive /\ actor.barrier = Nobody
        /\ actor' = [actor EXCEPT !.barrier = serve.owner]
        /\ \/ Goto("begun")
           \/ MayGiveUp /\ Goto("undo")
     \/ /\ ~Alive \/ actor.faulted \/ actor.barrier # Nobody
        /\ Goto("undo") /\ UNCHANGED actor
  /\ UNCHANGED <<active, fe, console, panes, daemon, shown, left>>

\* Under Backend.mu the frontend becomes the active one and its pump starts;
\* the session enters the configuration window.
commit ==
  /\ serve.pc = "begun"
  /\ IF active = Nobody
       THEN /\ active' = serve.owner
            /\ fe' = [fe EXCEPT ![serve.owner].pump = "run", ![serve.owner].configuring = TRUE]
            /\ serve' = [serve EXCEPT !.pc = "loop", !.phase = "Configuring",
                                      !.attached = TRUE, !.owner = Nobody]
            /\ UNCHANGED actor
       ELSE /\ actor' = [actor EXCEPT !.barrier = Nobody]
            /\ Goto("undo") /\ UNCHANGED <<active, fe>>
  /\ UNCHANGED <<console, panes, daemon, shown, left>>

Unsubscribed(o) == [fe EXCEPT ![o].sub = FALSE]
Released(o) == [actor EXCEPT !.lease = IF @ = o THEN Nobody ELSE @]

\* The deferred undo of a failed attach: attachment.Close and Detach.
undoAttach ==
  /\ serve.pc = "undo"
  /\ serve' = [serve EXCEPT !.pc = "loop", !.owner = Nobody]
  /\ fe' = [fe EXCEPT ![serve.owner] = NoFrontend]
  /\ actor' = IF Alive THEN Released(serve.owner) ELSE actor
  /\ UNCHANGED <<active, console, panes, daemon, shown, left>>

\* Backend.configurationDone and resetConsole: the first one of a frontend
\* queues the reset of the bridge's console cursor and waits for it.
ResetsNothing(o) == FALSE
ResetsConsole(o) == ~fe[o].reset

configurationDone ==
  /\ AtLoop("Configuring") /\ active # Nobody
  /\ IF ResetsConsole(active)
       THEN /\ fe' = [fe EXCEPT ![active].reset = TRUE]
            /\ IF Alive /\ ~actor.faulted /\ console.enabled
                 THEN /\ actor' = [actor EXCEPT !.work = Append(@, [kind |-> "reset", for |-> {}])]
                      /\ serve' = [serve EXCEPT !.pc = "resetting", !.owner = active]
                 ELSE serve' = [serve EXCEPT !.pc = "finish", !.owner = active] /\ UNCHANGED actor
       ELSE serve' = [serve EXCEPT !.pc = "finish", !.owner = active] /\ UNCHANGED <<fe, actor>>
  /\ UNCHANGED <<active, console, panes, daemon, shown, left>>

\* The actor's ConfigurationDone publishes the state the barrier held back.
ConfigurationDone ==
  /\ serve.pc = "finish"
  /\ \/ /\ Alive /\ actor.barrier # Nobody
        /\ actor' = [actor EXCEPT !.barrier = Nobody]
        /\ fe' = Publish(fe, StateEvent, Owners)
        /\ Goto("configured")
     \/ /\ ~Alive \/ actor.faulted \/ actor.barrier = Nobody \/ MayGiveUp
        /\ serve' = [serve EXCEPT !.pc = "loop", !.owner = Nobody]
        /\ UNCHANGED <<fe, actor>>
  /\ UNCHANGED <<active, console, panes, daemon, shown, left>>

markConfigured ==
  /\ serve.pc = "configured"
  /\ fe' = [fe EXCEPT ![serve.owner].configuring = FALSE]
  /\ serve' = [serve EXCEPT !.pc = "loop", !.phase = "Attached", !.owner = Nobody]
  /\ UNCHANGED <<active, actor, console, panes, daemon, shown, left>>

\* Every other request that reaches the actor picks the active frontend here
\* and sends the actor a command in the steps below: the frontend may be
\* released in between.
Picks(pc) ==
  /\ active # Nobody /\ left.requests > 0
  /\ left' = [left EXCEPT !.requests = @ - 1]
  /\ serve' = [serve EXCEPT !.pc = pc, !.owner = active]
  /\ UNCHANGED <<active, fe, actor, console, panes, daemon, shown>>

continueRequest == AtLoop("Attached") /\ Picks("execution")
step == AtLoop("Attached") /\ Picks("stepping")
setBreakpoints == (AtLoop("Configuring") \/ AtLoop("Attached")) /\ Picks("breakpoints")
readMemory == AtLoop("Attached") /\ Picks("memory")
\* An evaluation without a frame first asks the actor for the top one.
inspect == AtLoop("Attached") /\ (Picks("inspection") \/ Picks("frame"))

Refused == [serve EXCEPT !.pc = "loop", !.owner = Nobody]

Sends(pc, allowed) ==
  /\ IF Alive /\ ~actor.faulted /\ allowed
       THEN /\ actor' = [actor EXCEPT !.work = Append(@, [kind |-> "request", for |-> {serve.owner}])]
            /\ Goto(pc)
       ELSE serve' = Refused /\ UNCHANGED actor
  /\ UNCHANGED <<active, fe, console, panes, daemon, shown, left>>

\* Execution and breakpoints need the lease when the actor applies them.
HoldsLease == actor.lease = serve.owner
resume == serve.pc = "execution" /\ Sends("requesting", HoldsLease)
stepIn == serve.pc = "stepping" /\ Sends("requesting", HoldsLease)
replaceBreakpoints == serve.pc = "breakpoints" /\ Sends("requesting", HoldsLease)
readsMemory == serve.pc = "memory" /\ Sends("requesting", TRUE)
inspects == serve.pc = "inspection" /\ Sends("requesting", TRUE)
defaultEvaluationFrame == serve.pc = "frame" /\ Sends("resolving", TRUE)

\* await: the context ended or the actor is gone before the answer.
giveUp ==
  /\ MayGiveUp \/ ~Alive
  /\ serve.pc \in {"resetting", "requesting", "resolving"}
  /\ serve' = AfterRequest(AfterReset(serve), FALSE)
  /\ UNCHANGED <<active, fe, actor, console, panes, daemon, shown, left>>

\* clientConnection.serve takes one queued input.  Target states and output
\* are dropped outside the attached phase; a termination ends every session
\* that was initialized.
serveInput ==
  /\ serve.pc = "loop" /\ serve.queue # <<>>
  /\ LET input == Head(serve.queue)
         ends == input.kind = "terminate" /\ serve.phase # "AwaitInitialize"
     IN /\ serve' = [serve EXCEPT !.queue = Tail(@), !.pc = IF ends THEN "close" ELSE @]
        /\ shown' = IF serve.phase = "Attached" /\ serve.open
                      THEN [shown EXCEPT !.lines = @ \cup input.lines]
                      ELSE shown
  /\ UNCHANGED <<active, fe, actor, console, panes, daemon, left>>

\* The loop ends: a disconnect request, a lost transport, or an ended context.
endLoop ==
  /\ serve.pc = "loop"
  /\ Goto("close")
  /\ UNCHANGED <<active, fe, actor, console, panes, daemon, shown, left>>

mustEnd == serve.pc = "loop" /\ (~serve.open \/ ~daemon.ctx)

\* frontend.release runs once, by whoever comes first: close(done) here, the
\* calls to the actor in releaseStep.
StartRelease(f, o) == IF f[o].release = "no" THEN [f EXCEPT ![o].release = "cancel"] ELSE f

\* Session.Close or disconnect: the backend releases its active frontend.
closeSession ==
  /\ serve.pc = "close"
  /\ IF serve.attached /\ active # Nobody
       THEN /\ fe' = StartRelease(fe, active)
            /\ serve' = [serve EXCEPT !.pc = "closing", !.owner = active]
            /\ active' = Nobody
       ELSE serve' = NoServe /\ UNCHANGED <<active, fe>>
  /\ shown' = ShownNothing
  /\ UNCHANGED <<actor, console, panes, daemon, left>>

\* The release is over: the server's slot comes free.
releaseConnection ==
  /\ serve.pc = "closing" /\ fe[serve.owner].release = "done"
  /\ serve' = NoServe
  /\ UNCHANGED <<active, fe, actor, console, panes, daemon, shown, left>>

-----------------------------------------------------------------------------
(* The event pump and the release of a frontend. *)

Deliverable(o) == active = o

EndPump(f, o) == [f EXCEPT ![o].pump = "done", ![o].events = <<>>]

\* frontend.pump takes an event.  deliver and deliverOutput hold Backend.mu:
\* a frontend that is no longer active ends its pump.
pump(o) ==
  /\ fe[o].pump = "run" /\ fe[o].events # <<>>
  /\ LET event == Head(fe[o].events)
         input == Input(event.kind, o, event.lines)
     IN IF event.kind = "reconcile"
          THEN fe' = [fe EXCEPT ![o].pump = "fail", ![o].events = <<>>] /\ UNCHANGED serve
          ELSE IF ~Deliverable(o) THEN fe' = EndPump(fe, o) /\ UNCHANGED serve
          ELSE /\ serve' = Offer(serve, input)
               /\ fe' = IF CanOffer(serve)
                          THEN [fe EXCEPT ![o].events = Tail(@)]
                          ELSE [fe EXCEPT ![o].pump = "fail", ![o].events = <<>>]
  /\ UNCHANGED <<active, actor, console, panes, daemon, shown, left>>

\* The subscription is closed and drained, or `done' is closed.
pumpEnds(o) ==
  /\ fe[o].pump = "run"
  /\ \/ /\ fe[o].events = <<>> /\ ~fe[o].sub
        /\ fe' = [fe EXCEPT ![o].pump = "fail"]
     \/ /\ fe[o].release # "no"
        /\ fe' = EndPump(fe, o)
  /\ UNCHANGED <<serve, active, actor, console, panes, daemon, shown, left>>

FailsAnyone(o) == active # Nobody
FailsActive(o) == active = o

AfterFailKept(o) == [fe EXCEPT ![o].pump = "done"]
AfterFail(o) == StartRelease([fe EXCEPT ![o].pump = "done"], o)

\* Backend.fail: only the active frontend's client is told.
fail(o) ==
  /\ fe[o].pump = "fail"
  /\ IF FailsActive(o)
       THEN serve' = Offer(serve, Input("terminate", o, {})) /\ active' = Nobody
       ELSE UNCHANGED <<serve, active>>
  /\ fe' = AfterFail(o)
  /\ UNCHANGED <<actor, console, panes, daemon, shown, left>>

CancelsNever(o) == FALSE
Cancels(o) == fe[o].configuring

\* frontend.release: CancelConfiguration while configuring, then Detach.
releaseStep(o) ==
  /\ \/ /\ fe[o].release = "cancel"
        /\ fe' = [fe EXCEPT ![o].release = "detach", ![o].configuring = FALSE]
        /\ actor' = IF Cancels(o) /\ Alive THEN [actor EXCEPT !.barrier = Nobody] ELSE actor
     \/ /\ fe[o].release = "detach"
        /\ fe' = [Unsubscribed(o) EXCEPT ![o].release = "done"]
        /\ actor' = IF Alive THEN Released(o) ELSE actor
  /\ UNCHANGED <<serve, active, console, panes, daemon, shown, left>>

-----------------------------------------------------------------------------
(* The actor's loop, with the bridge behind it. *)

\* A target transition; the configuration barrier holds it back.
observe ==
  /\ Alive /\ ~actor.faulted /\ left.states > 0
  /\ left' = [left EXCEPT !.states = @ - 1]
  /\ fe' = IF actor.barrier = Nobody THEN Publish(fe, StateEvent, Owners) ELSE fe
  /\ UNCHANGED <<serve, active, actor, console, panes, daemon, shown>>

\* The console ticker: a pending failure notice, then the next read.
PollsConsole == consoleActive /\ ~hasConsoleWork

consoleTick ==
  /\ Alive
  /\ (console.pending /\ consoleFrontendActive) \/ PollsConsole
  /\ IF console.pending /\ consoleFrontendActive
       THEN /\ console' = [console EXCEPT !.pending = FALSE, !.reported = TRUE, !.targets = {}]
            /\ fe' = Publish(fe, Unavailable(console.targets), console.targets)
       ELSE UNCHANGED <<console, fe>>
  /\ actor' = IF PollsConsole
                THEN [actor EXCEPT !.work = Append(@, [kind |-> "read", for |-> Subscribed])]
                ELSE actor
  /\ UNCHANGED <<serve, active, panes, daemon, shown, left>>

startNext ==
  /\ Alive /\ ~actor.busy /\ actor.work # <<>>
  /\ actor' = [actor EXCEPT !.busy = TRUE]
  /\ UNCHANGED <<serve, active, fe, console, panes, daemon, shown, left>>

InFlight(kind) == Alive /\ actor.busy /\ Head(actor.work).kind = kind
Finished == [actor EXCEPT !.busy = FALSE, !.work = Tail(@)]

\* bridge.py console_read: the text behind the cursor, and both panes' new
\* cursors only once both were read.
Increment == (panes.cursor + 1) .. panes.text

\* consoleWork done: the text goes to the frontends the read was begun for.
completeRead ==
  /\ InFlight("read")
  /\ actor' = Finished
  /\ panes' = [panes EXCEPT !.cursor = panes.text]
  /\ fe' = IF consoleActive /\ Increment # {}
             THEN Publish(fe, Output(Increment, Head(actor.work).for), Head(actor.work).for)
             ELSE fe
  /\ UNCHANGED <<serve, active, console, daemon, shown, left>>

\* The bridge refuses the read: forwarding is disabled, and announced once.
failRead ==
  /\ InFlight("read")
  /\ actor' = Finished
  /\ UNCHANGED panes
  /\ LET targets == Head(actor.work).for
     IN /\ console' = noteConsoleFailure(targets, consoleFrontendActive)
        /\ fe' = IF ~console.reported /\ consoleFrontendActive
                   THEN Publish(fe, Unavailable(targets), targets)
                   ELSE fe
  /\ UNCHANGED <<serve, active, daemon, shown, left>>

\* resetConsoleWork done, after bridge.py console_reset or its refusal.
completeReset(ok) ==
  /\ InFlight("reset")
  /\ actor' = Finished
  /\ IF ok
       THEN panes' = [panes EXCEPT !.cursor = 0] /\ console' = Quiet(TRUE)
       ELSE UNCHANGED <<panes, console>>
  /\ shown' = IF serve.pc = "resetting" THEN [shown EXCEPT !.unreset = ~ok] ELSE shown
  /\ serve' = AfterReset(serve)
  /\ UNCHANGED <<active, fe, daemon, left>>

completeRequest(ok) ==
  /\ InFlight("request")
  /\ actor' = Finished
  /\ serve' = AfterRequest(serve, ok)
  /\ UNCHANGED <<active, fe, console, panes, daemon, shown, left>>

\* failClosed, from the operation in flight or from a poll of the target: the
\* queued work is answered with an error and the frontends are told.
failClosed ==
  /\ Alive /\ ~actor.faulted /\ left.faults > 0
  /\ left' = [left EXCEPT !.faults = @ - 1]
  /\ actor' = [actor EXCEPT !.faulted = TRUE, !.busy = FALSE, !.work = <<>>]
  /\ console' = IF \E i \in DOMAIN actor.work : actor.work[i].kind = "read"
                  THEN noteConsoleFailure({}, FALSE)
                  ELSE console
  /\ fe' = Publish(fe, Reconcile, Owners)
  /\ serve' = AfterRequest(AfterReset(serve), FALSE)
  /\ UNCHANGED <<active, panes, daemon, shown>>

\* MULTI appends to a pane.
appendText ==
  /\ left.text > 0
  /\ left' = [left EXCEPT !.text = @ - 1]
  /\ panes' = [panes EXCEPT !.text = @ + 1]
  /\ UNCHANGED <<serve, active, fe, actor, console, daemon, shown>>

-----------------------------------------------------------------------------
(* The daemon's end: Shutdown of cmd/multi-dap, or Runtime.fail after a      *)
(* fault, then the common sequence of Runtime.Close.                        *)

shutdown ==
  /\ daemon.pc = "up" /\ left.faults > 0
  /\ left' = [left EXCEPT !.faults = @ - 1]
  /\ daemon' = [daemon EXCEPT !.pc = "close", !.ctx = FALSE]
  /\ UNCHANGED <<serve, active, fe, actor, console, panes, shown>>

monitorActor ==
  /\ daemon.pc = "up" /\ actor.faulted
  /\ daemon' = [daemon EXCEPT !.pc = "close"]
  /\ UNCHANGED <<serve, active, fe, actor, console, panes, shown, left>>

\* dap.Close and Terminate: no connection is admitted from here on, and the
\* admitted one is told.
closeServer ==
  /\ daemon.pc = "close"
  /\ serve' = Offer(serve, Input("terminate", Nobody, {}))
  /\ daemon' = [daemon EXCEPT !.pc = "backend"]
  /\ UNCHANGED <<active, fe, actor, console, panes, shown, left>>

closeBackend ==
  /\ daemon.pc = "backend"
  /\ daemon' = [daemon EXCEPT !.pc = "releasing", !.owner = active]
  /\ fe' = IF active = Nobody THEN fe ELSE StartRelease(fe, active)
  /\ active' = Nobody
  /\ UNCHANGED <<serve, actor, console, panes, shown, left>>

\* actor.Close ends every subscription; the executor stops.  After a fault
\* the deferred Close of cmd/multi-dap runs the same sequence again, and does
\* not wait for a release the first one started.
closeActor ==
  /\ daemon.pc = "releasing"
  /\ \/ daemon.owner # Nobody => fe[daemon.owner].release = "done"
     \/ actor.faulted /\ ~daemon.ctx
  /\ daemon' = [pc |-> "down", ctx |-> daemon.ctx, owner |-> Nobody]
  /\ actor' = [Idle EXCEPT !.faulted = actor.faulted, !.closed = TRUE]
  /\ fe' = [o \in Owners |-> [fe[o] EXCEPT !.sub = FALSE]]
  /\ UNCHANGED <<serve, active, console, panes, shown, left>>

stopServeNever == FALSE /\ UNCHANGED vars

\* Runtime.Serve has returned: cmd/multi-dap ends the serving context.
stopServe ==
  /\ daemon.pc # "up" /\ daemon.ctx
  /\ daemon' = [daemon EXCEPT !.ctx = FALSE]
  /\ UNCHANGED <<serve, active, fe, actor, console, panes, shown, left>>

-----------------------------------------------------------------------------
Calls == resume \/ stepIn \/ replaceBreakpoints \/ readsMemory \/ inspects \/ defaultEvaluationFrame

Handler ==
  \/ initialize \/ attach \/ AcquireControl \/ BeginConfiguration \/ commit \/ undoAttach
  \/ configurationDone \/ ConfigurationDone \/ markConfigured
  \/ continueRequest \/ step \/ setBreakpoints \/ readMemory \/ inspect
  \/ Calls \/ giveUp
  \/ serveInput \/ endLoop \/ closeSession \/ releaseConnection

Frontend(o) == pump(o) \/ pumpEnds(o) \/ fail(o) \/ releaseStep(o)

completeWork ==
  \/ completeRead \/ failRead
  \/ \E ok \in BOOLEAN : completeReset(ok) \/ completeRequest(ok)

Daemon ==
  \/ shutdown \/ monitorActor \/ closeServer
  \/ closeBackend \/ closeActor \/ stopServe

Next ==
  \/ Admit \/ ClientLeaves \/ Handler
  \/ \E o \in Owners : Frontend(o)
  \/ observe \/ consoleTick \/ startNext \/ completeWork \/ failClosed
  \/ appendText
  \/ Daemon

Spec == Init /\ [][Next]_vars

\* Steps that nothing outside the daemon has to ask for: a handler that has
\* begun a request goes on, pumps and releases run, the actor works its queue
\* and every bridge call ends, and a daemon that has begun to close goes on.
HandlerGoesOn ==
  \/ AcquireControl \/ BeginConfiguration \/ commit \/ undoAttach
  \/ ConfigurationDone \/ markConfigured \/ Calls \/ giveUp
  \/ serveInput \/ closeSession \/ releaseConnection \/ (endLoop /\ mustEnd)
FrontendsGoOn == \E o \in Owners : Frontend(o)

FairSpec ==
  /\ Spec
  /\ WF_vars(HandlerGoesOn)
  /\ WF_vars(FrontendsGoOn)
  /\ WF_vars(startNext \/ completeWork)
  /\ WF_vars(monitorActor \/ closeServer \/ closeBackend \/ closeActor \/ stopServe)

-----------------------------------------------------------------------------
(* Properties. *)

Events == [kind : {"state", "reconcile", "unavailable", "output"}, lines : SUBSET Text, for : SUBSET Owners]
Inputs == [kind : {"state", "unavailable", "output", "terminate"}, from : Owners \cup {Nobody},
           lines : SUBSET Text]

\* The types of the state: the session phases of dap/lifecycle.go, the bounded
\* queues, and at most one operation in flight.
FrontendsTypeOK ==
  /\ serve.phase \in {"AwaitInitialize", "AwaitAttach", "Configuring", "Attached"}
  /\ serve.open \in BOOLEAN /\ serve.attached \in BOOLEAN
  /\ serve.owner \in Owners \cup {Nobody}
  /\ Len(serve.queue) <= QueueSize /\ \A i \in DOMAIN serve.queue : serve.queue[i] \in Inputs
  /\ active \in Owners \cup {Nobody}
  /\ \A o \in Owners :
       /\ fe[o].pump \in {"none", "run", "fail", "done"}
       /\ fe[o].release \in {"no", "cancel", "detach", "done"}
       /\ Len(fe[o].events) <= EventBuffer
       /\ \A i \in DOMAIN fe[o].events : fe[o].events[i] \in Events
  /\ {actor.lease, actor.barrier} \subseteq Owners \cup {Nobody}
  /\ actor.busy => actor.work # <<>>
  /\ Len(actor.work) <= 3
  /\ console.targets \subseteq Owners
  /\ panes.cursor <= panes.text

\* frontend.release, whoever ran it and whatever it raced with, leaves nothing
\* of the frontend behind in a living actor: no subscription, no lease, and
\* not the backend's active slot.
ReleasedIsGone ==
  \A o \in Owners :
    fe[o].release = "done" =>
      /\ active # o
      /\ ~fe[o].sub
      /\ Alive => actor.lease # o

\* The configuration barrier holds back every frontend's events, so it must
\* not outlive the one that raised it: while the daemon is up, it belongs to a
\* lease holder that is still attaching, or has neither finished its
\* configuration nor been released.
BarrierIsHeld ==
  (actor.barrier # Nobody /\ Alive /\ daemon.ctx) =>
    LET o == actor.barrier
    IN /\ actor.lease = o
       /\ \/ serve.pc = "begun" /\ serve.owner = o
          \/ fe[o].configuring /\ fe[o].release \in {"no", "cancel"}

\* What a frontend holds in the actor it holds only until it is released, in
\* a state that is well formed.
FrontendsInv == FrontendsTypeOK /\ ReleasedIsGone /\ BarrierIsHeld

\* Backend.deliver, deliverOutput, fail and the actor's publishTo: a client
\* only ever gets events of the frontend it attached, however late the pump of
\* an earlier one runs, and a frontend gets pane text, or the notice that it
\* is unavailable, only if it was attached when the read began.
EventsReachOwner ==
  /\ \A i \in DOMAIN serve.queue :
       serve.queue[i].from # Nobody => serve.queue[i].from > serve.since
  /\ \A o \in Owners : \A i \in DOMAIN fe[o].events : o \in fe[o].events[i].for

Shows(o) ==
  shown.lines \cup
  UNION ({fe[o].events[i].lines : i \in DOMAIN fe[o].events}
         \cup {serve.queue[i].lines : i \in DOMAIN serve.queue})

\* resetConsole before ConfigurationDone: an attached client, unless its reset
\* failed, has been shown, or is about to be, everything the bridge's cursor
\* has passed, the text an earlier client's read consumed included.
ConsoleComplete ==
  (/\ serve.phase = "Attached" /\ serve.pc \notin {"close", "closing"} /\ serve.open
   /\ ~shown.unreset /\ active # Nobody
   /\ fe[active].sub /\ ~actor.faulted /\ daemon.ctx) =>
    1 .. panes.cursor \subseteq Shows(active)

\* A lost connection frees the server's single slot: its handler ends,
\* whatever it was waiting for.
SlotComesFree == (serve.pc # "none" /\ ~serve.open) ~> (serve.pc = "none")

\* The control lease of a frontend that is no longer the backend's comes free,
\* so that the next client's attach can succeed.
LeaseComesFree ==
  \A o \in Owners :
    (actor.lease = o /\ active # o) ~> (actor.lease # o \/ active = o \/ actor.closed)

\* The next client gets its turn: what the last one held comes free.
HoldingsComeFree == SlotComesFree /\ LeaseComesFree

\* Shutdown or a fault ends every connection, pump and release, and the actor.
ShutdownEnds ==
  (daemon.pc # "up") ~>
    /\ serve.pc = "none" /\ daemon.pc = "down" /\ actor.closed
    /\ \A o \in Owners : fe[o].pump \in {"none", "done"}
                         /\ fe[o].release \in {"no", "done"}
=============================================================================
