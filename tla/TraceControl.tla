---------------------------- MODULE TraceControl ----------------------------
(***************************************************************************)
(* Native trace control: the trace commands of the session actor, the       *)
(* controller that runs them one lock section at a time, the helpers it      *)
(* starts and the operating system's lock on a trace source.                 *)
(*                                                                           *)
(* A helper is a TraceBackend; TraceBridge shows that a client is one.  The  *)
(* lock on a source is a name that exists while some handle on it is open:   *)
(* the daemon's lease holds one and every helper inherits another.  Each     *)
(* open names its source: the one an earlier open named, or another.         *)
(*                                                                           *)
(* The counters that fence late work are abstracted to what is asked of      *)
(* them: a piece of work is `fresh' while the counter it read is unchanged,  *)
(* so that advancing the counter makes all the work there is stale.          *)
(***************************************************************************)
EXTENDS Naturals, Sequences, FiniteSets, Functions

CONSTANTS Owners,      \* the frontends
          None,
          MaxOpens,    \* the bound of nextID
          MaxQueue,    \* the trace commands that wait for the actor
          Requested,   \* the operations the frontends ask for
          Answers      \* what a helper may answer, a subset of AllAnswers

VARIABLES actor,       \* the session actor, as far as traces go
          queue,       \* the trace work that was admitted and not started
          inflight,    \* the trace work the actor waits for
          exec,        \* the goroutines that run Execute
          ctl,         \* the Controller
          helpers,     \* the helper of every handle
          inherited,   \* the helpers that inherited a handle on the source
          leases,      \* the source lease of every handle
          releasers,   \* the goroutines of releaseAfterReap
          waiting,     \* the WaitGroup of the helpers
          connected,   \* history: open was dispatched, close not confirmed
          source,      \* the source every open named, 0 before it
          rival,       \* the source another daemon holds, 0 if it holds none
          daemon       \* running, shutdown, reaped or crashed

vars == <<actor, queue, inflight, exec, ctl, helpers, inherited, leases,
          releasers, waiting, connected, source, rival, daemon>>

actorVars == <<actor, queue, inflight>>
lockVars == <<inherited, leases, waiting, connected, source>>

Handles == 1 .. MaxOpens
Sources == 1 .. MaxOpens
Threads == 1 .. 2
AllAnswers == {"good", "changed", "bad"}
Operations == {"open", "status", "read", "start", "stop", "close"}

B(h) == INSTANCE TraceBackend WITH backend <- helpers[h]

ASSUME ControlAssumption ==
    /\ None \notin Owners
    /\ MaxOpens \in Nat \ {0} /\ MaxQueue \in Nat \ {0}
    /\ Requested \subseteq Operations
    /\ Answers \subseteq AllAnswers /\ "good" \in Answers

Works == [owner : Owners, op : Operations, handle : 0 .. MaxOpens, current : BOOLEAN]

(* fresh: the epoch is the one Execute read.  live: the context has not      *)
(* ended.  out: what perform found.                                          *)
NoThread ==
    [pc |-> "none", owner |-> None, op |-> "none", handle |-> 0, fresh |-> FALSE,
     live |-> FALSE, out |-> "none"]

Spawned == {h \in Handles : helpers[h] # None}
Alive == {h \in Spawned : helpers[h].alive}

(* The name of source s exists.                                              *)
SourceTaken(s) ==
    \/ rival = s
    \/ \E h \in Handles :
         source[h] = s /\ (leases[h] \in {"held", "leaked"} \/ h \in Alive \intersect inherited)

(* acquireNativeTraceSourceForProbe may succeed.                             *)
MayObtain(t) == ~SourceTaken(source[exec[t].handle])

(* The sources an open may name.  A new one makes a difference only while    *)
(* something of an earlier open is left: otherwise it is like the old one.   *)
Lingers(h) == leases[h] \in {"held", "leaked"} \/ h \in Alive
Nameable(h) == {s \in 1 .. h : s = 1 \/ \E k \in 1 .. h - 1 : Lingers(k)}

NewControl ==
    [backend |-> None, lease |-> None, retired |-> None, factoryActive |-> FALSE,
     owner |-> None, nextID |-> 0, state |-> "idle", busy |-> FALSE, needs |-> FALSE,
     receipt |-> "none", closed |-> FALSE]

Init ==
    /\ actor = [owner |-> None, blocked |-> FALSE, faulted |-> FALSE, closing |-> FALSE]
    /\ queue = <<>>
    /\ inflight = None
    /\ exec = [t \in Threads |-> NoThread]
    /\ ctl = NewControl
    /\ helpers = [h \in Handles |-> None]
    /\ inherited = {}
    /\ leases = [h \in Handles |-> "none"]
    /\ releasers = {}
    /\ waiting = {}
    /\ connected = {}
    /\ source = [h \in Handles |-> 0]
    /\ rival = 0
    /\ daemon = "running"

-----------------------------------------------------------------------------
(* The controller's helpers of its own.                                      *)

(* Snapshot finds out that the idle helper has gone.                         *)
Refreshed(c) ==
    IF c.backend # None /\ ~c.busy /\ helpers[c.backend].done
      THEN [c EXCEPT !.retired = c.backend, !.backend = None, !.state = "faulted",
                     !.needs = TRUE, !.receipt = "exited"]
      ELSE c

(* A lease is closed once; what the first close said is what all say.  One   *)
(* that fails may leave the handle open, and then does here.                 *)
CloseLease(h) ==
    IF leases[h] = "held"
      THEN \E result \in {"closed", "leaked"} : leases' = [leases EXCEPT ![h] = result]
      ELSE UNCHANGED leases

Releasing(lease, h) ==
    IF lease = None THEN releasers ELSE releasers \union {<<lease, h>>}

Aborted(h) == IF h = None THEN helpers ELSE [helpers EXCEPT ![h] = B(h)!Poisoned]

(* Every Execute that has read the epoch is stale.                           *)
Fence(threads) == [t \in Threads |-> [threads[t] EXCEPT !.fresh = FALSE]]

(* Invalidate(owner, reason); None is the empty owner, final is the reason   *)
(* "daemon_closed".                                                          *)
Concerns(o) == o = None \/ o = ctl.owner
Working == ctl.backend # None \/ ctl.busy

(* Mutant: the lease is released under a factory that is at work.            *)
ReleasesLeaseMutant(final) == final \/ (Working /\ ctl.backend = None)

(* Mutant: the lease of a helper that has failed is forgotten.               *)
ReleasesLeaseForgets(final) ==
    ~ctl.factoryActive /\ Working /\ (final \/ ctl.backend = None)

ReleasesLease(final) ==
    /\ ~ctl.factoryActive
    /\ final \/ (Working /\ ctl.backend = None)

InvalidatedControl(final) ==
    LET c == [ctl EXCEPT !.closed = @ \/ final,
                         !.lease = IF ReleasesLease(final) THEN None ELSE @]
    IN  IF ~Working THEN c
        ELSE [c EXCEPT !.retired = IF c.backend # None THEN c.backend ELSE @,
                       !.backend = None, !.busy = FALSE, !.needs = TRUE,
                       !.state = "faulted", !.receipt = "abandoned"]

Invalidated(o, final) ==
    IF Concerns(o)
      THEN /\ ctl' = Refreshed(InvalidatedControl(final))
           /\ helpers' = Aborted(ctl.backend)
           /\ releasers' = IF ReleasesLease(final)
                             THEN Releasing(ctl.lease, IF Working THEN ctl.backend ELSE ctl.retired)
                             ELSE releasers
      ELSE ctl' = Refreshed(ctl) /\ UNCHANGED <<helpers, releasers>>

Fences(o) == Concerns(o) /\ Working

(* invalidateTraceOwner: the controller, the work in flight, the latch.      *)
InFlightOf(o) == inflight # None /\ (o = None \/ inflight.owner = o)

Cancelled(threads, o) ==
    IF InFlightOf(o) THEN [threads EXCEPT ![inflight.thread].live = FALSE] ELSE threads

InvalidateTraceOwner(o, final) ==
    /\ Invalidated(o, final)
    /\ exec' = Cancelled(IF Fences(o) THEN Fence(exec) ELSE exec, o)
    /\ UNCHANGED lockVars

Latched(o) == actor.blocked \/ InFlightOf(o) \/ ctl'.needs

-----------------------------------------------------------------------------
(* Execute, one step for every stretch of it between two lock sections.      *)

At(t, pc) == exec[t].pc = pc
Running(t) == exec[t].pc \notin {"none", "returned"}
Goto(t, pc) == exec' = [exec EXCEPT ![t].pc = pc]
Current(t) == exec[t].fresh /\ ctl.owner = exec[t].owner
WorkEnded(t) == ~exec[t].live \/ ~exec[t].fresh

(* Execute returns; an open that has no helper leaves the WaitGroup here,    *)
(* one that has a helper leaves it when that is reaped.                      *)
Return(t) ==
    /\ exec' = [exec EXCEPT ![t] = [NoThread EXCEPT !.pc = "returned", !.live = exec[t].live]]
    /\ waiting' = IF exec[t].op = "open" /\ exec[t].handle # 0 /\ helpers[exec[t].handle] = None
                    THEN waiting \ {exec[t].handle} ELSE waiting

Refuses(c, x) ==
    \/ c.closed \/ c.needs \/ c.busy
    \/ x.op = "open" /\ (c.backend # None \/ c.owner # None \/ c.nextID = MaxOpens)
    \/ x.op # "open" /\ (c.owner # x.owner \/ c.backend = None \/ x.handle # c.nextID
                         \/ c.state # "open")

Enter(t) ==
    LET x == exec[t]
        c == IF x.live /\ ~ctl.closed THEN Refreshed(ctl) ELSE ctl
        h == IF x.op = "open" THEN c.nextID + 1 ELSE x.handle
    IN  /\ At(t, "enter")
        /\ \/ /\ ~x.live \/ Refuses(c, x)
              /\ ctl' = c
              /\ Return(t) /\ UNCHANGED source
           \/ /\ x.live /\ ~Refuses(c, x)
              /\ ctl' = IF x.op = "open"
                          THEN [c EXCEPT !.nextID = h, !.owner = x.owner, !.state = "opening",
                                         !.busy = TRUE, !.receipt = "none"]
                          ELSE [c EXCEPT !.busy = TRUE]
              /\ exec' = [Fence(exec) EXCEPT
                            ![t] = [x EXCEPT !.fresh = TRUE, !.handle = h,
                                             !.pc = IF x.op = "open" THEN "acquire" ELSE "call"]]
              /\ waiting' = IF x.op = "open" THEN waiting \union {h} ELSE waiting
              /\ IF x.op = "open" THEN \E s \in Nameable(h) : source' = [source EXCEPT ![h] = s]
                 ELSE UNCHANGED source
        /\ UNCHANGED <<helpers, inherited, leases, releasers>>

(* AcquireSource and the lock section that keeps its lease: a lease that is  *)
(* not kept is closed within the step.  The acquisition fails when the name  *)
(* exists, and may fail for other reasons.                                   *)
AcquireSource(t) ==
    /\ At(t, "acquire")
    /\ \/ Goto(t, "failed") /\ UNCHANGED <<ctl, leases, waiting>>
       \/ /\ MayObtain(t)
          /\ IF Current(t)
               THEN /\ leases' = [leases EXCEPT ![exec[t].handle] = "held"]
                    /\ ctl' = [ctl EXCEPT !.lease = exec[t].handle]
                    /\ Goto(t, "begin") /\ UNCHANGED waiting
               ELSE Return(t) /\ UNCHANGED <<ctl, leases>>
    /\ UNCHANGED <<helpers, inherited, releasers>>

FactoryBegin(t) ==
    /\ At(t, "begin")
    /\ IF Current(t)
         THEN /\ ctl' = [ctl EXCEPT !.factoryActive = TRUE]
              /\ Goto(t, "factory") /\ UNCHANGED waiting
         ELSE Return(t) /\ UNCHANGED ctl
    /\ UNCHANGED <<helpers, inherited, leases, releasers>>

(* The process starts, with a duplicate of the lease's handle if there is    *)
(* one to inherit.                                                           *)
Spawn(t) ==
    LET h == exec[t].handle
    IN  /\ At(t, "factory") /\ helpers[h] = None
        /\ helpers' = [helpers EXCEPT ![h] = B(h)!Started]
        /\ inherited' = IF leases[h] = "held" THEN inherited \union {h} ELSE inherited
        /\ UNCHANGED <<exec, ctl, leases, releasers, waiting>>

(* The factory returns no helper, one that failed to start, or one that      *)
(* greeted; the lock section after it.                                       *)
FactoryReturns(t) ==
    LET h == exec[t].handle
        some == helpers[h] # None
        lease == ctl.lease
    IN  /\ At(t, "factory")
        /\ \E started \in BOOLEAN :
             /\ started => some /\ B(h)!CanAnswer
             /\ ctl' = [ctl EXCEPT !.factoryActive = FALSE,
                                   !.lease = IF Current(t) THEN @ ELSE None]
             /\ helpers' = [helpers EXCEPT ![h] =
                              IF ~some THEN None
                              ELSE IF started /\ Current(t) THEN B(h)!Answered ELSE B(h)!Failed]
             /\ releasers' = IF Current(t) THEN releasers
                             ELSE Releasing(lease, IF some THEN h ELSE None)
             /\ IF Current(t)
                  THEN Goto(t, IF started THEN "adopt" ELSE "failed") /\ UNCHANGED waiting
                  ELSE Return(t)
        /\ UNCHANGED <<inherited, leases>>

(* factoryFailed.                                                            *)
FactoryFailed(t) ==
    /\ At(t, "failed")
    /\ IF ~exec[t].fresh
         THEN Return(t) /\ UNCHANGED <<ctl, leases>>
         ELSE /\ IF ctl.lease = None THEN UNCHANGED leases ELSE CloseLease(ctl.lease)
              /\ IF ctl.lease # None /\ leases'[ctl.lease] = "leaked"
                   THEN /\ ctl' = [ctl EXCEPT !.state = "faulted", !.needs = TRUE, !.busy = FALSE,
                                              !.receipt = "cleanup_failed"]
                        /\ Return(t)
                   ELSE /\ ctl' = [ctl EXCEPT !.lease = None, !.owner = None, !.busy = FALSE,
                                              !.state = "idle", !.receipt = "failed_before_native_open"]
                        /\ Return(t)
    /\ UNCHANGED <<helpers, inherited, releasers>>

Adopt(t) ==
    LET h == exec[t].handle
    IN  /\ At(t, "adopt")
        /\ IF Current(t)
             THEN /\ ctl' = [ctl EXCEPT !.backend = h]
                  /\ Goto(t, "call") /\ UNCHANGED <<helpers, releasers, waiting>>
             ELSE /\ ctl' = [ctl EXCEPT !.lease = None]
                  /\ helpers' = Aborted(h)
                  /\ releasers' = Releasing(ctl.lease, h)
                  /\ Return(t)
        /\ UNCHANGED <<inherited, leases>>

-----------------------------------------------------------------------------
(* perform: the requests an operation makes of its helper.                   *)

Calls == {"call", "call2"}
RequestOf(t) == IF exec[t].op = "read" /\ At(t, "call") THEN "status" ELSE exec[t].op

Settled(t, out) ==
    exec' = [exec EXCEPT ![t].pc = "commit",
                         ![t].out = IF exec[t].out = "bad" THEN "bad" ELSE out]

(* A request is dispatched, or fails before: the context has ended, the      *)
(* helper admits nothing more, or the arguments of an open no longer hold.   *)
Dispatch(t) ==
    LET h == exec[t].handle
    IN  /\ exec[t].pc \in Calls
        /\ \/ /\ B(h)!CanAdmit(RequestOf(t))
              /\ helpers' = [helpers EXCEPT ![h] = B(h)!Admitted(RequestOf(t))]
              /\ exec' = [exec EXCEPT ![t].pc = IF At(t, "call") THEN "wait" ELSE "wait2"]
           \/ /\ WorkEnded(t) \/ ~B(h)!CanAdmit(RequestOf(t)) \/ exec[t].op = "open"
              /\ Settled(t, "failed")
              /\ UNCHANGED helpers
        /\ UNCHANGED <<ctl, inherited, leases, releasers, waiting>>

(* What an answer means for the operation: a read goes on after its status   *)
(* request unless the generation changed, a close waits for the exit.        *)
Answer(t) ==
    LET h == exec[t].handle
        polled == exec[t].op = "read" /\ At(t, "wait")
    IN  /\ exec[t].pc \in {"wait", "wait2"} /\ B(h)!CanAnswer
        /\ helpers' = [helpers EXCEPT ![h] = B(h)!Answered]
        /\ \E answer \in Answers :
             /\ exec[t].op \in {"start", "stop", "close"} => answer = "good"
             /\ answer = "changed" => exec[t].op = "read"
             /\ \/ exec[t].op = "close" /\ Goto(t, "exit")
                \/ /\ polled /\ answer # "changed"
                   /\ exec' = [exec EXCEPT ![t].pc = "call2",
                                           ![t].out = IF answer = "bad" THEN "bad" ELSE @]
                \/ exec[t].op # "close" /\ ~(polled /\ answer = "good") /\ Settled(t, answer)
        /\ UNCHANGED <<ctl, inherited, leases, releasers, waiting>>

(* A request that was dispatched is given up, whatever the reason.           *)
CallFails(t) ==
    LET h == exec[t].handle
    IN  /\ exec[t].pc \in {"wait", "wait2"}
        /\ helpers' = [helpers EXCEPT ![h] = B(h)!Failed]
        /\ Settled(t, "failed")
        /\ UNCHANGED <<ctl, inherited, leases, releasers, waiting>>

(* Mutant: Close takes the helper's word for its end.                        *)
AwaitExitMutant(t) ==
    /\ At(t, "exit") /\ Settled(t, "good")
    /\ UNCHANGED <<ctl, helpers, inherited, leases, releasers, waiting>>

(* Close waits for the end of the process, or for that of its context.       *)
AwaitExit(t) ==
    LET h == exec[t].handle
    IN  /\ At(t, "exit")
        /\ \/ /\ helpers[h].done /\ UNCHANGED helpers
              /\ \/ ~helpers[h].poisoned /\ Settled(t, "good")
                 \/ Settled(t, "failed")
           \/ /\ WorkEnded(t) /\ helpers' = Aborted(h)
              /\ Settled(t, "failed")
        /\ UNCHANGED <<ctl, inherited, leases, releasers, waiting>>

-----------------------------------------------------------------------------
(* The last lock section of Execute.                                         *)

(* An open that was not dispatched gives its helper and its lease back.      *)
CancelledBeforeDispatch(t) ==
    LET h == exec[t].handle
        open == exec[t].op = "open"
    IN  /\ ctl' = IF open
                    THEN [ctl EXCEPT !.busy = FALSE, !.backend = None, !.owner = None,
                                     !.state = "idle", !.lease = None,
                                     !.receipt = "cancelled_before_dispatch"]
                    ELSE [ctl EXCEPT !.busy = FALSE, !.receipt = "cancelled_before_dispatch"]
        /\ helpers' = IF open THEN Aborted(h) ELSE helpers
        /\ releasers' = IF open THEN Releasing(ctl.lease, h) ELSE releasers
        /\ UNCHANGED leases
        /\ Return(t)

(* Mutant: an uncertain outcome leaves the controller idle.                  *)
FaultMutant(t) ==
    LET h == exec[t].handle
    IN  /\ ctl' = [ctl EXCEPT !.busy = FALSE, !.state = "idle", !.owner = None,
                              !.backend = None, !.lease = None, !.receipt = "failed"]
        /\ helpers' = Aborted(h)
        /\ releasers' = Releasing(ctl.lease, h)
        /\ UNCHANGED leases
        /\ Return(t)

Fault(t) ==
    LET h == exec[t].handle
    IN  /\ ctl' = [ctl EXCEPT !.busy = FALSE, !.state = "faulted", !.needs = TRUE,
                              !.retired = h, !.backend = None, !.receipt = "failed"]
        /\ helpers' = Aborted(h)
        /\ UNCHANGED <<leases, releasers>>
        /\ Return(t)

Closed(t) ==
    LET c == [ctl EXCEPT !.busy = FALSE, !.backend = None, !.owner = None, !.state = "closed"]
    IN  /\ IF ctl.lease = None THEN UNCHANGED leases ELSE CloseLease(ctl.lease)
        /\ IF ctl.lease # None /\ leases'[ctl.lease] = "leaked"
             THEN /\ ctl' = [c EXCEPT !.state = "faulted", !.needs = TRUE,
                                      !.receipt = "cleanup_failed"]
                  /\ Return(t)
             ELSE /\ ctl' = [c EXCEPT !.lease = None, !.receipt = "closed"]
                  /\ Return(t)
        /\ UNCHANGED <<helpers, releasers>>

Succeed(t) ==
    /\ ctl' = [ctl EXCEPT !.busy = FALSE, !.receipt = "done",
                          !.state = IF exec[t].op = "open" THEN "open" ELSE @]
    /\ UNCHANGED <<helpers, leases, releasers>>
    /\ Return(t)

Commit(t) ==
    LET x == exec[t]
    IN  /\ At(t, "commit")
        /\ \/ /\ ~Current(t)
              /\ Return(t) /\ UNCHANGED <<ctl, helpers, leases, releasers>>
           \/ /\ Current(t) /\ x.out = "changed"
              /\ ctl' = [ctl EXCEPT !.busy = FALSE, !.receipt = "rejected"]
              /\ Return(t) /\ UNCHANGED <<helpers, leases, releasers>>
           \/ /\ Current(t) /\ x.out \in {"failed", "bad"}
              /\ IF ~x.live /\ ~helpers[x.handle].poisoned
                   THEN CancelledBeforeDispatch(t) ELSE Fault(t)
           \/ Current(t) /\ x.out = "good" /\ x.op = "close" /\ Closed(t)
           \/ Current(t) /\ x.out = "good" /\ x.op # "close" /\ Succeed(t)
        /\ UNCHANGED inherited

(* The native connection may exist from the dispatch of an open until the    *)
(* helper has confirmed that it closed it.                                   *)
Connection(t) ==
    LET h == exec[t].handle
    IN  connected' =
          CASE exec[t].op = "open" /\ exec'[t].pc = "wait" -> connected \union {h}
            [] exec[t].op = "close" /\ exec'[t].pc = "exit" -> connected \ {h}
            [] OTHER -> connected

Execute(t) ==
    /\ Running(t)
    /\ UNCHANGED <<actorVars, rival, daemon>>
    /\ \/ Enter(t)
       \/ /\ UNCHANGED source
          /\ \/ AcquireSource(t) \/ FactoryBegin(t) \/ Spawn(t) \/ FactoryReturns(t)
             \/ FactoryFailed(t) \/ Adopt(t) \/ Dispatch(t) \/ Answer(t) \/ CallFails(t)
             \/ AwaitExit(t) \/ Commit(t)
    /\ Connection(t)

-----------------------------------------------------------------------------
(* The actor's trace commands.                                               *)

Stale(work) == [work EXCEPT !.current = FALSE]

(* traceRequest, once the request is known to be well formed.                *)
MayTrace(o) ==
    ~actor.closing /\ ~actor.faulted /\ actor.owner = o /\ ~actor.blocked

(* traceCommand.apply: admission, with the controller's snapshot.            *)
Request(o, op) ==
    /\ MayTrace(o) /\ Len(queue) < MaxQueue
    /\ ctl' = Refreshed(ctl)
    /\ actor' = [actor EXCEPT !.blocked = ctl'.needs]
    /\ \/ ctl'.needs /\ UNCHANGED queue
       \/ /\ ~ctl'.needs /\ (op # "open" => ctl.nextID # 0)
          /\ queue' = Append(queue, [owner |-> o, op |-> op, current |-> TRUE,
                                     handle |-> IF op = "open" THEN 0 ELSE ctl.nextID])
    /\ UNCHANGED <<inflight, exec, helpers, releasers, lockVars, rival, daemon>>

(* startNext: what was admitted is asked again before it starts.             *)
StartNext ==
    LET work == Head(queue)
        t == CHOOSE t \in Threads : exec[t].pc = "none"
        asked == work.current /\ MayTrace(work.owner)
    IN  /\ queue # <<>> /\ inflight = None /\ ~actor.closing /\ ~actor.faulted
        /\ \E u \in Threads : exec[u].pc = "none"
        /\ queue' = Tail(queue)
        /\ ctl' = IF asked THEN Refreshed(ctl) ELSE ctl
        /\ actor' = [actor EXCEPT !.blocked = @ \/ (asked /\ ctl'.needs)]
        /\ IF asked /\ ~ctl'.needs /\ (work.op = "open" \/ work.handle = ctl.nextID)
             THEN /\ inflight' = [thread |-> t, owner |-> work.owner, current |-> TRUE]
                  /\ exec' = [exec EXCEPT ![t] =
                                [NoThread EXCEPT !.pc = "enter", !.owner = work.owner,
                                                 !.op = work.op, !.handle = work.handle,
                                                 !.live = TRUE]]
             ELSE UNCHANGED <<inflight, exec>>
        /\ UNCHANGED <<helpers, releasers, lockVars, rival, daemon>>

(* The deadline of the work passes, or the frontend cancels the request.     *)
ContextEnds(t) ==
    /\ inflight # None /\ inflight.thread = t /\ exec[t].live
    /\ exec' = [exec EXCEPT ![t].live = FALSE]
    /\ UNCHANGED <<actorVars, ctl, helpers, releasers, lockVars, rival, daemon>>

(* dispatchIsolated delivers the result or the end of the context, and       *)
(* completeWork hands it to the command: work that ran out of its context    *)
(* while its lease is current blocks every later trace command.              *)
Complete ==
    LET t == inflight.thread
        o == inflight.owner
        over == [x \in Threads |-> IF x # t THEN exec[x]
                                   ELSE IF exec[t].pc = "returned" THEN NoThread
                                   ELSE [exec[t] EXCEPT !.live = FALSE]]
    IN  /\ inflight # None /\ ~actor.closing
        /\ ~Running(t) \/ ~exec[t].live
        /\ inflight' = None
        /\ IF inflight.current /\ actor.owner = o /\ ~exec[t].live
             THEN /\ Invalidated(o, FALSE)
                  /\ exec' = IF Fences(o) THEN Fence(over) ELSE over
                  /\ actor' = [actor EXCEPT !.blocked = TRUE]
             ELSE exec' = over /\ UNCHANGED <<ctl, helpers, releasers, actor>>
        /\ UNCHANGED <<queue, lockVars, rival, daemon>>

(* An Execute nobody waits for returns.                                      *)
Discard(t) ==
    /\ At(t, "returned") /\ (inflight # None => inflight.thread # t)
    /\ exec' = [exec EXCEPT ![t] = NoThread]
    /\ UNCHANGED <<actorVars, ctl, helpers, releasers, lockVars, rival, daemon>>

Acquire(o) ==
    /\ ~actor.closing /\ ~actor.faulted /\ actor.owner = None
    /\ actor' = [actor EXCEPT !.owner = o]
    /\ UNCHANGED <<queue, inflight, exec, ctl, helpers, releasers, lockVars, rival, daemon>>

(* The lease goes: the control generation advances, all work is stale.       *)
Surrender(o) ==
    /\ InvalidateTraceOwner(o, FALSE)
    /\ actor' = [actor EXCEPT !.owner = None, !.blocked = Latched(o)]
    /\ queue' = [i \in DOMAIN queue |-> Stale(queue[i])]
    /\ inflight' = IF inflight = None THEN None ELSE Stale(inflight)
    /\ UNCHANGED <<rival, daemon>>

Release(o) == ~actor.closing /\ actor.owner = o /\ Surrender(o)

Detach(o) ==
    /\ ~actor.closing
    /\ \/ actor.owner = o /\ Surrender(o)
       \/ /\ actor.owner # o
          /\ InvalidateTraceOwner(o, FALSE)
          /\ actor' = [actor EXCEPT !.blocked = Latched(o)]
          /\ UNCHANGED <<queue, inflight, rival, daemon>>

FailClosed ==
    /\ ~actor.closing /\ ~actor.faulted
    /\ InvalidateTraceOwner(None, FALSE)
    /\ actor' = [actor EXCEPT !.faulted = TRUE, !.blocked = Latched(None)]
    /\ queue' = <<>>
    /\ UNCHANGED <<inflight, rival, daemon>>

Close ==
    /\ ~actor.closing /\ daemon = "running"
    /\ InvalidateTraceOwner(None, TRUE)
    /\ actor' = [actor EXCEPT !.owner = None, !.closing = TRUE, !.blocked = TRUE]
    /\ queue' = <<>> /\ inflight' = None
    /\ UNCHANGED <<rival, daemon>>

-----------------------------------------------------------------------------
(* The end of the daemon, and what goes on beside it.                        *)

(* Runtime.Close calls ShutdownDone after the actor has stopped.             *)
Shutdown ==
    /\ actor.closing /\ daemon = "running"
    /\ Invalidated(None, TRUE)
    /\ exec' = IF Fences(None) THEN Fence(exec) ELSE exec
    /\ daemon' = "shutdown"
    /\ UNCHANGED <<actorVars, lockVars, rival>>

(* The goroutine that waits for a helper leaves the WaitGroup.               *)
Reap(h) ==
    /\ h \in waiting /\ helpers[h] # None /\ helpers[h].done
    /\ \A t \in Threads : exec[t].op = "open" /\ exec[t].handle = h => ~Running(t)
    /\ waiting' = waiting \ {h}
    /\ UNCHANGED <<actorVars, exec, ctl, helpers, inherited, leases, releasers, connected,
                   source, rival, daemon>>

(* shutdownDone closes, and the daemon gives up the lock on its probe.       *)
AllReaped ==
    /\ daemon = "shutdown" /\ waiting = {}
    /\ daemon' = "reaped"
    /\ UNCHANGED <<actorVars, exec, ctl, helpers, releasers, lockVars, rival>>

ReleaseAfterReap(r) ==
    /\ r \in releasers /\ (r[2] # None => helpers[r[2]].done)
    /\ releasers' = releasers \ {r}
    /\ CloseLease(r[1])
    /\ UNCHANGED <<actorVars, exec, ctl, helpers, inherited, waiting, connected, source, rival,
                   daemon>>

(* The process of a helper ends, by itself or killed.                        *)
HelperEnds(h) ==
    /\ h \in Alive
    /\ helpers' = [helpers EXCEPT ![h] = B(h)!Ended]
    /\ UNCHANGED <<actorVars, exec, ctl, releasers, lockVars, rival, daemon>>

(* The client notices, and reports the end as done.                          *)
HelperLost(h) ==
    /\ h \in Spawned \ Alive /\ ~helpers[h].done
    /\ helpers' = [helpers EXCEPT ![h] = IF B(h)!CanReap THEN B(h)!Reaped ELSE B(h)!Poisoned]
    /\ UNCHANGED <<actorVars, exec, ctl, releasers, lockVars, rival, daemon>>

(* The daemon dies.  Its handles close; the helpers, whose job or whose      *)
(* input has closed, end in their own time.                                  *)
Crash ==
    /\ daemon # "crashed" /\ daemon' = "crashed"
    /\ actor' = [owner |-> None, blocked |-> TRUE, faulted |-> FALSE, closing |-> TRUE]
    /\ queue' = <<>> /\ inflight' = None /\ ctl' = NewControl
    /\ exec' = [t \in Threads |-> NoThread]
    /\ helpers' = [h \in Handles |-> IF helpers[h] = None THEN None ELSE B(h)!Failed]
    /\ leases' = [h \in Handles |-> IF leases[h] = "none" THEN "none" ELSE "closed"]
    /\ releasers' = {} /\ waiting' = {}
    /\ UNCHANGED <<inherited, connected, source, rival>>

(* Another daemon takes a source.  One that no open of this daemon has named *)
(* makes no difference to it before it does, and is then taken.              *)
RivalTakes(s) ==
    /\ rival = 0 /\ s \in Range(source)
    /\ ~SourceTaken(s) /\ rival' = s
    /\ UNCHANGED <<actorVars, exec, ctl, helpers, releasers, lockVars, daemon>>

RivalLeaves ==
    /\ rival # 0 /\ rival' = 0
    /\ UNCHANGED <<actorVars, exec, ctl, helpers, releasers, lockVars, daemon>>

Next ==
    \/ \E t \in Threads : Execute(t) \/ ContextEnds(t) \/ Discard(t)
    \/ \E o \in Owners : Acquire(o) \/ Release(o) \/ Detach(o)
    \/ \E o \in Owners, op \in Requested : Request(o, op)
    \/ StartNext \/ Complete \/ FailClosed \/ Close \/ Shutdown \/ AllReaped
    \/ \E h \in Handles : Reap(h) \/ HelperEnds(h) \/ HelperLost(h)
    \/ \E r \in releasers : ReleaseAfterReap(r)
    \/ \E s \in Sources : RivalTakes(s)
    \/ Crash \/ RivalLeaves

Spec == Init /\ [][Next]_vars

(* Go schedules every goroutine, every call and every piece of work has a    *)
(* deadline, an aborted helper is killed, and so is one whose daemon died.   *)
(* It is enough that some step of the work goes on, and some of the cleanup. *)
WorkGoesOn ==
    \/ \E t \in Threads : Execute(t) \/ ContextEnds(t) \/ Discard(t)
    \/ StartNext \/ Complete

CleanupGoesOn ==
    \/ \E h \in Handles : Reap(h) \/ (helpers[h] # None /\ helpers[h].poisoned /\ HelperEnds(h))
                          \/ HelperLost(h)
    \/ \E r \in releasers : ReleaseAfterReap(r)
    \/ Shutdown \/ AllReaped

Fairness == WF_vars(WorkGoesOn) /\ WF_vars(CleanupGoesOn)

FairSpec == Spec /\ Fairness

-----------------------------------------------------------------------------
(* Every variable has its type; in particular a lease the controller keeps   *)
(* was acquired and a helper it serves was started.                          *)
ControlTypeOK ==
    /\ queue \in Seq(Works) /\ Len(queue) <= MaxQueue
    /\ ctl.lease # None => leases[ctl.lease] # "none"
    /\ ctl.backend # None => ctl.backend \in Spawned
    /\ ctl.nextID \in 0 .. MaxOpens
    /\ waiting \subseteq Handles /\ inherited \subseteq Spawned
    /\ source \in [Handles -> {0} \union Sources] /\ rival \in {0} \union Sources

(* A source is used by one process at a time: while a helper is alive no     *)
(* other daemon holds its source and no other helper of this one serves it,  *)
(* whatever the order of aborts, leases closed early, crashes and restarts.  *)
(* (A helper of another source may be alive: one that is being reaped.)      *)
ExclusiveSource ==
    /\ \A h \in Alive : rival # source[h]
    /\ \A h, k \in Alive : source[h] = source[k] => h = k

(* The actor never has two Executes at work, although it gives up waiting    *)
(* for one that outlives its deadline.                                       *)
OneExecute == Cardinality({t \in Threads : Running(t)}) <= 1

(* What the last receipt claims is so: a confirmed close is of a helper that *)
(* ended unharmed, an abandoned or failed one was aborted, and an open that  *)
(* failed before the native open never asked for one.                        *)
ReceiptsHold ==
    LET h == ctl.nextID
    IN  /\ ctl.receipt = "closed" =>
             helpers[h].done /\ ~helpers[h].poisoned /\ h \notin connected
        /\ ctl.receipt \in {"abandoned", "failed"} /\ ctl.retired # None =>
             helpers[ctl.retired].poisoned
        /\ ctl.receipt = "failed_before_native_open" => h \notin connected

(* No helper is started while an earlier one may have left a native          *)
(* connection behind: what is uncertain stays so until the daemon restarts.  *)
NoOpenAfterUncertain ==
    [][\A h \in Handles : helpers[h] = None /\ helpers'[h] # None => connected = {}]_vars

(* Once ShutdownDone has reported, and the probe's lock is given up, no      *)
(* helper lives and none ever will, although an Execute may still be about   *)
(* to enter.                                                                 *)
ShutdownMeansReaped ==
    daemon = "reaped" => \A h \in Spawned : helpers[h].done

(* There is one user of a source, until shutdown is done, and one user of    *)
(* the controller, in a state that is well formed.                           *)
ControlInv == ControlTypeOK /\ ExclusiveSource /\ OneExecute /\ ShutdownMeansReaped

(* Every Execute returns: again and again there is none at work.             *)
ExecuteReturns == []<>(\A t \in Threads : ~Running(t))

(* A daemon that closes or dies lets go of the source, unless the system     *)
(* refused to close a handle.                                                *)
SourceComesFree ==
    actor.closing ~>
        /\ Alive = {} /\ daemon \in {"reaped", "crashed"}
        /\ \A h \in Handles : leases[h] # "held"

(* Nothing is waited for in vain: Executes return and the source comes free. *)
ControlSettles == ExecuteReturns /\ SourceComesFree

=============================================================================
