# A TLA+ model of multi-dap

multi-dap is a daemon that exposes Green Hills MULTI debug sessions over the
Debug Adapter Protocol. This directory holds TLA+ modules translated from its
source, TLC configurations that check them on small instances, and TLAPS proofs
of the properties that matter most. File names below are relative to `src/`.

## The system

```
DAP client
  |  requests / events
dap.Server, clientConnection, dap.Session      internal/dap
  |
daemon.Backend, frontend + pump goroutine      internal/daemon/dap_backend.go
  |  commands / subscription channel
actor.Actor: one goroutine, one FIFO           internal/core/actor
  |-- session.Reducer                          internal/core/session
  |-- stop.Arbiter                             internal/core/stop
  |-- handle.Store, breakpoint.Store           internal/core/handle, breakpoint
  |  one operation in flight
bridge.Executor, bridge.Client (MBP)           internal/bridge, internal/mbp
  |  NDJSON over stdio
bridge.py inside MULTI's Python                bridge/bridge.py
  |
MULTI and the target
```

Beside this spine stand the discovery records and the commands `serve` and `ensure`
(`internal/control`, `cmd/multi-dap`), through which several processes settle who
serves a probe; the trace controller and its native
helper (`internal/tracecontrol`, `internal/tracebridge`,
`bridge/timemachine_*.py`), the daemon runtime that starts and stops all of it
(`internal/daemon/runtime.go`), and stateless code: configuration, parsers of
MULTI's output, profile and Time Machine export, the command line.

`PROJECT.json` lists every part with its state of modelling, and the hazards:
the places where the order of steps, a stale value, a bound or a failure half
way can do harm that a unit test would hardly reach.

Nobody tells the daemon what the target does. The target is moved by MULTI's
GUI, by breakpoints and by DAP requests, and the actor only samples it: status,
process information (with the *stop stamp*, a counter that grows by one with
every stop), status again, and for a stopped target the `H` command in a second
RPC. Everything a client sees is derived from these samples. This is the core of
the system; the other modules are about the processes and goroutines around it.

## Modules

| module | models |
|---|---|
| `SessionReducer` | `session.Reducer`: pure operators from a reducer and a sample to a reducer, actions and an error flag |
| `StopArbiter` | `stop.Arbiter`: hints, classification of a stop, epochs, effects |
| `SessionCore` | the target (external), the four reads of a sample, the actor's FIFO with one operation in flight, `observe`, `failClosed`, inspection requests and the handles they mint, the configuration barrier |
| `TimelineView` | abstract: what the session may believe about the target |
| `EventDelivery` | `SessionCore` composed with a subscription, a frontend and its pump, a connection and its queue, and clients that come and go |
| `Frontends` | the hand-over from one DAP client to the next: server, connection, session phases and requests, backend, lease, barrier, release, console forwarding, shutdown |
| `Inspection` | references to frames, scopes and values: `handle.Store`, the inspection service and its runners, the actor's inspection and memory commands, the DAP handlers that mint and resolve references |
| `BreakpointStore` | `breakpoint.Store`: replacement as a transaction over several cores, detach, cleanup; with the actor's queue that drives it |
| `BreakpointPlacer` | `multi.BreakpointPlacer`: Set and Clear, command by command, on a table that MULTI's GUI edits too |
| `BridgeServer` | `bridge.py`: the child that serves one connection, and what open and close do to MULTI |
| `BridgeSession` | `BridgeServer` composed with the daemon's side: `bridge.Start` and the reaper, the MBP client, the executor and its worker, the actor's bootstrap with its rollback, the runtime's start and shutdown |
| `TraceHelper` | `timemachine_helper.py` over `timemachine_native.py`: the serve loop and the packet buffer of the vendor's library, which changes between any two native calls |
| `TraceBridge` | `TraceHelper` composed with `tracebridge.Client`: its callers and its reader, writer, waiter and killer goroutines |
| `TraceBackend` | abstract: what `tracecontrol` expects of a helper |
| `TraceControl` | the actor's trace commands, `tracecontrol.Controller`, one `TraceBackend` per helper, the system's lock on a trace source, a rival daemon |
| `DaemonRendezvous` | the processes of one probe: `control.Store`'s record file, `serve` from reservation to exit, the probe lock, `ensure` |
| `MC...` | values for TLC; `MCTraceHelper` is also the client that drives the helper alone |
| `SessionCoreLemmas`, `SessionCoreProofs` | lemmas and theorems about `SessionCore` |
| `SessionTimelineProofs` | `SessionCore` implements `TimelineView` |
| `SessionStopProofs` | the stops `SessionCore` records, what they are attributed to, and when the session fails closed |
| `InspectionProofs` | theorems about `Inspection` |
| `BreakpointPlacerProofs` | theorems about `BreakpointPlacer` |
| `DaemonRendezvousProofs` | theorems about `DaemonRendezvous` |
| `TraceBridgeProofs` | theorems about `TraceBridge`, among them that it implements `TraceBackend` |

### State and actions

`SessionReducer` and `StopArbiter` keep the fields of the Go structs as records
(`red`, `arb`); Go methods are operators that return the new record together with
the actions or effects and whether the error is nil. Both faults are kept.

`SessionCore`:

* `target`, `causes`, `reported` are the real target, the history of why it stopped and
  what `H` says at each stop, which may be an earlier cause (`HaltReports`); no
  action of the actor reads them except through `ReadStatus`, `ReadInfo`,
  `ConfirmStatus` and `ReadHalt`, one action per read, so the target moves between
  any two.
* `pending`, `inflight` are the actor's queue and its operation in flight. Every
  action that ends an operation or adds one includes `startNext`, because the actor
  loop calls it before it selects again. An inspection whose stop has passed is
  answered as stale there, which also drops the handles.
* `observe` is four actions by outcome: `ArbiterRejects`, `ReducerRejects`,
  `EpochsDisagree` (all three fail closed) and `AcceptSample`.
* `handles` is the set of stop epochs of live handles. `RunInspection` is the
  executor's worker, `AnswerInspection` the completion on the actor goroutine.
* `out` holds the events published by the latest step.
* `Anomalies` says what may go wrong with a sample: an unknown status word, an absent
  stamp, a stamp that goes back, an `H` that fails or reports an earlier cause, an RPC
  that is lost.

Abstracted: thread and core identifiers, source locations, the wording of errors,
console output (which shares the FIFO but changes nothing modelled), the contents of
what inspections return. `fContFromBp`, `fPendingHalt` and `BreakpointEvidence` are
FALSE in samples; they only make a reason coarser. Init is the moment the bootstrap
sample is in flight.

`EventDelivery` adds the subscription channel (`sub`, `chan`), the daemon's frontend,
the connection's phase and queue, and what the client was last told (`shown`).
Attach is two steps, because the actor may publish between `core.Attach` and
`BeginConfiguration`. `Deliver` is `publish`; the event that does not fit closes the
subscription. `TargetState` is the projection the pump makes.

`Inspection` has one DAP request open at a time, the actor's loop and the executor's worker.

* `live` and `next` are the handle store. A reference carries what it stands for, the core, the
  stop and the path of the object, so that it can be compared with what an id resolves to later;
  `given` and `pointers` are every reference and every instruction pointer a client was ever
  told, any of which it may send back, in this stop or a later one.
* `queue` and `work` are the actor's FIFO and the work in flight with the stop it captured;
  samples and other work stand in the same queue. `StartNext` answers work of a passed stop as
  stale. `Mint` allocates one handle for one entry of a result, so that a sample, a caller that
  leaves or a fault falls between any two; `MintFails` leaves those already minted.
* A handler that evaluates without a frame makes two calls: `call` is `"resume"` between them.
* Address arithmetic is modulo `Word`, and pages are cut as `dapPage` and `pageBounds` do.

What a sample may show is taken from `SessionCore`: a later stop has a larger epoch. A comment in
`internal/core/handle/handle.go` has the store driven solely from the actor goroutine, while
allocations come from the worker; the model has them there, and the store's mutex makes each
one a step.

`BreakpointStore` follows one source file.

* `table` is what really stands on the target; `bySource`, `pending`, `orphaned`,
  `fenced` and `hints` are the store's maps. A physical breakpoint is known by its hint
  token, as in `samePhysical`.
* `txn` is the transaction on the executor's worker. Each lock section of
  `ReplaceForOwner` and `CleanupPending` is one action (`BeginReplace`, `CheckFence`,
  `CommitReplace`, `BeginCleanup`, `CommitCleanup`), and so is each Set or Clear between
  them, so that `Detach` on the actor goroutine falls between any two.
* `SetFailures` and `ClearFailures` say how a command may fail: refused, resolved to
  another line, executed but not confirmed, executed but answered with an error.
* `Deadline`: the actor fails closed and stops listening; the worker goes on and every
  further command fails, though the interrupted one may have been executed.
* The actor's queue has the work that matters here: transactions, cleanups, samples and
  resumes. A sample is read in one step. Source resolution, which runs in the same work
  before the transaction, is a refusal that may or may not happen, and `Cores` is its
  result. A frontend generation attaches once.
* A stopped target has a stamp of at least one, since the download counts as a stop
  (docs/m0-findings.md), so the zero value of the cleanup epochs is no stop.

`Frontends` leaves the target's states to `EventDelivery` and follows the clients.

* `serve` is the handler of the one admitted connection: its place in the request it
  works on, the session's phase, its bounded queue. Every request of the session is an
  action guarded by the phase it needs; those that only read share one.
* `fe` has every frontend the backend ever made, with its pump, its release, its
  subscription. `releaseStep` is shared by everyone who may release a frontend: handler,
  pump and shutdown. Attach takes the lease, raises the barrier and installs the frontend in
  three calls, each of which may fail and undo the others.
* `actor` has lease, barrier, fault and the work queue with one operation in flight;
  `console` its bookkeeping of pane reads, `panes` the text of MULTI's panes and the
  cursor the bridge keeps in it.
* `daemon` is the shutdown, from the signal or the fault to the closed actor.
* `shown` is a history of what the present client was shown.

Left out: a second connection while one is served (it is told so and closed), clearing,
rollover and truncation of panes. The request context ends only with the daemon.

`BreakpointPlacer` looks inside Set and Clear. An entry of `table` is free, foreign (set
by the user) or carries a token. The user may edit the table between any two commands;
`quiet` remembers whether that happened since the listing Clear goes by. MULTI may list a new breakpoint once, several
times or not at all, and any command may fail before or after it took effect.

`DaemonRendezvous` is about processes, which share one file and one lock.

* `file` is the record file of the probe: absent, created but still empty, a starting
  marker or a record, with the daemon that wrote it. Instance identifiers make every
  marker and record unique, so contents are compared by kind and owner.
* `pc` is where each `serve` process is in `runServe`. Reservation, recovery, the control
  call, Commit, RemoveIfInstance and Cancel are each split where the code looks at the file
  and then acts on its name, and the deferred calls come in the order in which Go runs
  them. `driving` has the daemons whose runtime works on MULTI: it may end beside the main
  goroutine (`RuntimeEnds`), and the lock in `probe` follows, later (`ReleaseProbe`) or
  with the process.
* `ensure` is each `ensure` command: the two calls of `waitForLiveDaemon`, turn by turn,
  and the launch between them. A command that fails kills its child.
* `judged` is what a process read before it removes; `disturbed` remembers that a removal
  took away something else, or that a deadline was taken for staleness while the daemon
  was serving.
* `Crash` ends any process at any step. A file that its creator holds open can be neither
  removed nor replaced (`Held`), and a reader may be turned away while a marker is being
  replaced (`Replacing`), both as Windows has it.

Abstracted: the contents of records, the terminal diagnostics, the reuse of process
identifiers, and errors of the file system other than those two. A control call has three
outcomes: status, refusal, staleness. A serve process runs once.

`BridgeServer` is the child. `link` is the target connection in MULTI, the bridge's own or
the operator's; each call into MULTI is a step, and the child may die between any two. A
request is a frame in `request` until it is answered in `answer`; `mishaps` remembers what
the daemon cannot help.

`BridgeSession` has the daemon's goroutines: start and shutdown (`daemon`), the reaper, the
actor's loop with its queue (`actor`), the dispatch of the operation in flight, the
executor's worker and its call (`job`). `Submit` is split where it looks at the executor, where
it waits for room and where it gives up; `finished` and `inbox` are the channels between
worker, dispatch and loop. `ended` has the operations whose deadline has passed. Errors are
told apart as `completionFailureIsTerminal` does, and a context that ends during `H` is forgiven as
`stateWork` does: the sample stands, the client is poisoned. Between bridge and open the rest of
`Runtime.Start` may fail before there is an actor (`NoActor`) or after (`NoServer`). One poll or resume follows the bootstrap.
Several cores are never resumed together: the execution domain has no executor, so
`executionCommand` refuses.

`TraceHelper` numbers the contents and the decoder of the buffer. A native call reads
whatever the buffer is at that moment; callbacks come later, at the latest with
`poll_events`. `task` is how far the helper has come in the request it serves. `served` and
`told` are histories: what was answered under which generation.

`TraceBridge` adds the client. A caller goes from the gate through admission to waiting
and, for Close, to the reaping of the process; `pending` is the one request that may be
out, `past` remembers unanswered requests and confirmed closes. The helper may hang or be
killed at any point. `Outstanding` and `Mapped` are the refinement mapping to
`TraceBackend`.

`TraceControl` has two goroutines for Execute, since the actor may give up waiting for
one. Execute is split at its lock sections: entry, source lock, factory, adoption, dispatch,
answer, reap, return. The epochs and counters that fence late work are abstracted to
`fresh`: unchanged since it was read. A lock on a source exists while any handle on it is
open, the lease's or the one the helper inherited; `source` is what each open named. `connected` remembers native opens that
were asked for and not confirmed closed.

## What TLC checks

| run | states | shows |
|---|---|---|
| `SessionCoreTimeline` | 1,005,000 | two stops, stamps that do not regress, everything else may fail: the invariant `IndInv`, with `TypeOK`, `ReductionsAgree`, `HandlesOfCurrentStop`, `InspectionOfCurrentStop` and `NeverAhead` among its conjuncts; the invariant `StopInv`, with `HitsAsReported` and `ReportsHappened` among its conjuncts; `CanonicalStops`, `FailsClosedOnlyOnCycle`, `ImplementsTimeline` |
| `EventDelivery` | 313,000 | `DeliveryInv` (`ClientKnowsState`, `BarrierHasOwner`, bounded queues); under fairness `ClientConverges` (a resting target becomes known to the session and to an attached client), `FailureEndsFrontend` (a closed subscription or a fault) |
| `Frontends` | 400,000 | two clients in turn: `FrontendsInv` (`ReleasedIsGone`, `BarrierIsHeld`, types), `EventsReachOwner`, `ConsoleComplete`; under fairness `HoldingsComeFree` (`SlotComesFree`, `LeaseComesFree`), `ShutdownEnds` |
| `Inspection` | 275,000 | two cores, three ids, one later stop: `ReferencesKeepMeaning`, `ReferencesLastTheirStop`, the invariant `InspectionInv`, of which `AnswersFitRequests` is a conjunct; under fairness `RequestsAnswered` |
| `BreakpointStore` | 581,000 | `PlacedIsTracked`, `LiveIsWhole`, `StoreInv` (`DetachedOwnsNothing`, `HitsAreAttributed`, types); under fairness `CleanupWorks` (`LeftoversAreTried`, `CleanupRests`) |
| `BreakpointPlacer` | | `ClearedIsGone`, `ForeignUntouched` |
| `BridgeSession` | 476,000 | the life of a bridge: `EndsClean` (`NothingOutlives`, `ColdOpenIsUndone`), `NothingStranded`, `WireInv` (`NoStaleAnswer`, `RequestsAreEarned`, types); under fairness `DaemonSettles` (`StartupSettles`, `ClosedExecutorEnds`, `LossEndsDaemon`) |
| `TraceHelper` | | three changes of the buffer anywhere around four requests: `OneBufferPerGeneration`, `StatusesHold` (`ReadsInRange`, `StatusesAdvance`) |
| `TraceBridge` | 131,000 | two callers, three requests: the invariant `BridgeInv`, of which `UnansweredPoisons` is a conjunct, `CloseIsExact` (`CloseIsConfirmed`, `CleanCloseUnpoisoned`); under fairness `CallsReturn`, and `ImplementsBackend` with the fairness of `TraceBackend` |
| `TraceControl` | 590,000 | two frontends, two opens of one source or of two: `ControlInv` (`ExclusiveSource`, `OneExecute`, `ShutdownMeansReaped`, types), `ReceiptsHold`, `NoOpenAfterUncertain`; under fairness `ControlSettles` (`ExecuteReturns`, `SourceComesFree`) |
| `DaemonRendezvous` | | three daemons in two configurations, one ensure command: `OneRuntime`, the invariant `RendezvousInv`, of which `Published` is a conjunct and from which `NothingLeftBehind` follows, and under fairness `DeadFileGoes` |
| `DaemonRendezvousConverge` | | `EnsuresConverge` is violated, see below |

*Bounds.* Two stops let a sample of the first stop meet the second in every
interleaving of its four reads, and let a cycle be missed; one is enough for the event path, which runs, stops,
runs again and can miss that. One waiting inspection plus one in flight suffices
for a request to be overtaken by a sample. One hint breakpoint and one other cause
distinguish a verified hit from a stop of another kind, and with two stops `H` can report the
first one's cause at the second. The subscription of `EventDelivery` holds three events: the two
of a missed cycle get through, and a fourth overflows it; the connection's queue overflows on the
second. One inspection may stand in the FIFO between the samples there; hints, which
only add to what a stop names, are left to `SessionCoreTimeline`. Two connections show a client
following another.

`BreakpointStore` explores three instances side by side, chosen in Init (`MCInstances`): two
frontends in turn on one core, with a Set that may have happened; one frontend with a line on
two cores, one of which may resolve it elsewhere or lose its answer; one frontend that moves from
line to line, with a Set that is refused, may have happened, or has happened and is answered with an
error ("lost").
Two cores are enough for one to fail after the other succeeded, two requests for a line to be
replaced, kept or dropped, two owners for one to follow a detached one. Three indices of the placer leave room for a breakpoint listed
twice beside one of the user.

In `Inspection` one later stop is enough for a reference, a queued request or a work in flight to be
of an earlier one, and a queue of two for requests of both to wait behind each other. Three ids
are exhausted by one stack, its scope and a value. The caller that may leave is that of an evaluate
without a frame, while it waits for the frame; other work enters an idle loop, and everything else may
queue behind it. The address space has four
addresses, so that both offsets wrap.

`Frontends` explores three runs likewise (`MCRuns`): a request in flight and a fault or
shutdown anywhere; a target event that can fill a queue; a line of pane text and two clients.
Text, events and requests meet in pairs only through the queues, which have room for one.

`BridgeSession` takes cold and warm sessions, with and without preparation, one core or two.
One operation after the bootstrap meets the death of the child, its deadline and the shutdown
at every step. Two callers of a trace client contend for the gate, and three requests let one be
opened, used and closed. Two Executes, two handles and a queue of one let a second open follow an
uncertain one. The second open may name another source while a lease or a helper of the first is
left; once nothing is left, another source is like the first (`Nameable`). The rival daemon
takes only a source that some open has named. Three daemons are the least for one to judge a dead one's file while another takes
its place; one of them has another configuration, one is the child of the ensure command.

*Fairness.* Weak, save one, and where it suffices of a disjunction: some step of the code goes on.
The ticker, and apart from it the operation in flight, be it a sample or an inspection: the actor's `select` always has a
ready case when one of these is enabled, and every RPC has a deadline. The pump, the serving
loop and the release of a frontend are goroutines whose next step is never blocked by a peer:
both queues are offered to without waiting. A handler that has begun a request goes on; one
without a request waits for its client for ever. In `BridgeSession`, `TraceBridge` and `TraceControl`
the goroutines of the daemon go on, deadlines pass and a killed process ends; the child, the
helper, MULTI, clients and the target owe nothing. In `Inspection` the loop and the worker go
on; the second command of an evaluate without a frame has strong fairness, since the loop's `select`
picks among its ready channels at random and cannot pass it over for ever. In `DaemonRendezvous` only the loop
of an ensure command is fair; daemons, crashes and deadlines are not.

*Deadlock* is not checked where a session may rest, having failed closed with no client
left, or where all processes have ended; it is checked for the placer.

Every property has a mutant, a definition suffixed `Mutant` (or named for what it
ignores) beside the one it replaces; TLC finds the property violated with it. A property that
joins several, named in parentheses in the table, has one mutant, for one of them.
`NeverBackwards` and `NothingLeftBehind` are proved (below) and not model-checked.

### How the modules fit together

`EventDelivery` extends `SessionCore`, `TraceBridge` extends `TraceHelper`, `BridgeSession` extends
`BridgeServer`: these are compositions in one state. `TraceControl` uses `TraceBackend`, which
`TraceBridge` is shown to implement, by TLC with its fairness and by TLAPS without. Elsewhere a
module states what it takes of its neighbour: `Frontends` takes one step per command of the actor,
since its loop applies one at a time; `BreakpointStore` reads a sample in one step, which
`SessionCore` resolves; `Inspection` takes from `SessionCore` only that a later stop has a larger epoch
(`CanonicalStops`, proved); `DaemonRendezvous` takes from a runtime only that it ends and that the probe
lock follows, which `BridgeSession` (`NothingOutlives`) and `TraceControl` (`ShutdownMeansReaped`)
resolve.

### Disagreements found

1. `EnsuresConverge`, the violated run. Reserve creates the file and then writes the marker. An
   ensure command that polls in between, be it the parent of that very daemon, reads an empty
   file, reports a configuration mismatch and kills its child.
2. `OpenSessionSurvives` (`SessionCore`; add it to the INVARIANTS of `SessionCoreTimeline.cfg`
   and let `Anomalies` be empty). Two
   running samples with different stamps show a missed stop/run cycle. The reducer advances its
   execution epoch by one, the arbiter by two, so `verifyArbiterSnapshot` fails and the actor fails
   closed for good. The architecture document calls this "a normal poll outcome, not an error
   path". `FailsClosedOnlyOnCycle` shows that no other check on a stamped sample
   misfires.
3. `CleanupNotAfterResume` (`BreakpointStore`; add it to the INVARIANTS of `BreakpointStore.cfg`). A
   detach decides on its immediate cleanup from the last sample and queues it behind a resume,
   which then clears on a running target.

4. `HitsNotOlder` (`SessionCore`; add it to the INVARIANTS of `SessionCoreTimeline.cfg`).
   `internal/multi/halt.go:11` warns that MULTI "can retain an old breakpoint cause", and the
   architecture document (line 393) has the arbiter report "a conservative reason rather than a
   confidently wrong one". The actor notes the token of `H` as a hint before it observes the sample
   (`internal/core/actor/actor.go:1165`), so a stop of another kind that follows a breakpoint names that
   breakpoint as hit when `H` is stale. `HitsAsReported` shows that only MULTI can bring that about: what
   an earlier sample was told never reaches a later stop.
5. `NothingForgotten` (`BreakpointStore`; add it to the INVARIANTS of `BreakpointStore.cfg`). A `b`
   command that was executed but answered with an error (a lossy answer, or the deadline) leaves a
   breakpoint without a record, since Set returns no `PossiblyCommitted`. The architecture document
   (line 567) says that "`verified = false` must never make multi-dap forget a breakpoint that it
   created". `PlacedIsTracked` shows that this is the only step that forgets one: no rollback,
   replacement, detach or cleanup does, before or after such a loss.

Seen while modelling, and excused by a premise or a bound rather than checked:

* Events of one observation carry the final snapshot and the pump chooses the DAP event by
  the snapshot's state, so a missed cycle would reach the client as two stops, where the
  architecture document (line 442) wants "a `continued` followed by a `stopped`".
  `ClientKnowsState` and `ClientConverges` hold nevertheless.
* RecoverStarting and RemoveIfEqual check a file and then remove it by name. Another
  process may do the same and a third publish in between; the comment at
  `internal/control/store.go:277` says RecoverStarting "never removes a published record
  or another instance's reservation". `Call` maps an expired deadline to
  `ErrStaleRecord`, so the record of a slow daemon is removed. In both cases `disturbed`
  excuses `Published`; `OneRuntime` holds regardless, thanks to the lock.
* An empty file left by a crash inside Reserve is recovered by nobody.
* RecoverStarting does not know the sharing violation that Load treats as a transition, so
  an ensure command that re-reads a marker while it is being replaced fails.

* A startup deadline that passes after a cold open may leave the target connected. The
  rollback of the architecture document (line 1091) is queued, but a call that ran out of time
  has poisoned the client it needs, and Start, whose context has ended, does not wait for it. `ColdOpenIsUndone` excuses that case, a deadline
  of an operation, the death of the child and a MULTI that will not disconnect.
* `internal/bridge/bootstrap.go:163` says Done closes after the "owned resources have been
  released". The reaper looks up the client when the child exits; a child that exits before
  Start has stored the client leaves its connection to Start, which closes it.
  `NothingOutlives` is therefore stated for the end of Start and Close.
* `consoleActive` is asked when a read is queued (`internal/core/actor/actor.go:906`), not when
  it is dispatched or answered, so a read may run while there is no frontend or while one is
  being configured. Between Attach and BeginConfiguration it may even be published to the
  new frontend, which sees the text again after the reset. A reset that fails leaves the
  new client without the earlier text (`ConsoleComplete` excuses it).
* When the context of an attach ends after BeginConfiguration, the undo does not cancel the
  configuration. It ends only with the daemon, so `BarrierIsHeld` asks for a daemon that is up.
* A trace open that fails or is cancelled before its dispatch returns the controller to idle
  although its helper may have been started. The helper is reaped beside the next open: one of
  the same source is refused the lock until then, one of another source starts a second helper.
  After a cancelled one the actor latches, so from a frontend only the failed start leads there.
  The comment at `internal/tracecontrol/controller.go:435` calls "all uncertain dispatched
  outcomes" sticky, which they are (`NoOpenAfterUncertain`).
* `traceSnapshot` (`internal/core/actor/trace.go:211`) shows its latch instead of a "closed"
  receipt that came just in time, though its comment says it overwrites no "more specific
  receipt"; `ReceiptsHold` is about the controller's own.

Three properties are as strong as the code allows and weaker than one might wish.
`HitsAsReported`: the state sample and `H` are two RPCs, so a stop may be given what `H`
says of a later stop, though never what it said of an earlier one. `ForeignUntouched`: an index can change
hands between the listing and `d %index`. And nothing keeps a second breakpoint off a
line whose first one is still pending, because a replacement looks at live records only.

## What TLAPS proves

All theorems hold for every value of the constants allowed by the named assumptions of
the module (any number of stops and waiting requests, any breakpoints, causes, hints and
anomalies; any indices and tokens; any daemons, ensure commands and configurations).

**`SessionCoreProofs`**: `TypeCorrect`, `ReductionsStayInStep`, `HandlesAreCurrent`, from
the inductive invariant `CoreInv`. None of the three is inductive by itself.
`HandlesOfCurrentStop` needs `InspectionOfCurrentStop` (a worker mints handles for the
stop its request names), which needs that queued work is fresh and that a fault leaves
nothing in flight (`QueuedWorkIsFresh`), and that an accepted sample that ends the stop
also invalidates. The last point is about the arbiter, the guard about the reducer, so
both need `ReductionsAgree`; and that needs `LiveSession`, since a faulted reduction no
longer follows. `SessionCoreLemmas` says what each reduction does with a sample: the
outcomes are enumerated once and the agreement of the two follows outcome by outcome.

**`SessionTimelineProofs`**: `TimelineInvariant`, `SessionNeverAhead`,
`SessionNeverBackwards`, `CoreImplementsTimeline`, assuming that stamps do not regress.
The history of the target is a line of positions: running before the first stop, stopped
at it, running after it, and so on. `IndInv` bounds the sample in progress by this line:
what has been read so far cannot lie beyond the target's position, and, since the session
was at or before the position of the first read, it cannot lie before the session's. A
torn pair of status and stamp is caught by the second status read or names a position
the target passed in between. Accepting the sample therefore moves the session forward,
never past the target, which is exactly the step of `TimelineView`.

**`SessionStopProofs`**: `StopInvariant` and `StopsAreCanonical`, whatever goes wrong with the
reads, regressing stamps and a stale `H` included; `HitsAreNotOlder`, assuming that `H` is not stale;
and `OnlyCyclesFailClosed`, assuming only that stamps do not regress. `HitsAsReported` and `CanonicalStops` are histories of the
stops the actor has recorded; neither is inductive. A recorded stop is compared with the next one
only through the arbiter, so `StopOrder` says where the last recorded stop lies relative to the
arbiter's epochs: not beyond them, and strictly behind once the target has been seen running. Its
attribution comes from three places, which `StopInv` tells apart: evidence in the arbiter between
samples can only be hints (`OnlyHintsPending`), because accepting a sample uses up or discards what
`H` named; and what a sample in flight names was reported by MULTI at the sample's stamp or
later (`SampleHasSource`), because `H` is read after the stamp. Reports of the past do not change, so
this survives every step of the target (`ReportsStayTrue`). `ReportsHappened` ties the reports to the
target: each is a cause of that stop or an earlier one, and of that stop itself unless `H` is stale, from
which `HitsAreNotOlder` follows. The lemmas about the arbiter say for each outcome of a
sample which stop it records and what it leaves pending.

`OnlyCyclesFailClosed` is about the three ways `observe` rejects a sample. `IndInv` leaves few outcomes: the
stamp of a sample is not below that of the session, and reducer and arbiter start in step. `NoMisfire`
goes through the outcomes of `SessionCoreLemmas` and shows that for a running and for a stopped
sample both reductions accept it and agree afterwards, unless the session was running and
the stamp has grown.

**`InspectionProofs`**: `InspectionInvariant`, `MeaningsAreKept`, `ReferencesLast`, `AnswersFit`, for any
cores, queue lengths, ids, results and requests, and any callers that leave. That ids are never
reused (`IdsGrow`) gives the first half of `ReferencesKeepMeaning`; the other is that a minted handle
stands for what the request of its work names (`MintFits`), for which the references in queued
requests must still mean what they meant (`RequestFits`). `ReferencesLastTheirStop` fails without an
argument about order: a completion of an earlier stop drops every handle, so it must not come after a
handle of the current stop was minted. `QueueInOrder` says why it cannot: in the FIFO no inspection of
the current stop stands before one of an earlier stop, and with one in flight that belongs to the
current stop no earlier one is left. Ids, epochs and pages are numbers and queues are sequences, so
the steps of queue and worker have a lemma each about `Append`, `Tail` and the entry added.

**`BreakpointPlacerProofs`**: `ClearIsFinal` (a Clear that reports success is final,
whatever the GUI does) and `UserBreakpointsSurvive` (no breakpoint of the user is
deleted, save one set after the listing Clear went by). The first is inductive
with `OperationConsistent`: Set works on a token that was never reported cleared, so it
cannot bring one back, and Clear reports success only from a listing without the token.
The second also needs `DeletesItsOwn`: on a quiet table the index about to be deleted
carries the token.

**`DaemonRendezvousProofs`**: `RendezvousInvariant`, `OnlyOneRuntime`, `StaysPublished`,
`LeavesNothing`, for any number of daemons and ensure commands and any configurations,
assuming that each ensure command starts a daemon of its own. `OneRuntime` rests on the
lock alone. `Published` is not inductive: a removal keeps it only if the file removed
belongs to a daemon past its service. So `RendezvousInv` says which steps the owner of an
empty file, a marker and a record may be at (`OwnerKnows`), and what a process between
judging and removing may rely on: the owner of a marker found recoverable is dead, the
owner of a record that did not answer was at least serving, and neither comes back
(`JudgementsHold`). `LaunchedOnce` keeps a launch from restarting a daemon.
`NothingLeftBehind` follows from `OwnerKnows`.

**`TraceBridgeProofs`**: `BridgeInvariant`, `UnansweredIsPoisoned`, `ClientIsBackend`, for any
number of callers and requests and any history of the buffer. `UnansweredPoisons` is not
inductive: a Close that finds Done returns the outcome of an exit which, when it failed, must
already have poisoned the client. `ReapInv` says so for each step of `waitProcess`, and
`GateInv` that whoever holds the gate found the client open for its operation, and that
nobody else changed that. `ClientIsBackend` says that every step of the callers, the
goroutines and the helper is a step of `TraceBackend` or a stutter, without its fairness. The mapping
takes the greeting for the first request, so starting is a request like any other; that
nothing is pending when a call is admitted is `GateInv`, that Done comes only after a poisoned
or closing process has ended is `ReapInv`. Records of the client and of the backend are
compared as functions of their fields, for which each update has a lemma.

Left to TLC: liveness, and with it the fairness part of `ImplementsBackend`; the modules
without a proof module; `CloseIsConfirmed`, which needs an
invariant over the whole helper; `CleanCloseUnpoisoned`.

## Not modelled

* Text and bytes: parsers of MULTI's output, DAP and MBP encoding, the decoder and
  the exporters of Time Machine captures, profile import, configuration. They are pure
  functions of strings and files, whose properties are about characters; the models take their
  result (accepted, refused, odd) as a choice.
* The source index and resolver: lookups in tables that do not change in a session. A
  transaction takes their result as given or refused.
* The values that inspections return, and how a stack, a variable or an expression is written in
  MULTI's text: data. What a reference names and how long it lasts is in `Inspection`.
* Several frontends at once: the server admits one client. Several cores executing
  together: the code refuses it.
* NoteDownload, NoteReset, Executor.Replace, Publish, and Diff, Commit, MarkOrphaned and RetireHint of
  the breakpoint store have no caller in the daemon. The hint receiver is not wired; a hint that
  comes late, twice or never is in `SessionCore` all the same.
* The performance recorder, terminal diagnostics, the proxy and the read-only commands: output
  that nothing in the system reads back. The reconnaissance scripts are not part of the product.

## What would come next

1. Proofs of `PlacedIsTracked` and of `DetachedOwnsNothing`: the
   invariant says that a dropped line's records are to do, cleared or stuck, and that cleared
   tokens are never reused.
2. Proofs of `ExclusiveSource` from the handles a source lock counts, and of `NothingStranded`.
3. `Frontends` on top of `SessionCore` instead of one abstract transition of the target.
