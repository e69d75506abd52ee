----------------------------- MODULE SessionCore -----------------------------
(***************************************************************************)
(* How the session actor learns what the target does.                      *)
(*                                                                         *)
(* The target (MULTI and the hardware, external) moves by itself: the GUI,  *)
(* a breakpoint or a DAP command may run or stop it at any moment.  The     *)
(* actor only samples it.  One sample is four separate reads over the       *)
(* bridge: GetStatus, GetCurPrInfo (the stop stamp), GetStatus again, and,  *)
(* for a stopped target, the H command in an RPC of its own.  The target    *)
(* may move between any two of them.                                        *)
(*                                                                         *)
(* A finished sample goes through observe (core/actor/actor.go), which      *)
(* feeds it to the stop arbiter and to the session reducer, compares their  *)
(* epochs, drops the stop-bound handles when execution resumed, and         *)
(* publishes events.  Inspection requests (stack, scopes, variables,        *)
(* evaluate, memory) share the actor's FIFO with the samples: one bridge    *)
(* operation is in flight at a time.                                        *)
(*                                                                         *)
(* out holds the events published by the latest step, in order; who         *)
(* receives them is the business of EventDelivery.                          *)
(***************************************************************************)
EXTENDS SessionReducer, StopArbiter, FiniteSets

CONSTANTS
    MaxStamp,       \* bound: the target stops at most this often
    MaxRequests,    \* bound: inspection requests waiting in the actor's queue
    Breakpoints,    \* identities of the live, verified breakpoints (their tokens resolve to them)
    OtherCauses,    \* what else stops the target: a subset of OtherCauseNames
    Hints,          \* breakpoints whose hit also arrives through the hint channel
    Anomalies       \* what may go wrong: a subset of AnomalyNames

OtherCauseNames == {"user", "gui", "step", "exception"}

(* "unknownStatus": the process is forking, dying, ...; "absentStamp": the  *)
(* process information carries no stop stamp; "regressedStamp": it carries  *)
(* one smaller than before; "noHalt": H fails or is unparsable;             *)
(* "staleHalt": H still reports the cause of an earlier stop; "transport":  *)
(* an RPC misses its deadline or the bridge is poisoned.                    *)
AnomalyNames ==
    {"unknownStatus", "absentStamp", "regressedStamp", "noHalt", "staleHalt", "transport"}

ASSUME MaxStampAssumption == MaxStamp \in Nat
ASSUME MaxRequestsAssumption == MaxRequests \in Nat
ASSUME BreakpointsAssumption == Breakpoints \subseteq Nat \ {0}
ASSUME CausesAssumption == OtherCauses \subseteq OtherCauseNames
ASSUME HintsAssumption == Hints \subseteq Breakpoints
ASSUME AnomaliesAssumption == Anomalies \subseteq AnomalyNames

VARIABLES
    target,     \* the real target: [running, stamp]
    causes,     \* why the target stopped, by stamp (external history)
    reported,   \* why it did according to H, by stamp
    opened,     \* runtime.opened: the first sample has been accepted
    faulted,    \* runtime.faulted: the actor has failed closed
    pending,    \* runtime.pending: bridge work waiting, in order
    inflight,   \* runtime.inflight: the bridge work in progress
    red,        \* runtime.reducer
    arb,        \* runtime.stopper
    handles,    \* runtime.handles: the stop epochs of the live handles
    lastStop,   \* runtime.lastStop
    out         \* events published by the latest step

targetVars == <<target, causes, reported>>
actorVars == <<opened, faulted, pending, inflight, red, arb, handles, lastStop>>
vars == <<targetVars, actorVars, out>>

-----------------------------------------------------------------------------
(* The target, external.                                                    *)

(* A stop cause: a breakpoint of this session, or something without one.    *)
Cause(kind, breakpoint) == [by |-> kind, id |-> breakpoint]

NoCause == Cause("none", 0)

Causes ==
    {Cause("breakpoint", b) : b \in Breakpoints} \union {Cause(c, 0) : c \in OtherCauses}

TargetRuns ==
    /\ ~target.running
    /\ target' = [target EXCEPT !.running = TRUE]
    /\ out' = <<>>
    /\ UNCHANGED <<causes, reported, actorVars>>

(* MULTI can retain an old cause: what H reports at the coming stop.        *)
HaltReports(cause) ==
    {cause} \union {c \in {causes[s] : s \in 0..target.stamp} :
                       "staleHalt" \in Anomalies /\ c # NoCause}

(* stopStamp increments by exactly one on every transition to stopped.      *)
TargetStops(cause) ==
    /\ target.running
    /\ target.stamp < MaxStamp
    /\ target' = [running |-> FALSE, stamp |-> target.stamp + 1]
    /\ causes' = [causes EXCEPT ![target.stamp + 1] = cause]
    /\ \E h \in HaltReports(cause) : reported' = [reported EXCEPT ![target.stamp + 1] = h]
    /\ out' = <<>>
    /\ UNCHANGED actorVars

StatusOf(t) == IF t.running THEN "running" ELSE "stopped"

-----------------------------------------------------------------------------
(* Work items.  A state work carries what its reads returned so far; step   *)
(* names the read that comes next.                                          *)

Work ==
    [kind : {"idle", "state", "inspection"},
     step : {"none", "status", "info", "confirm", "halt", "observe", "run", "answer"},
     status : {"unknown", "stopped", "running"}, stamp : Nat, hasStamp : BOOLEAN,
     flags : Causes \union {NoCause}, halt : Causes \union {NoCause}, stopped : BOOLEAN]

Idle ==
    [kind |-> "idle", step |-> "none", status |-> "unknown", stamp |-> 0,
     hasStamp |-> FALSE, flags |-> NoCause, halt |-> NoCause, stopped |-> FALSE]

StateWork == [Idle EXCEPT !.kind = "state", !.step = "status"]

(* An inspection captures the stop context when its command arrives.        *)
InspectionWork(r) ==
    [Idle EXCEPT !.kind = "inspection", !.step = "run", !.stamp = r.stopEpoch,
                 !.stopped = (r.state = "stopped")]

HasStateWork ==
    inflight.kind = "state" \/ \E i \in DOMAIN pending : pending[i].kind = "state"

(* stopObservation: the process flags come from GetCurPrInfo, the cause     *)
(* from H.  The sample never sets BreakpointEvidence, and fContFromBp and   *)
(* fPendingHalt are zero here: they decide the reason of a stop only, which *)
(* no property is about, and not the breakpoints it names.                  *)
HaltCause(halt) ==
    CASE halt.by \in {"breakpoint", "gui"} -> "breakpoint"
      [] halt.by = "user" -> "user"
      [] OTHER -> "unknown"

StopObservationInfo(work) ==
    [cause |-> HaltCause(work.halt), contFromBP |-> FALSE, inStepMode |-> (work.flags.by = "step"),
     pendingHalt |-> FALSE, onException |-> (work.flags.by = "exception"), bpEvidence |-> FALSE]

ObservationOf(work) ==
    [status |-> work.status, stamp |-> work.stamp, hasStamp |-> work.hasStamp]

(* The resolver: the breakpoint store's live tokens.                        *)
Resolver == [b \in Breakpoints |-> b]

-----------------------------------------------------------------------------
(* Events and failing closed.                                               *)

Event(kind, r) ==
    [kind |-> kind, state |-> r.state, exec |-> r.exec, stopEpoch |-> r.stopEpoch,
     reason |-> "unknown", hits |-> {}]

StoppedEvent(effect, r) ==
    [Event("stopped", r) EXCEPT !.reason = effect.reason, !.hits = effect.hits]

EventOf(effect, r) ==
    CASE effect.kind = "invalidate" -> Event("invalidated", r)
      [] effect.kind = "continued" -> Event("resumed", r)
      [] effect.kind = "stopped" -> StoppedEvent(effect, r)

(* observe's tail: behind the barrier only the invalidations are published. *)
Published(effects, r) ==
    IF ~r.configuring
    THEN [i \in DOMAIN effects |-> EventOf(effects[i], r)]
    ELSE IF Invalidates(effects) THEN <<Event("invalidated", r)>> ELSE <<>>

NoStop == [kind |-> "none", exec |-> 0, stopEpoch |-> 0, reason |-> "unknown", hits |-> {}]

StopsAmong(effects) == {effects[i] : i \in {j \in DOMAIN effects : effects[j].kind = "stopped"}}

LastStopAfter(effects, r) ==
    IF r.configuring \/ StopsAmong(effects) = {} THEN lastStop
    ELSE CHOOSE e \in StopsAmong(effects) : TRUE

HandlesAfter(effects) == IF Invalidates(effects) THEN {} ELSE handles

-----------------------------------------------------------------------------
(* The actor loop's startNext: when nothing is in flight, inspections whose *)
(* stop has passed are answered as stale (which also drops the stop-bound   *)
(* handles) until some work can start.                                      *)

SameStoppedEpoch(r, epoch) == r.state = "stopped" /\ r.stopEpoch = epoch

CanStart(work, r) == work.kind = "inspection" => SameStoppedEpoch(r, work.stamp)

StartNext(queue, work, r, live) ==
    \/ /\ work # Idle
       /\ pending' = queue /\ inflight' = work /\ handles' = live
    \/ /\ work = Idle
       /\ \A i \in DOMAIN queue : ~CanStart(queue[i], r)
       /\ pending' = <<>> /\ inflight' = Idle
       /\ handles' = IF queue = <<>> THEN live ELSE {}
    \/ /\ work = Idle
       /\ \E first \in DOMAIN queue :
             /\ CanStart(queue[first], r)
             /\ \A i \in 1..(first - 1) : ~CanStart(queue[i], r)
             /\ pending' = SubSeq(queue, first + 1, Len(queue))
             /\ inflight' = queue[first]
             /\ handles' = IF first = 1 THEN live ELSE {}

(* failClosed: the queue is drained, every handle dropped, and one          *)
(* reconciliation event published unless the reducer's fault did so.        *)
FailClosed(r) ==
    /\ faulted' = TRUE
    /\ handles' = {}
    /\ pending' = <<>>
    /\ inflight' = Idle
    /\ out' = IF r.state = "faulted"
              THEN <<Event("invalidated", r), Event("reconcile", r)>>
              ELSE <<Event("reconcile", r)>>
    /\ UNCHANGED <<targetVars, opened, lastStop>>

-----------------------------------------------------------------------------
Init ==
    /\ target \in [running : BOOLEAN, stamp : 0..MaxStamp]
    /\ causes = [s \in 0..MaxStamp |-> NoCause]
    /\ reported = causes
    /\ opened = FALSE
    /\ faulted = FALSE
    /\ pending = <<>>
    /\ inflight = StateWork          \* coresWork has queued the bootstrap sample
    /\ red = NewReducer
    /\ arb = NewArbiter
    /\ handles = {}
    /\ lastStop = NoStop
    /\ out = <<>>

-----------------------------------------------------------------------------
(* Sampling: stateWork, the bridge's state() and the H command.             *)

PollTick ==
    /\ opened /\ ~faulted /\ ~HasStateWork
    /\ StartNext(Append(pending, StateWork), inflight, red, handles)
    /\ out' = <<>>
    /\ UNCHANGED <<targetVars, opened, faulted, red, arb, lastStop>>

Sampling(atStep) == inflight.kind = "state" /\ inflight.step = atStep

Reads(work) ==
    /\ inflight' = work
    /\ out' = <<>>
    /\ UNCHANGED <<targetVars, opened, faulted, pending, red, arb, handles, lastStop>>

StatusReadings ==
    {StatusOf(target)} \union {s \in {"unknown"} : "unknownStatus" \in Anomalies}

ReadStatus ==
    /\ Sampling("status")
    /\ \E st \in StatusReadings :
          Reads([inflight EXCEPT !.status = st, !.step = "info"])

StampReadings ==
    {target.stamp} \union {s \in 0..target.stamp : "regressedStamp" \in Anomalies}

ReadInfo ==
    /\ Sampling("info")
    /\ \/ \E s \in StampReadings :
             Reads([inflight EXCEPT !.stamp = s, !.hasStamp = TRUE,
                                    !.flags = causes[target.stamp], !.step = "confirm"])
       \/ /\ "absentStamp" \in Anomalies
          /\ Reads([inflight EXCEPT !.step = "confirm"])

(* Mutant: the second status read is not compared with the first.           *)
ConfirmStatusMutant ==
    /\ Sampling("confirm")
    /\ Reads([inflight EXCEPT !.step = IF inflight.status = "stopped" THEN "halt" ELSE "observe"])

(* state() accepts the snapshot only when both status reads agree.          *)
ConfirmStatus ==
    /\ Sampling("confirm")
    /\ inflight.status \in StatusReadings
    /\ Reads([inflight EXCEPT !.step = IF inflight.status = "stopped" THEN "halt" ELSE "observe"])

ReadHalt ==
    /\ Sampling("halt")
    /\ \E h \in {reported[target.stamp]} \union {c \in {NoCause} : "noHalt" \in Anomalies} :
          Reads([inflight EXCEPT !.halt = h, !.step = "observe"])

(* state_changed: a completed remote error.  A poll is simply lost; the     *)
(* bootstrap sample fails the bootstrap.                                    *)
StateChanged ==
    /\ Sampling("confirm")
    /\ \E st \in StatusReadings : st # inflight.status
    /\ UNCHANGED <<red, arb>>
    /\ \/ /\ opened
          /\ StartNext(pending, Idle, red, handles)
          /\ out' = <<>>
          /\ UNCHANGED <<targetVars, opened, faulted, lastStop>>
       \/ /\ ~opened
          /\ FailClosed(red)

(* A deadline, a cancelled call, a poisoned or non-conforming bridge.       *)
TransportFails ==
    /\ "transport" \in Anomalies
    /\ inflight # Idle
    /\ FailClosed(red)
    /\ UNCHANGED <<red, arb>>

-----------------------------------------------------------------------------
(* observe.  H's token is noted first, then the arbiter and the reducer     *)
(* each reduce the sample.                                                  *)

Noted == NoteHint(arb, Resolver, inflight.halt.id)

ArbiterVerdict == ArbiterObserve(Noted, ObservationOf(inflight), StopObservationInfo(inflight))

ReducerVerdict == ReducerObserve(red, ObservationOf(inflight))

(* verifyArbiterSnapshot.                                                   *)
EpochsAgree(a, r) == r.stopEpoch = CurrentStopEpoch(a) /\ r.exec = a.exec

ArbiterRejects ==
    /\ Sampling("observe")
    /\ ~ArbiterVerdict.ok
    /\ arb' = ArbiterVerdict.arb
    /\ FailClosed(red)
    /\ UNCHANGED red

ReducerRejects ==
    /\ Sampling("observe")
    /\ ArbiterVerdict.ok
    /\ ~ReducerVerdict.ok
    /\ arb' = ArbiterVerdict.arb
    /\ red' = ReducerVerdict.red
    /\ FailClosed(ReducerVerdict.red)

EpochsDisagree ==
    /\ Sampling("observe")
    /\ ArbiterVerdict.ok /\ ReducerVerdict.ok
    /\ ~EpochsAgree(ArbiterVerdict.arb, ReducerVerdict.red)
    /\ arb' = ArbiterVerdict.arb
    /\ red' = ReducerVerdict.red
    /\ FailClosed(ReducerVerdict.red)

AcceptSample ==
    LET a == ArbiterVerdict
        r == ReducerVerdict.red
    IN  /\ Sampling("observe")
        /\ a.ok /\ ReducerVerdict.ok
        /\ EpochsAgree(a.arb, r)
        /\ arb' = a.arb
        /\ red' = r
        /\ opened' = TRUE
        /\ lastStop' = LastStopAfter(a.effects, r)
        /\ StartNext(pending, Idle, r, HandlesAfter(a.effects))
        /\ out' = Published(a.effects, r)
        /\ UNCHANGED <<targetVars, faulted>>

(* noteHintCommand: a datagram sent when breakpoint b was hit, arriving     *)
(* late, repeatedly or not at all.                                          *)
HintArrives(b) ==
    /\ \E s \in 0..target.stamp : causes[s] = Cause("breakpoint", b)
    /\ opened /\ ~faulted
    /\ HintAccepted(arb, Resolver, b)
    /\ arb' = NoteHint(arb, Resolver, b)
    /\ StartNext(IF HasStateWork THEN pending ELSE Append(pending, StateWork),
                 inflight, red, handles)
    /\ out' = <<>>
    /\ UNCHANGED <<targetVars, opened, faulted, red, lastStop>>

-----------------------------------------------------------------------------
(* Inspection: the command captures a stop context, the guard in startNext  *)
(* checks it again, the service allocates handles on the executor's worker, *)
(* and the completion checks it a last time.                                *)

WaitingInspections == {i \in DOMAIN pending : pending[i].kind = "inspection"}

RequestInspection ==
    /\ opened /\ ~faulted
    /\ Cardinality(WaitingInspections) < MaxRequests
    /\ StartNext(Append(pending, InspectionWork(red)), inflight, red, handles)
    /\ out' = <<>>
    /\ UNCHANGED <<targetVars, opened, faulted, red, arb, lastStop>>

Inspecting(atStep) == inflight.kind = "inspection" /\ inflight.step = atStep

(* The service may fail before it allocates anything.                       *)
RunInspection ==
    /\ Inspecting("run")
    /\ inflight' = [inflight EXCEPT !.step = "answer"]
    /\ \/ handles' = handles
       \/ inflight.stopped /\ handles' = handles \union {inflight.stamp}
    /\ out' = <<>>
    /\ UNCHANGED <<targetVars, opened, faulted, pending, red, arb, lastStop>>

AnswerInspection ==
    /\ Inspecting("answer")
    /\ StartNext(pending, Idle, red,
                 IF SameStoppedEpoch(red, inflight.stamp) THEN handles ELSE {})
    /\ out' = <<>>
    /\ UNCHANGED <<targetVars, opened, faulted, red, arb, lastStop>>

-----------------------------------------------------------------------------
(* The frontend's configuration barrier.  A call the reducer refuses        *)
(* changes nothing.                                                         *)

BarrierCommand(result) ==
    /\ result.ok
    /\ red' = result.red
    /\ UNCHANGED <<targetVars, opened, faulted, pending, inflight, arb, handles>>

BeginConfigurationCommand ==
    /\ BarrierCommand(BeginConfiguration(red))
    /\ out' = <<>>
    /\ UNCHANGED lastStop

CancelConfigurationCommand ==
    /\ BarrierCommand(CancelConfiguration(red))
    /\ out' = <<>>
    /\ UNCHANGED lastStop

(* applyConfigurationActions: a stop is published with its recorded reason  *)
(* when the last published stop is still the current one.                   *)
ConfigurationEvent(action, r) ==
    IF action = "resumed" THEN Event("resumed", r)
    ELSE IF lastStop # NoStop /\ lastStop.stopEpoch = r.stopEpoch THEN StoppedEvent(lastStop, r)
    ELSE Event("stopped", r)

ConfigurationDoneCommand ==
    LET result == ConfigurationDone(red)
    IN  /\ BarrierCommand(result)
        /\ out' = [i \in DOMAIN result.acts |-> ConfigurationEvent(result.acts[i], result.red)]
        /\ UNCHANGED lastStop

-----------------------------------------------------------------------------
TargetMoves == TargetRuns \/ \E c \in Causes : TargetStops(c)

SampleStep ==
    \/ ReadStatus \/ ReadInfo \/ ConfirmStatus \/ ReadHalt \/ StateChanged
    \/ ArbiterRejects \/ ReducerRejects \/ EpochsDisagree \/ AcceptSample

InspectionStep == RunInspection \/ AnswerInspection

BarrierStep ==
    BeginConfigurationCommand \/ ConfigurationDoneCommand \/ CancelConfigurationCommand

CoreStep ==
    \/ TargetMoves
    \/ PollTick \/ SampleStep \/ TransportFails
    \/ \E b \in Hints : HintArrives(b)
    \/ RequestInspection \/ InspectionStep

Next == CoreStep \/ BarrierStep

Spec == Init /\ [][Next]_vars

-----------------------------------------------------------------------------
(* Properties.                                                              *)

Events ==
    [kind : {"invalidated", "resumed", "stopped", "reconcile"}, state : TargetStates,
     exec : Nat, stopEpoch : Nat, reason : Reasons, hits : SUBSET Nat]

(* Type correctness of the actor's state (runtime in core/actor/actor.go),  *)
(* the reducer, the arbiter and the external target.                        *)
TypeOK ==
    /\ target \in [running : BOOLEAN, stamp : 0..MaxStamp]
    /\ causes \in [0..MaxStamp -> Causes \union {NoCause}]
    /\ reported \in [0..MaxStamp -> Causes \union {NoCause}]
    /\ opened \in BOOLEAN
    /\ faulted \in BOOLEAN
    /\ pending \in Seq(Work)
    /\ inflight \in Work
    /\ red \in Reducer
    /\ arb \in Arbiter
    /\ handles \in SUBSET Nat
    /\ lastStop \in StopEffect \union {NoStop}
    /\ out \in Seq(Events)

(* The reducer and the arbiter reduce the same samples independently.  As   *)
(* long as the actor has not failed closed they hold the same execution     *)
(* state, stop epoch and execution epoch: not only the two epochs           *)
(* verifyArbiterSnapshot compares after each sample.                        *)
ReductionsAgree ==
    ~faulted =>
        /\ arb.state = red.state
        /\ arb.hasStop = red.hasStop
        /\ EpochsAgree(arb, red)

(* Stop-bound handles (architecture.md 6.4): outside a fault every live     *)
(* handle belongs to the stop the session is in, whatever inspections were  *)
(* queued, running or answered around the samples that ended earlier stops. *)
HandlesOfCurrentStop ==
    ~faulted => \A e \in handles : red.state = "stopped" /\ e = red.stopEpoch

(* The guard in startNext plus single flight: while an inspection runs on   *)
(* the executor the session is still in the stop that the request named, so *)
(* no handle is ever minted for a stop that has been left.                  *)
InspectionOfCurrentStop ==
    ~faulted /\ inflight.kind = "inspection" =>
        red.state = "stopped" /\ red.stopEpoch = inflight.stamp

(* Where a sampled state lies on the target's timeline: stopped at stamp s  *)
(* is 2s, running after it is 2s + 1.                                       *)
Position(isRunning, stamp) == 2 * stamp + (IF isRunning THEN 1 ELSE 0)

TargetPosition == Position(target.running, target.stamp)

SessionPosition ==
    IF arb.state = "unknown" THEN 0 ELSE Position(arb.state = "running", arb.lastStamp)

(* A sample is four reads of a moving target, and still the session never   *)
(* gets ahead of the target: what it believes is something the target has   *)
(* already done.                                                            *)
NeverAhead == ~faulted => SessionPosition <= TargetPosition

(* Successive accepted samples never move the session back on the target's  *)
(* timeline, and never move its epochs back.                                *)
NeverBackwards ==
    [][~faulted' => /\ SessionPosition' >= SessionPosition
                    /\ red'.exec >= red.exec
                    /\ red'.stopEpoch >= red.stopEpoch]_vars

(* architecture.md 6.2: "a stop is canonical only if ExecutionEpoch has     *)
(* advanced since the previous canonical stop".  Every stop the actor       *)
(* records after the first has a larger execution epoch and stop stamp.     *)
CanonicalStops ==
    [][lastStop # NoStop /\ lastStop' # lastStop =>
          lastStop'.exec > lastStop.exec /\ lastStop'.stopEpoch > lastStop.stopEpoch]_vars

(* A sample that shows a stop/run cycle the session missed while running.   *)
ShowsRunningCycle ==
    /\ Sampling("observe") /\ inflight.status = "running"
    /\ red.state = "running" /\ red.hasStop /\ inflight.stamp # red.stopEpoch

(* With a target whose stamps, where it has one, are truthful, observe      *)
(* fails closed only on a sample without a stamp, or on one that shows a    *)
(* missed cycle between two running samples: none of the checks on the      *)
(* stamps of the reducer and the arbiter can misfire.                       *)
FailsClosedOnlyOnCycle ==
    [][ArbiterRejects \/ ReducerRejects \/ EpochsDisagree =>
          ShowsRunningCycle \/ ~inflight.hasStamp]_vars

(* Evidence that polling brings of an earlier stop never reaches a later    *)
(* one: a breakpoint a stop names, unless a hint may have named it, is one  *)
(* that MULTI reported at that stop or after it, never one that only an     *)
(* earlier sample was told of.                                              *)
HitsAsReported ==
    \A b \in lastStop.hits \ Hints :
        \E s \in lastStop.stopEpoch..target.stamp : reported[s] = Cause("breakpoint", b)

(* architecture.md 6.3: H may report an earlier cause, and the arbiter      *)
(* "reports a conservative reason rather than a confidently wrong one".  A  *)
(* breakpoint a stop names was hit at that stop or after it, never before.  *)
(* (Not so when H is stale: the token it still carries is taken at its      *)
(* word, whatever the flags say.)                                           *)
HitsNotOlder ==
    \A b \in lastStop.hits \ Hints :
        \E s \in lastStop.stopEpoch..target.stamp : causes[s] = Cause("breakpoint", b)

(* architecture.md 6.9: "a state change multi-dap did not initiate is still *)
(* a real transition and is published as such".  An honest target never     *)
(* drives an opened session into its terminal fault.  (A missed stop/run    *)
(* cycle between two running samples does.)                                 *)
OpenSessionSurvives == ~(opened /\ faulted)

(* The target's position and what the session believes of it.               *)
Timeline ==
    INSTANCE TimelineView WITH
        truth <- TargetPosition, view <- IF faulted THEN -1 ELSE SessionPosition

(* The session core implements the abstract view of the target's timeline:  *)
(* every step of every actor is a move of the target, a look or a loss.     *)
ImplementsTimeline == Timeline!Spec

(* What makes these inductive.  Until it fails closed the session's two     *)
(* reductions are healthy and a stop is known once one was seen; queued     *)
(* work is fresh and nothing is left in flight after a fault.               *)
LiveSession ==
    ~faulted => /\ ~arb.faulted /\ red.state # "faulted"
                /\ arb.state = "unknown" => ~arb.hasStop
                /\ arb.state = "stopped" => arb.hasStop

QueuedWorkIsFresh ==
    /\ \A i \in DOMAIN pending : pending[i] = StateWork \/ pending[i].kind = "inspection"
    /\ inflight.kind = "idle" => inflight = Idle
    /\ faulted => inflight = Idle /\ pending = <<>>

CoreInv ==
    /\ TypeOK /\ ReductionsAgree /\ HandlesOfCurrentStop /\ InspectionOfCurrentStop
    /\ LiveSession /\ QueuedWorkIsFresh

(* With stamps that never regress: a stop epoch is the stamp of the last    *)
(* accepted sample, no accepted stamp is ahead of the target, and a sample  *)
(* in progress already bounds, read by read, the position it will report.   *)
EpochIsLastStamp ==
    ~faulted => /\ arb.state # "unknown" => red.hasStamp /\ arb.lastStamp <= red.lastStamp
                /\ arb.state # "unknown" /\ arb.hasStop => arb.lastStamp = arb.stopEpoch
                /\ red.hasStamp => red.lastStamp <= target.stamp

SampleBounds ==
    LET sampled == Position(inflight.status = "running", inflight.stamp)
    IN  ~faulted /\ inflight.kind = "state" =>
        /\ inflight.step \in {"status", "info"} => ~inflight.hasStamp
        /\ inflight.step = "info" /\ inflight.status # "unknown" =>
              SessionPosition <= Position(inflight.status = "running", target.stamp)
        /\ inflight.step \in {"confirm", "halt", "observe"} /\ inflight.hasStamp =>
              /\ red.hasStamp => red.lastStamp <= inflight.stamp
              /\ inflight.stamp <= target.stamp
              /\ inflight.status # "unknown" => SessionPosition <= sampled
        /\ inflight.step \in {"halt", "observe"} /\ inflight.hasStamp /\ inflight.status # "unknown" =>
              sampled <= TargetPosition

(* The inductive invariant behind NeverAhead and the timeline: reducer and  *)
(* arbiter agree, nothing outlives its stop, and whichever of the four      *)
(* reads a sample has reached, what it has read so far bounds a position    *)
(* the target has really been in.                                           *)
IndInv == CoreInv /\ NeverAhead /\ EpochIsLastStamp /\ SampleBounds

(* The stop the actor recorded last lies before what the arbiter is at: not *)
(* past its stop, and left behind for good once the target runs again.      *)
StopOrder ==
    ~faulted =>
        /\ arb.hasStop => arb.lastStamp = arb.stopEpoch
        /\ lastStop # NoStop =>
              /\ arb.hasStop
              /\ lastStop.stopEpoch <= arb.stopEpoch /\ lastStop.exec <= arb.exec
              /\ arb.state = "running" => lastStop.exec < arb.exec

(* Between samples only hints are pending: what H named was used up by the  *)
(* sample it belongs to.                                                    *)
OnlyHintsPending == ~faulted => \A p \in arb.pending : p[1] \in Hints

(* The stamp of a sample in flight is one the target has reached, and what  *)
(* its H named MULTI reported at that stamp or later.                       *)
SampleHasSource ==
    inflight.kind = "state" =>
        /\ inflight.step \in {"status", "info"} => ~inflight.hasStamp
        /\ inflight.step = "halt" => inflight.status = "stopped"
        /\ inflight.hasStamp => inflight.stamp <= target.stamp
        /\ inflight.halt # NoCause =>
              /\ inflight.status = "stopped" /\ inflight.step = "observe"
              /\ inflight.hasStamp =>
                    \E s \in inflight.stamp..target.stamp : reported[s] = inflight.halt

(* What H reports has happened, and at this very stop unless H is stale.    *)
ReportsHappened ==
    \A s \in 0..target.stamp :
        /\ \E t \in 0..s : causes[t] = reported[s]
        /\ reported[s] # causes[s] => "staleHalt" \in Anomalies

(* The inductive invariant behind HitsAsReported and CanonicalStops: stops  *)
(* are recorded in order and each names only evidence of its own time,      *)
(* whatever the target's moves between the reads of the samples and between *)
(* the samples, and whatever goes wrong with the reads.  An attribution to  *)
(* an earlier stop is MULTI's own, and then still of a breakpoint that was  *)
(* hit.                                                                     *)
StopInv ==
    StopOrder /\ OnlyHintsPending /\ SampleHasSource /\ HitsAsReported /\ ReportsHappened

(* The session knows the exact position of the target, or has failed.       *)
PositionKnown == faulted \/ SessionPosition = TargetPosition
=============================================================================
