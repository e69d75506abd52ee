-------------------------- MODULE SessionCoreProofs --------------------------
(***************************************************************************)
(* Proofs about SessionCore, for every bound, every set of breakpoints,     *)
(* causes and hints, and every set of anomalies unless a theorem says       *)
(* otherwise.                                                               *)
(***************************************************************************)
EXTENDS SessionCoreLemmas

-----------------------------------------------------------------------------
(* Events are well-formed.                                                  *)

(* Events built from a well-typed reducer are events. *)
LEMMA EventType ==
    ASSUME NEW r \in Reducer, NEW k \in {"invalidated", "resumed", "stopped", "reconcile"}
    PROVE  Event(k, r) \in Events
<1>1. r.state \in TargetStates /\ r.exec \in Nat /\ r.stopEpoch \in Nat
  BY DEF Reducer
<1>2. "unknown" \in Reasons /\ {} \in SUBSET Nat
  BY DEF Reasons
<1> QED
  BY <1>1, <1>2 DEF Event, Events

(* Stopped events carry reason and hits of the effect and stay events. *)
LEMMA StoppedEventType ==
    ASSUME NEW r \in Reducer, NEW e \in StopEffect
    PROVE  StoppedEvent(e, r) \in Events
<1>1. Event("stopped", r) \in Events
  BY EventType
<1>2. e.reason \in Reasons /\ e.hits \in SUBSET Nat
  BY DEF StopEffect
<1> QED
  BY <1>1, <1>2, Zenon DEF StoppedEvent, Events

(* applyStopEffect turns every effect into an event. *)
LEMMA EventOfType ==
    ASSUME NEW r \in Reducer, NEW e \in Effect
    PROVE  EventOf(e, r) \in Events
<1>1. CASE e = Invalidate
  <2>1. EventOf(e, r) = Event("invalidated", r)
    BY <1>1 DEF EventOf, Invalidate
  <2> QED
    BY <2>1, EventType
<1>2. CASE e = Continued
  <2>1. EventOf(e, r) = Event("resumed", r)
    BY <1>2 DEF EventOf, Continued
  <2> QED
    BY <2>1, EventType
<1>3. CASE e \in StopEffect
  <2>1. e.kind = "stopped"
    BY <1>3 DEF StopEffect
  <2>2. EventOf(e, r) = StoppedEvent(e, r)
    BY <2>1 DEF EventOf
  <2> QED
    BY <1>3, <2>2, StoppedEventType
<1> QED
  BY <1>1, <1>2, <1>3 DEF Effect

(* What observe publishes is a sequence of events, also behind the barrier. *)
LEMMA PublishedType ==
    ASSUME NEW r \in Reducer, NEW effects \in Seq(Effect)
    PROVE  Published(effects, r) \in Seq(Events)
<1>1. CASE ~r.configuring
  <2>1. Published(effects, r) = [i \in 1..Len(effects) |-> EventOf(effects[i], r)]
    BY <1>1 DEF Published
  <2>2. \A i \in 1..Len(effects) : EventOf(effects[i], r) \in Events
    BY EventOfType
  <2> QED
    BY <2>1, <2>2
<1>2. CASE r.configuring
  <2>1. Published(effects, r) = <<Event("invalidated", r)>> \/ Published(effects, r) = <<>>
    BY <1>2 DEF Published
  <2>2. Event("invalidated", r) \in Events
    BY EventType
  <2>3. <<Event("invalidated", r)>> \in Seq(Events) /\ <<>> \in Seq(Events)
    BY <2>2
  <2> QED
    BY <2>1, <2>3, Zenon
<1> QED
  BY <1>1, <1>2

(* lastStop is only ever replaced by a stop effect.                         *)
LEMMA LastStopType ==
    ASSUME NEW r, NEW effects \in Seq(Effect), lastStop \in StopEffect \union {NoStop}
    PROVE  LastStopAfter(effects, r) \in StopEffect \union {NoStop}
<1>1. StopsAmong(effects) \subseteq StopEffect
  <2>1. \A e \in Effect : e.kind = "stopped" => e \in StopEffect
    BY DEF Effect, Invalidate, Continued
  <2>2. \A i \in DOMAIN effects : effects[i] \in Effect
    OBVIOUS
  <2> QED
    BY <2>1, <2>2 DEF StopsAmong
<1>2. CASE StopsAmong(effects) = {}
  BY <1>2 DEF LastStopAfter
<1>3. CASE StopsAmong(effects) # {}
  <2>1. (CHOOSE e \in StopsAmong(effects) : TRUE) \in StopsAmong(effects)
    BY <1>3
  <2> QED
    BY <1>1, <2>1 DEF LastStopAfter
<1> QED
  BY <1>2, <1>3

-----------------------------------------------------------------------------
(* The inductive invariant, one group of actions at a time.                 *)

(* The invariant holds while the bootstrap sample is in flight. *)
LEMMA CoreInvInit == Init => CoreInv
<1> SUFFICES ASSUME Init PROVE CoreInv
  OBVIOUS
<1>1. red \in Reducer /\ arb \in Arbiter
  BY DEF Init, NewReducer, Reducer, TargetStates, NewArbiter, Arbiter
<1>2. inflight \in Work /\ inflight.kind = "state" /\ pending = <<>>
  BY WorkTypes DEF Init
<1>3. TypeOK
  <2>1. /\ opened \in BOOLEAN /\ faulted \in BOOLEAN
        /\ lastStop \in StopEffect \union {NoStop}
        /\ causes \in [0..MaxStamp -> Causes \union {NoCause}]
        /\ reported \in [0..MaxStamp -> Causes \union {NoCause}]
    BY Zenon DEF Init
  <2>2. pending \in Seq(Work) /\ out \in Seq(Events) /\ handles \in SUBSET Nat
    BY DEF Init
  <2> QED
    BY <1>1, <1>2, <2>1, <2>2 DEF Init, TypeOK
<1>4. ReductionsAgree /\ LiveSession /\ HandlesOfCurrentStop
  BY DEF Init, ReductionsAgree, EpochsAgree, CurrentStopEpoch, LiveSession, HandlesOfCurrentStop,
         NewReducer, NewArbiter
<1>5. InspectionOfCurrentStop /\ QueuedWorkIsFresh
  BY <1>2 DEF Init, InspectionOfCurrentStop, QueuedWorkIsFresh
<1> QED
  BY <1>3, <1>4, <1>5 DEF CoreInv

(* The target's own moves leave the session alone.                          *)
LEMMA TargetKeepsCore == CoreInv /\ TargetMoves => CoreInv'
<1> SUFFICES ASSUME CoreInv, TargetMoves PROVE CoreInv'
  OBVIOUS
<1>1. UNCHANGED actorVars /\ out' = <<>>
  BY DEF TargetMoves, TargetRuns, TargetStops, actorVars
<1>2. /\ target' \in [running : BOOLEAN, stamp : 0..MaxStamp]
      /\ causes' \in [0..MaxStamp -> Causes \union {NoCause}]
      /\ reported' \in [0..MaxStamp -> Causes \union {NoCause}]
  <2>1. CASE TargetRuns
    BY <2>1, Zenon DEF TargetRuns, CoreInv, TypeOK
  <2>2. ASSUME NEW c \in Causes, TargetStops(c)
        PROVE  /\ target' \in [running : BOOLEAN, stamp : 0..MaxStamp]
               /\ causes' \in [0..MaxStamp -> Causes \union {NoCause}]
               /\ reported' \in [0..MaxStamp -> Causes \union {NoCause}]
    <3>1. target.stamp + 1 \in 0..MaxStamp
      BY <2>2, MaxStampAssumption DEF TargetStops, CoreInv, TypeOK
    <3>2. PICK h \in HaltReports(c) : reported' = [reported EXCEPT ![target.stamp + 1] = h]
      BY <2>2, Zenon DEF TargetStops
    <3>3. \A s \in 0..target.stamp : causes[s] \in Causes \union {NoCause}
      BY MaxStampAssumption DEF CoreInv, TypeOK
    <3>4. h \in Causes \union {NoCause}
      BY <3>2, <3>3, Zenon DEF HaltReports
    <3>5. reported' \in [0..MaxStamp -> Causes \union {NoCause}]
      BY <3>1, <3>2, <3>4 DEF CoreInv, TypeOK
    <3> QED
      BY <2>2, <3>1, <3>5 DEF TargetStops, CoreInv, TypeOK
  <2> QED
    BY <2>1, <2>2 DEF TargetMoves
<1>3. TypeOK'
  BY <1>1, <1>2 DEF CoreInv, TypeOK, actorVars
<1> QED
  BY <1>1, <1>3 DEF CoreInv, actorVars, ReductionsAgree, EpochsAgree, HandlesOfCurrentStop,
       InspectionOfCurrentStop, LiveSession, QueuedWorkIsFresh

(* Failing closed leaves nothing queued, in flight or suspended.            *)
LEMMA FailClosedKeepsCore ==
    ASSUME CoreInv, FailClosed(red'), red' \in Reducer, arb' \in Arbiter
    PROVE  CoreInv'
<1>1. out' \in Seq(Events)
  <2>1. Event("invalidated", red') \in Events /\ Event("reconcile", red') \in Events
    BY EventType
  <2> QED
    BY <2>1 DEF FailClosed
<1>2. TypeOK'
  BY <1>1, WorkTypes DEF CoreInv, TypeOK, FailClosed, targetVars
<1>3. faulted' /\ pending' = <<>> /\ inflight' = Idle /\ handles' = {}
  BY DEF FailClosed
<1> QED
  BY <1>2, <1>3 DEF CoreInv, ReductionsAgree, HandlesOfCurrentStop, InspectionOfCurrentStop,
       LiveSession, QueuedWorkIsFresh

(* Every step that ends in startNext.                                       *)
LEMMA StartNextKeepsCore ==
    ASSUME NEW q, Queue(q),
           NEW w \in Work, w.kind = "idle" => w = Idle,
           w.kind = "inspection" => SameStoppedEpoch(red', w.stamp),
           NEW live \in SUBSET Nat, \A e \in live : red'.state = "stopped" /\ e = red'.stopEpoch,
           StartNext(q, w, red', live),
           TypeOK, ~faulted, UNCHANGED <<targetVars, faulted>>,
           red' \in Reducer, arb' \in Arbiter, opened' \in BOOLEAN,
           lastStop' \in StopEffect \union {NoStop}, out' \in Seq(Events),
           ReductionsAgree', LiveSession'
    PROVE  CoreInv'
<1>1. /\ Queue(pending')
      /\ inflight' \in Work
      /\ inflight'.kind = "idle" => inflight' = Idle
      /\ inflight' = w \/ (inflight' # Idle /\ CanStart(inflight', red')) \/ inflight' = Idle
      /\ handles' \subseteq live
  BY StartNextStep
<1>2. TypeOK'
  BY <1>1 DEF TypeOK, targetVars, Queue
<1>3. QueuedWorkIsFresh'
  BY <1>1 DEF QueuedWorkIsFresh, Queue
<1>4. HandlesOfCurrentStop'
  BY <1>1 DEF HandlesOfCurrentStop
<1>5. InspectionOfCurrentStop'
  <2>1. inflight'.kind = "inspection" => SameStoppedEpoch(red', inflight'.stamp)
    BY <1>1, WorkTypes DEF CanStart
  <2> QED
    BY <2>1 DEF InspectionOfCurrentStop, SameStoppedEpoch
<1> QED
  BY <1>2, <1>3, <1>4, <1>5 DEF CoreInv

(* ... when neither reduction moved.                                        *)
LEMMA QuietStartNextKeepsCore ==
    ASSUME CoreInv, NEW q, Queue(q), NEW w, w = inflight \/ w = Idle,
           NEW live, live \subseteq handles, StartNext(q, w, red, live),
           ~faulted, UNCHANGED <<targetVars, opened, faulted, red, lastStop>>, out' = <<>>,
           arb' \in Arbiter, arb'.state = arb.state, arb'.hasStop = arb.hasStop,
           arb'.stopEpoch = arb.stopEpoch, arb'.exec = arb.exec, arb'.faulted = arb.faulted
    PROVE  CoreInv'
<1>1. TypeOK /\ ReductionsAgree /\ LiveSession
  BY DEF CoreInv
<1>2. ReductionsAgree' /\ LiveSession'
  BY <1>1 DEF ReductionsAgree, LiveSession, EpochsAgree, CurrentStopEpoch
<1>3. w \in Work /\ (w.kind = "idle" => w = Idle)
  BY WorkTypes DEF CoreInv, TypeOK, QueuedWorkIsFresh
<1>4. w.kind = "inspection" => SameStoppedEpoch(red', w.stamp)
  BY WorkTypes DEF CoreInv, InspectionOfCurrentStop, SameStoppedEpoch
<1>5. live \in SUBSET Nat /\ \A e \in live : red'.state = "stopped" /\ e = red'.stopEpoch
  BY DEF CoreInv, TypeOK, HandlesOfCurrentStop
<1>6. /\ red' \in Reducer /\ opened' \in BOOLEAN
      /\ lastStop' \in StopEffect \union {NoStop} /\ out' \in Seq(Events)
  BY DEF CoreInv, TypeOK
<1>7. StartNext(q, w, red', live)
  OBVIOUS
<1> QED
  BY <1>1, <1>2, <1>3, <1>4, <1>5, <1>6, <1>7, StartNextKeepsCore

(* The invariant says that the waiting work forms a queue of fresh items. *)
LEMMA CoreQueue == CoreInv => Queue(pending)
BY DEF CoreInv, TypeOK, QueuedWorkIsFresh, Queue

(* The ticker keeps the invariant: it enqueues a fresh sample or nothing. *)
LEMMA PollTickKeepsCore == CoreInv /\ PollTick => CoreInv'
<1> SUFFICES ASSUME CoreInv, PollTick PROVE CoreInv'
  OBVIOUS
<1>1. Queue(Append(pending, StateWork))
  BY CoreQueue, WorkTypes, QueueAppend
<1>2. arb' = arb /\ arb \in Arbiter
  BY DEF PollTick, CoreInv, TypeOK
<1> QED
  BY <1>1, <1>2, QuietStartNextKeepsCore DEF PollTick

(* A hint keeps the invariant: it changes hints only and may enqueue a sample. *)
LEMMA HintArrivesKeepsCore ==
    ASSUME CoreInv, NEW b, HintArrives(b)
    PROVE  CoreInv'
<1> DEFINE q == IF HasStateWork THEN pending ELSE Append(pending, StateWork)
<1>1. Queue(q)
  BY CoreQueue, WorkTypes, QueueAppend
<1>2. /\ arb' = NoteHint(arb, Resolver, b) /\ arb \in Arbiter
      /\ StartNext(q, inflight, red, handles)
      /\ ~faulted /\ UNCHANGED <<targetVars, opened, faulted, red, lastStop>> /\ out' = <<>>
  BY DEF HintArrives, CoreInv, TypeOK
<1>3. /\ arb' \in Arbiter /\ arb'.state = arb.state /\ arb'.hasStop = arb.hasStop
      /\ arb'.stopEpoch = arb.stopEpoch /\ arb'.exec = arb.exec /\ arb'.faulted = arb.faulted
  BY <1>2, NoteHintType
<1> HIDE DEF q
<1> QED
  BY <1>1, <1>2, <1>3, QuietStartNextKeepsCore

(* A request keeps the invariant: it captures the present stop. *)
LEMMA RequestInspectionKeepsCore == CoreInv /\ RequestInspection => CoreInv'
<1> SUFFICES ASSUME CoreInv, RequestInspection PROVE CoreInv'
  OBVIOUS
<1>1. InspectionWork(red) \in Work /\ InspectionWork(red).kind = "inspection"
  BY InspectionWorkType DEF CoreInv, TypeOK
<1>2. Queue(Append(pending, InspectionWork(red)))
  BY <1>1, CoreQueue, QueueAppend
<1>3. arb' = arb /\ arb \in Arbiter
  BY DEF RequestInspection, CoreInv, TypeOK
<1> QED
  BY <1>2, <1>3, QuietStartNextKeepsCore DEF RequestInspection

(* The worker and the completion of an inspection keep the invariant. *)
LEMMA InspectionKeepsCore == CoreInv /\ InspectionStep => CoreInv'
<1> SUFFICES ASSUME CoreInv, InspectionStep PROVE CoreInv'
  OBVIOUS
<1>1. inflight \in Work /\ inflight.kind = "inspection" /\ ~faulted
  BY WorkTypes DEF InspectionStep, RunInspection, AnswerInspection, Inspecting, CoreInv, TypeOK,
       QueuedWorkIsFresh
<1>2. red.state = "stopped" /\ red.stopEpoch = inflight.stamp
  BY <1>1 DEF CoreInv, InspectionOfCurrentStop
<1>3. CASE RunInspection
  <2>1. /\ inflight' \in Work /\ inflight'.kind = "inspection" /\ inflight'.stamp = inflight.stamp
    BY <1>1, <1>3 DEF RunInspection, Work
  <2>2. handles' \in SUBSET Nat /\ handles' \subseteq handles \union {red.stopEpoch}
    <3>1. red.stopEpoch \in Nat
      BY DEF CoreInv, TypeOK, Reducer
    <3> QED
      BY <1>2, <1>3, <3>1 DEF RunInspection, CoreInv, TypeOK
  <2>3. /\ UNCHANGED <<targetVars, opened, faulted, pending, red, arb, lastStop>> /\ out' = <<>>
    BY <1>3 DEF RunInspection
  <2>4. TypeOK'
    BY <2>1, <2>2, <2>3 DEF CoreInv, TypeOK, targetVars
  <2>5. HandlesOfCurrentStop'
    BY <1>1, <1>2, <2>2, <2>3 DEF CoreInv, HandlesOfCurrentStop
  <2>6. InspectionOfCurrentStop' /\ QueuedWorkIsFresh'
    BY <1>1, <1>2, <2>1, <2>3 DEF CoreInv, InspectionOfCurrentStop, QueuedWorkIsFresh
  <2> QED
    BY <2>3, <2>4, <2>5, <2>6 DEF CoreInv, ReductionsAgree, EpochsAgree, LiveSession
<1>4. CASE AnswerInspection
  <2>1. SameStoppedEpoch(red, inflight.stamp)
    BY <1>2 DEF SameStoppedEpoch
  <2>2. /\ StartNext(pending, Idle, red, handles)
        /\ UNCHANGED <<targetVars, opened, faulted, red, lastStop>> /\ out' = <<>> /\ arb' = arb
    BY <1>4, <2>1 DEF AnswerInspection
  <2>3. arb \in Arbiter
    BY DEF CoreInv, TypeOK
  <2> QED
    BY <1>1, <2>2, <2>3, CoreQueue, QuietStartNextKeepsCore
<1> QED
  BY <1>3, <1>4 DEF InspectionStep

(* A read leaves everything but the sample in progress alone.               *)
LEMMA ReadsKeepCore ==
    ASSUME CoreInv, inflight.kind = "state", NEW w \in Work, w.kind = "state", Reads(w)
    PROVE  CoreInv'
<1>1. ~faulted
  BY WorkTypes DEF CoreInv, QueuedWorkIsFresh
<1>2. /\ inflight' = w /\ out' = <<>>
      /\ UNCHANGED <<targetVars, opened, faulted, pending, red, arb, handles, lastStop>>
  BY DEF Reads
<1>3. TypeOK'
  BY <1>2 DEF CoreInv, TypeOK, targetVars
<1>4. InspectionOfCurrentStop' /\ QueuedWorkIsFresh'
  BY <1>1, <1>2 DEF CoreInv, InspectionOfCurrentStop, QueuedWorkIsFresh
<1> QED
  BY <1>2, <1>3, <1>4 DEF CoreInv, ReductionsAgree, EpochsAgree, LiveSession, HandlesOfCurrentStop

(* The four reads of a sample produce well-typed work.                      *)
LEMMA ReadStepWork ==
    ASSUME CoreInv, ReadStatus \/ ReadInfo \/ ConfirmStatus \/ ReadHalt
    PROVE  \E w \in Work : w.kind = "state" /\ Reads(w)
<1>1. inflight \in Work /\ inflight.kind = "state"
  BY Zenon DEF CoreInv, TypeOK, ReadStatus, ReadInfo, ConfirmStatus, ReadHalt, Sampling
<1>2. /\ causes[target.stamp] \in Causes \union {NoCause}
      /\ reported[target.stamp] \in Causes \union {NoCause} /\ target.stamp \in Nat
  BY MaxStampAssumption DEF CoreInv, TypeOK
<1>3. CASE ReadStatus
  <2>1. PICK st \in StatusReadings : Reads([inflight EXCEPT !.status = st, !.step = "info"])
    BY <1>3, Zenon DEF ReadStatus
  <2>2. st \in {"unknown", "stopped", "running"}
    BY <2>1 DEF StatusReadings, StatusOf
  <2>3. [inflight EXCEPT !.status = st, !.step = "info"] \in Work
    BY <1>1, <2>2, ZenonT(30) DEF Work
  <2> QED
    BY <1>1, <2>1, <2>3, Zenon DEF Work
<1>4. CASE ReadInfo
  <2>1. CASE \E s \in StampReadings :
               Reads([inflight EXCEPT !.stamp = s, !.hasStamp = TRUE,
                                      !.flags = causes[target.stamp], !.step = "confirm"])
    <3>1. PICK s \in StampReadings :
               Reads([inflight EXCEPT !.stamp = s, !.hasStamp = TRUE,
                                      !.flags = causes[target.stamp], !.step = "confirm"])
      BY <2>1, Zenon
    <3>2. s \in Nat
      BY <1>2, <3>1 DEF StampReadings
    <3>3. [inflight EXCEPT !.stamp = s, !.hasStamp = TRUE,
                           !.flags = causes[target.stamp], !.step = "confirm"] \in Work
      BY <1>1, <1>2, <3>2, Zenon DEF Work
    <3> QED
      BY <1>1, <3>1, <3>3, Zenon DEF Work
  <2>2. CASE Reads([inflight EXCEPT !.step = "confirm"])
    BY <1>1, <2>2 DEF Work
  <2> QED
    BY <1>4, <2>1, <2>2, Zenon DEF ReadInfo
<1>5. CASE ConfirmStatus
  <2>1. PICK st \in {"halt", "observe"} : Reads([inflight EXCEPT !.step = st])
    BY <1>5 DEF ConfirmStatus
  <2> QED
    BY <1>1, <2>1 DEF Work
<1>6. CASE ReadHalt
  <2>1. PICK h \in Causes \union {NoCause} : Reads([inflight EXCEPT !.halt = h, !.step = "observe"])
    BY <1>2, <1>6, Zenon DEF ReadHalt
  <2>2. [inflight EXCEPT !.halt = h, !.step = "observe"] \in Work
    BY <1>1, <2>1, Zenon DEF Work
  <2> QED
    BY <1>1, <2>1, <2>2, Zenon DEF Work
<1> QED
  BY <1>3, <1>4, <1>5, <1>6, SMTT(30)

(* The sample in flight, and both verdicts on it.                           *)
LEMMA VerdictFacts ==
    ASSUME CoreInv
    PROVE  /\ ObservationOf(inflight) \in Observation
           /\ Noted \in Arbiter
           /\ Noted.state = arb.state /\ Noted.hasStop = arb.hasStop
           /\ Noted.stopEpoch = arb.stopEpoch /\ Noted.exec = arb.exec
           /\ Noted.faulted = arb.faulted /\ Noted.lastStamp = arb.lastStamp
           /\ ArbiterVerdict.arb \in Arbiter /\ ArbiterVerdict.effects \in Seq(Effect)
           /\ ReducerVerdict.red \in Reducer
<1>1. ObservationOf(inflight) \in Observation
  BY DEF CoreInv, TypeOK, Work, ObservationOf, Observation
<1>2. /\ Noted \in Arbiter
      /\ Noted.state = arb.state /\ Noted.hasStop = arb.hasStop
      /\ Noted.stopEpoch = arb.stopEpoch /\ Noted.exec = arb.exec
      /\ Noted.faulted = arb.faulted /\ Noted.lastStamp = arb.lastStamp
  BY NoteHintType DEF Noted, CoreInv, TypeOK
<1>3. ArbiterVerdict.arb \in Arbiter /\ ArbiterVerdict.effects \in Seq(Effect)
  BY <1>1, <1>2, ArbiterObserveStep DEF ArbiterVerdict
<1>4. ReducerVerdict.red \in Reducer
  BY <1>1, ReducerObserveStep, SMTT(30) DEF ReducerVerdict, CoreInv, TypeOK
<1> QED
  BY <1>1, <1>2, <1>3, <1>4

(* What an accepted sample establishes in both reductions.                  *)
LEMMA AcceptFacts ==
    ASSUME CoreInv, AcceptSample
    PROVE  LET ob == ObservationOf(inflight)
           IN  /\ ~faulted /\ ~arb'.faulted
               /\ AcceptsStamp(red, ob)
               /\ red'.exec >= red.exec
               /\ ob.status = "unknown" => arb' = Noted /\ red' = NoteStamp(red, ob)
               /\ ob.status # "unknown" =>
                    /\ Follows(arb', Noted, ob)
                    /\ red'.state = ob.status
                    /\ red'.hasStamp /\ red'.lastStamp = ob.stamp
                    /\ red'.hasStop <=> (red.hasStop \/ ob.status = "stopped")
               /\ arb.hasStop /\ arb.state = "stopped" /\ ~Invalidates(ArbiterVerdict.effects) =>
                    arb'.state = "stopped" /\ AtStop(arb', arb.stopEpoch)
<1> DEFINE ob == ObservationOf(inflight)
<1>1. /\ arb' = ArbiterVerdict.arb /\ red' = ReducerVerdict.red
      /\ ArbiterVerdict.ok /\ ReducerVerdict.ok /\ inflight.kind = "state"
  BY DEF AcceptSample, Sampling
<1>2. ob \in Observation /\ Noted \in Arbiter /\ red \in Reducer
  BY VerdictFacts DEF CoreInv, TypeOK
<1>3. ~faulted
  BY <1>1, WorkTypes, SMTT(30) DEF CoreInv, QueuedWorkIsFresh
<1> HIDE DEF ob
<1>4. /\ ~arb'.faulted
      /\ ob.status = "unknown" => arb' = Noted
      /\ ob.status # "unknown" => Follows(arb', Noted, ob)
      /\ Noted.hasStop /\ Noted.state = "stopped" /\ ~Invalidates(ArbiterVerdict.effects) =>
           arb'.state = "stopped" /\ AtStop(arb', Noted.stopEpoch)
  BY <1>1, <1>2, ArbiterObserveStep, SMTT(30) DEF ArbiterVerdict, ob
<1>5. /\ AcceptsStamp(red, ob) /\ red'.exec >= red.exec
      /\ ob.status = "unknown" => red' = NoteStamp(red, ob)
      /\ ob.status # "unknown" =>
           /\ red'.state = ob.status
           /\ red'.hasStamp /\ red'.lastStamp = ob.stamp
           /\ red'.hasStop <=> (red.hasStop \/ ob.status = "stopped")
  BY <1>1, <1>2, ReducerObserveStep DEF ReducerVerdict, ob
<1> QED
  BY <1>3, <1>4, <1>5, VerdictFacts DEF ob

(* An accepted sample keeps the two reductions in step.                     *)
LEMMA AcceptKeepsAgreement ==
    ASSUME CoreInv, AcceptSample
    PROVE  ReductionsAgree' /\ LiveSession'
<1> DEFINE ob == ObservationOf(inflight)
<1>1. /\ ob \in Observation /\ Noted.state = arb.state /\ Noted.hasStop = arb.hasStop
      /\ red \in Reducer /\ ~faulted
  BY VerdictFacts, AcceptFacts DEF CoreInv, TypeOK
<1>2. arb.state = red.state /\ arb.hasStop = red.hasStop /\ red.state # "faulted"
  BY <1>1 DEF CoreInv, ReductionsAgree, LiveSession
<1>3. EpochsAgree(arb', red')
  BY DEF AcceptSample
<1>4. arb' \in Arbiter /\ red' \in Reducer
  BY VerdictFacts, SMTT(30) DEF AcceptSample
<1>5. CASE ob.status = "unknown"
  <2>1. arb' = Noted /\ red' = NoteStamp(red, ob)
    BY <1>5, AcceptFacts
  <2>2. red'.state = red.state /\ red'.hasStop = red.hasStop
    BY <1>1, <2>1, NoteStampType
  <2> QED
    BY <1>1, <1>2, <1>3, <2>1, <2>2, AcceptFacts, SMTT(30) DEF ReductionsAgree, LiveSession, CoreInv
<1>6. CASE ob.status # "unknown"
  <2>1. /\ Follows(arb', Noted, ob) /\ red'.state = ob.status /\ ~arb'.faulted
        /\ red'.hasStop <=> (red.hasStop \/ ob.status = "stopped")
    BY <1>6, AcceptFacts
  <2>2. arb'.state = ob.status /\ (arb'.hasStop <=> (arb.hasStop \/ ob.status = "stopped"))
    BY <1>1, <2>1 DEF Follows, ArbMoved
  <2>3. arb'.hasStop = red'.hasStop
    <3>1. arb'.hasStop <=> red'.hasStop
      BY <1>2, <2>1, <2>2
    <3>2. arb'.hasStop \in BOOLEAN /\ red'.hasStop \in BOOLEAN
      BY <1>4 DEF Arbiter, Reducer
    <3> QED
      BY <3>1, <3>2
  <2>4. ob.status \in {"stopped", "running"}
    BY <1>1, <1>6 DEF Observation
  <2> QED
    BY <1>3, <2>1, <2>2, <2>3, <2>4, SMTT(30) DEF ReductionsAgree, LiveSession
<1> QED
  BY <1>5, <1>6, SMTT(30)

(* An accepted sample keeps the invariant: if it ends the stop, it also drops the handles. *)
LEMMA AcceptKeepsCore == CoreInv /\ AcceptSample => CoreInv'
<1> SUFFICES ASSUME CoreInv, AcceptSample PROVE CoreInv'
  OBVIOUS
<1> DEFINE effects == ArbiterVerdict.effects
           live == HandlesAfter(effects)
<1>1. /\ arb' \in Arbiter /\ red' \in Reducer /\ effects \in Seq(Effect) /\ ~faulted
      /\ UNCHANGED <<targetVars, faulted>> /\ opened' = TRUE
      /\ lastStop' = LastStopAfter(effects, red') /\ out' = Published(effects, red')
      /\ StartNext(pending, Idle, red', live)
  BY VerdictFacts, AcceptFacts DEF AcceptSample
<1>2. live \in SUBSET Nat /\ \A e \in live : red'.state = "stopped" /\ e = red'.stopEpoch
  <2>1. CASE Invalidates(effects)
    BY <2>1 DEF HandlesAfter
  <2>2. CASE ~Invalidates(effects)
    <3>1. live = handles /\ handles \in SUBSET Nat
      BY <2>2 DEF HandlesAfter, CoreInv, TypeOK
    <3>2. ASSUME NEW e \in handles PROVE red'.state = "stopped" /\ e = red'.stopEpoch
      <4>1. red.state = "stopped" /\ e = red.stopEpoch
        BY <1>1, <3>2 DEF CoreInv, HandlesOfCurrentStop
      <4>2. arb.state = "stopped" /\ arb.hasStop /\ arb.stopEpoch = red.stopEpoch
        BY <1>1, <4>1, SMTT(30) DEF CoreInv, ReductionsAgree, EpochsAgree, CurrentStopEpoch, LiveSession
      <4>3. arb'.state = "stopped" /\ AtStop(arb', arb.stopEpoch)
        BY <2>2, <4>2, AcceptFacts, SMTT(30)
      <4>4. arb'.state = red'.state /\ EpochsAgree(arb', red')
        BY <1>1, AcceptKeepsAgreement DEF ReductionsAgree
      <4> QED
        BY <4>1, <4>2, <4>3, <4>4 DEF AtStop, EpochsAgree, CurrentStopEpoch
    <3> QED
      BY <3>1, <3>2, Zenon
  <2> QED
    BY <2>1, <2>2
<1>3. lastStop' \in StopEffect \union {NoStop} /\ out' \in Seq(Events)
  BY <1>1, LastStopType, PublishedType DEF CoreInv, TypeOK
<1>4. Idle \in Work /\ Idle.kind = "idle"
  BY WorkTypes
<1>5. opened' \in BOOLEAN /\ TypeOK
  BY <1>1, Zenon DEF CoreInv
<1> HIDE DEF live, effects
<1> QED
  BY <1>1, <1>2, <1>3, <1>4, <1>5, CoreQueue, AcceptKeepsAgreement, StartNextKeepsCore, SMTT(30)

(* A rejected sample fails closed and so keeps the invariant. *)
LEMMA RejectKeepsCore ==
    ASSUME CoreInv, ArbiterRejects \/ ReducerRejects \/ EpochsDisagree
    PROVE  CoreInv'
<1>1. CASE ArbiterRejects
  <2>1. arb' \in Arbiter /\ red' = red /\ red \in Reducer /\ FailClosed(red)
    BY <1>1, VerdictFacts DEF ArbiterRejects, CoreInv, TypeOK
  <2>2. FailClosed(red')
    BY <2>1
  <2> QED
    BY <2>1, <2>2, FailClosedKeepsCore
<1>2. CASE ReducerRejects \/ EpochsDisagree
  <2>1. /\ arb' \in Arbiter /\ red' = ReducerVerdict.red /\ red' \in Reducer
        /\ FailClosed(ReducerVerdict.red)
    BY <1>2, VerdictFacts DEF ReducerRejects, EpochsDisagree
  <2>2. FailClosed(red')
    BY <2>1
  <2> QED
    BY <2>1, <2>2, FailClosedKeepsCore, SMTT(30)
<1> QED
  BY <1>1, <1>2

(* A lost RPC fails closed and so keeps the invariant. *)
LEMMA QuietFailureKeepsCore ==
    ASSUME CoreInv, FailClosed(red), UNCHANGED <<red, arb>>
    PROVE  CoreInv'
<1>1. red' \in Reducer /\ arb' \in Arbiter
  BY DEF CoreInv, TypeOK
<1>2. FailClosed(red')
  OBVIOUS
<1> QED
  BY <1>1, <1>2, FailClosedKeepsCore

(* A sample abandoned because the status moved keeps the invariant. *)
LEMMA StateChangedKeepsCore == CoreInv /\ StateChanged => CoreInv'
<1> SUFFICES ASSUME CoreInv, StateChanged PROVE CoreInv'
  OBVIOUS
<1>1. ~faulted /\ arb \in Arbiter
  BY WorkTypes DEF StateChanged, Sampling, CoreInv, QueuedWorkIsFresh, TypeOK
<1>2. CASE opened
  <2>1. /\ StartNext(pending, Idle, red, handles) /\ out' = <<>> /\ arb' = arb
        /\ UNCHANGED <<targetVars, opened, faulted, red, lastStop>>
    BY <1>2 DEF StateChanged
  <2> QED
    BY <1>1, <2>1, CoreQueue, QuietStartNextKeepsCore
<1>3. CASE ~opened
  <2>1. FailClosed(red) /\ UNCHANGED <<red, arb>>
    BY <1>3 DEF StateChanged
  <2> QED
    BY <2>1, QuietFailureKeepsCore
<1> QED
  BY <1>2, <1>3

(* The barrier commands change the barrier and nothing else.                *)
LEMMA BarrierKeepsCore == CoreInv /\ BarrierStep => CoreInv'
<1> SUFFICES ASSUME CoreInv, BarrierStep PROVE CoreInv'
  OBVIOUS
<1>1. red \in Reducer
  BY DEF CoreInv, TypeOK
<1>2. /\ UNCHANGED <<targetVars, opened, faulted, pending, inflight, arb, handles, lastStop>>
      /\ red' = [red EXCEPT !.configuring = TRUE] \/ red' = [red EXCEPT !.configuring = FALSE]
  BY DEF BarrierStep, BeginConfigurationCommand, CancelConfigurationCommand,
       ConfigurationDoneCommand, BarrierCommand, BeginConfiguration, CancelConfiguration,
       ConfigurationDone, Result
<1>3. red' \in Reducer /\ red'.state = red.state /\ red'.stopEpoch = red.stopEpoch
      /\ red'.exec = red.exec /\ red'.hasStop = red.hasStop
  BY <1>1, <1>2, Zenon DEF Reducer
<1>4. out' \in Seq(Events)
  <2>1. CASE BeginConfigurationCommand \/ CancelConfigurationCommand
    <3>1. out' = <<>>
      BY <2>1 DEF BeginConfigurationCommand, CancelConfigurationCommand
    <3> QED
      BY <3>1
  <2>2. CASE ConfigurationDoneCommand
    <3> DEFINE acts == InitialState(red)
    <3>1. acts = <<"suspended">> \/ acts = <<"resumed">> \/ acts = <<>>
      BY DEF InitialState
    <3>2. out' = [i \in DOMAIN acts |-> ConfigurationEvent(acts[i], red')]
      BY <2>2 DEF ConfigurationDoneCommand, BarrierCommand, ConfigurationDone, Result
    <3>3. ASSUME NEW action PROVE ConfigurationEvent(action, red') \in Events
      <4>1. Event("resumed", red') \in Events /\ Event("stopped", red') \in Events
        BY <1>3, EventType
      <4>2. lastStop # NoStop => StoppedEvent(lastStop, red') \in Events
        BY <1>3, StoppedEventType DEF CoreInv, TypeOK
      <4> QED
        BY <4>1, <4>2 DEF ConfigurationEvent
    <3> HIDE DEF acts
    <3>4. acts \in Seq({"suspended", "resumed"})
      <4>1. /\ <<"suspended">> \in Seq({"suspended", "resumed"})
            /\ <<"resumed">> \in Seq({"suspended", "resumed"})
            /\ <<>> \in Seq({"suspended", "resumed"})
        OBVIOUS
      <4> QED
        BY <3>1, <4>1, Zenon
    <3>5. out' = [i \in 1..Len(acts) |-> ConfigurationEvent(acts[i], red')] /\ Len(acts) \in Nat
      BY <3>2, <3>4
    <3>6. \A i \in 1..Len(acts) : ConfigurationEvent(acts[i], red') \in Events
      BY <3>3
    <3> QED
      BY <3>5, <3>6
  <2> QED
    BY <2>1, <2>2 DEF BarrierStep
<1>5. TypeOK'
  BY <1>2, <1>3, <1>4 DEF CoreInv, TypeOK, targetVars
<1> QED
  BY <1>2, <1>3, <1>5 DEF CoreInv, ReductionsAgree, EpochsAgree, HandlesOfCurrentStop,
       InspectionOfCurrentStop, LiveSession, QueuedWorkIsFresh

(* Nothing in CoreInv mentions more than vars.                              *)
LEMMA StutterKeepsCore == CoreInv /\ UNCHANGED vars => CoreInv'
<1> SUFFICES ASSUME CoreInv, UNCHANGED vars
             PROVE  CoreInv'
  OBVIOUS
<1>1. UNCHANGED targetVars /\ UNCHANGED actorVars /\ UNCHANGED out
  BY DEF vars, targetVars, actorVars
<1>2. TypeOK'
  BY <1>1 DEF CoreInv, TypeOK, targetVars, actorVars
<1>3. ReductionsAgree' /\ LiveSession' /\ QueuedWorkIsFresh'
  BY <1>1 DEF CoreInv, ReductionsAgree, EpochsAgree, LiveSession, QueuedWorkIsFresh, targetVars, actorVars
<1>4. HandlesOfCurrentStop' /\ InspectionOfCurrentStop'
  BY <1>1 DEF CoreInv, HandlesOfCurrentStop, InspectionOfCurrentStop, targetVars, actorVars
<1> QED
  BY <1>2, <1>3, <1>4 DEF CoreInv

(* Every step keeps the invariant, action by action. *)
LEMMA CoreInvNext == CoreInv /\ [Next]_vars => CoreInv'
<1> SUFFICES ASSUME CoreInv, [Next]_vars PROVE CoreInv'
  OBVIOUS
<1>1. CASE TargetMoves
  BY <1>1, TargetKeepsCore
<1>2. CASE PollTick
  BY <1>2, PollTickKeepsCore
<1>3. CASE ReadStatus \/ ReadInfo \/ ConfirmStatus \/ ReadHalt
  <2>1. inflight.kind = "state"
    BY <1>3, Zenon DEF ReadStatus, ReadInfo, ConfirmStatus, ReadHalt, Sampling
  <2>2. PICK w \in Work : w.kind = "state" /\ Reads(w)
    BY <1>3, ReadStepWork
  <2> QED
    BY <2>1, <2>2, ReadsKeepCore, SMTT(30)
<1>4. CASE StateChanged
  BY <1>4, StateChangedKeepsCore
<1>5. CASE ArbiterRejects \/ ReducerRejects \/ EpochsDisagree
  BY <1>5, RejectKeepsCore
<1>6. CASE AcceptSample
  BY <1>6, AcceptKeepsCore
<1>7. CASE TransportFails
  BY <1>7, QuietFailureKeepsCore DEF TransportFails
<1>8. CASE \E b \in Hints : HintArrives(b)
  BY <1>8, HintArrivesKeepsCore
<1>9. CASE RequestInspection \/ InspectionStep
  BY <1>9, RequestInspectionKeepsCore, InspectionKeepsCore
<1>10. CASE BarrierStep
  BY <1>10, BarrierKeepsCore
<1>11. CASE UNCHANGED vars
  BY <1>11, StutterKeepsCore
<1> QED
  BY <1>1, <1>2, <1>3, <1>4, <1>5, <1>6, <1>7, <1>8, <1>9, <1>10, <1>11, SMTT(30)
  DEF Next, CoreStep, SampleStep

(* The inductive invariant holds whatever goes wrong with status words,     *)
(* stamps, H and the transport.                                             *)
THEOREM CoreInvariant == Spec => []CoreInv
BY CoreInvInit, CoreInvNext, PTL DEF Spec

(* The actor's state is well-typed.                                         *)
THEOREM TypeCorrect == Spec => []TypeOK
<1>1. CoreInv => TypeOK
  BY DEF CoreInv
<1> QED
  BY <1>1, CoreInvariant, PTL

(* The reducer and the arbiter never drift apart in a live session.         *)
THEOREM ReductionsStayInStep == Spec => []ReductionsAgree
<1>1. CoreInv => ReductionsAgree
  BY DEF CoreInv
<1> QED
  BY <1>1, CoreInvariant, PTL

(* No handle outlives its stop, and none is minted for a stop that has been *)
(* left (handle.Store, startNext's guard, inspectionWork).                  *)
THEOREM HandlesAreCurrent == Spec => [](HandlesOfCurrentStop /\ InspectionOfCurrentStop)
<1>1. CoreInv => HandlesOfCurrentStop /\ InspectionOfCurrentStop
  BY DEF CoreInv
<1> QED
  BY <1>1, CoreInvariant, PTL

=============================================================================
