------------------------ MODULE SessionTimelineProofs ------------------------
(***************************************************************************)
(* When stop stamps never go back, the session follows the target's         *)
(* timeline: it is never ahead of the target, never moves back, and so      *)
(* implements TimelineView.  Every other anomaly is allowed.                *)
(***************************************************************************)
EXTENDS SessionCoreProofs

(* The part of IndInv that CoreInv does not cover.                          *)
OnTimeline == NeverAhead /\ EpochIsLastStamp /\ SampleBounds

-----------------------------------------------------------------------------
(* Positions.                                                               *)

(* The two kinds of position.                                               *)
LEMMA PositionValue ==
    ASSUME NEW b, NEW s \in Nat
    PROVE  /\ Position(b, s) \in Nat
           /\ b => Position(b, s) = 2 * s + 1
           /\ ~b => Position(b, s) = 2 * s
BY DEF Position

(* A later stamp is a later position.                                       *)
LEMMA PositionMono ==
    ASSUME NEW b, NEW s \in Nat, NEW t \in Nat, s <= t
    PROVE  Position(b, s) <= Position(b, t)
BY PositionValue

(* Both positions are natural numbers.                                      *)
LEMMA PositionTypes ==
    ASSUME TypeOK
    PROVE  TargetPosition \in Nat /\ SessionPosition \in Nat /\ target.stamp \in Nat
<1>1. target.stamp \in Nat /\ arb.lastStamp \in Nat
  BY MaxStampAssumption DEF TypeOK, Arbiter
<1> QED
  BY <1>1, PositionValue DEF TargetPosition, SessionPosition

(* The target only moves forward, by one position.                          *)
LEMMA TargetMovesOn ==
    ASSUME TypeOK, TargetMoves
    PROVE  /\ TargetPosition' = TargetPosition + 1
           /\ target'.stamp \in Nat /\ target'.stamp >= target.stamp
<1>1. target.stamp \in Nat /\ target \in [running : BOOLEAN, stamp : 0..MaxStamp]
  BY PositionTypes DEF TypeOK
<1>2. CASE TargetRuns
  <2>1. ~target.running /\ target'.running /\ target'.stamp = target.stamp
    BY <1>1, <1>2 DEF TargetRuns
  <2>2. TargetPosition = 2 * target.stamp /\ TargetPosition' = 2 * target.stamp + 1
    BY <1>1, <2>1, PositionValue, Zenon DEF TargetPosition
  <2> QED
    BY <1>1, <2>1, <2>2
<1>3. ASSUME NEW c \in Causes, TargetStops(c)
      PROVE  /\ TargetPosition' = TargetPosition + 1
             /\ target'.stamp \in Nat /\ target'.stamp >= target.stamp
  <2>1. target.running /\ ~target'.running /\ target'.stamp = target.stamp + 1
    BY <1>3 DEF TargetStops
  <2>2. TargetPosition = 2 * target.stamp + 1
    BY <1>1, <2>1, PositionValue, Zenon DEF TargetPosition
  <2>3. target'.stamp \in Nat
    BY <1>1, <2>1
  <2>4. TargetPosition' = 2 * target'.stamp
    BY <2>1, <2>3, PositionValue DEF TargetPosition
  <2> QED
    BY <1>1, <2>1, <2>2, <2>3, <2>4
<1> QED
  BY <1>2, <1>3 DEF TargetMoves

-----------------------------------------------------------------------------
(* The invariant, one group of actions at a time.                           *)

(* Before the first sample the session claims nothing, so it is on the timeline. *)
LEMMA TimelineInit == Init => OnTimeline
<1> SUFFICES ASSUME Init PROVE OnTimeline
  OBVIOUS
<1>1. TypeOK
  BY CoreInvInit DEF CoreInv
<1>2. arb.state = "unknown" /\ red.hasStamp = FALSE
  BY DEF Init, NewArbiter, NewReducer
<1>3. SessionPosition = 0
  BY <1>2 DEF SessionPosition
<1>4. inflight.step = "status" /\ ~inflight.hasStamp
  BY DEF Init, StateWork, Idle
<1>5. NeverAhead
  BY <1>1, <1>3, PositionTypes DEF NeverAhead
<1>6. EpochIsLastStamp
  BY <1>2 DEF EpochIsLastStamp
<1>7. SampleBounds
  BY <1>4 DEF SampleBounds
<1> QED
  BY <1>5, <1>6, <1>7 DEF OnTimeline

(* The target moves away from every bound.                                  *)
LEMMA TargetKeepsTimeline ==
    ASSUME CoreInv, OnTimeline, TargetMoves
    PROVE  OnTimeline'
<1>1. UNCHANGED actorVars
  BY DEF TargetMoves, TargetRuns, TargetStops
<1>2. /\ TargetPosition' = TargetPosition + 1
      /\ target'.stamp \in Nat /\ target'.stamp >= target.stamp /\ target.stamp \in Nat
      /\ TargetPosition \in Nat /\ SessionPosition \in Nat
  BY TargetMovesOn, PositionTypes DEF CoreInv
<1>3. SessionPosition' = SessionPosition
  BY <1>1 DEF SessionPosition, actorVars
<1>4. NeverAhead'
  BY <1>1, <1>2, <1>3 DEF OnTimeline, NeverAhead, actorVars
<1>5. EpochIsLastStamp'
  <2>1. red.lastStamp \in Nat
    BY DEF CoreInv, TypeOK, Reducer
  <2> QED
    BY <1>1, <1>2, <2>1 DEF OnTimeline, EpochIsLastStamp, actorVars
<1>6. SampleBounds'
  <2> DEFINE up == inflight.status = "running"
             sampled == Position(up, inflight.stamp)
  <2>1. inflight.stamp \in Nat /\ sampled \in Nat
    BY PositionValue DEF CoreInv, TypeOK, Work
  <2>2. /\ Position(up, target.stamp) <= Position(up, target'.stamp)
        /\ Position(up, target.stamp) \in Nat /\ Position(up, target'.stamp) \in Nat
    BY <1>2, PositionMono, PositionValue
  <2>3. inflight' = inflight /\ faulted' = faulted /\ red' = red
    BY <1>1 DEF actorVars
  <2> HIDE DEF up, sampled
  <2>4. ASSUME ~faulted, inflight.kind = "state", inflight.step = "info", inflight.status # "unknown"
        PROVE  SessionPosition' <= Position(up, target'.stamp)
    <3>1. SessionPosition <= Position(up, target.stamp)
      BY <2>4 DEF OnTimeline, SampleBounds, up
    <3> QED
      BY <1>2, <1>3, <2>2, <3>1
  <2>5. ASSUME ~faulted, inflight.kind = "state", inflight.hasStamp,
               inflight.step \in {"confirm", "halt", "observe"}
        PROVE  /\ red.hasStamp => red.lastStamp <= inflight.stamp
               /\ inflight.stamp <= target'.stamp
               /\ inflight.status # "unknown" => SessionPosition' <= sampled
    <3>1. /\ red.hasStamp => red.lastStamp <= inflight.stamp
          /\ inflight.stamp <= target.stamp
          /\ inflight.status # "unknown" => SessionPosition <= sampled
      BY <2>5 DEF OnTimeline, SampleBounds, up, sampled
    <3> QED
      BY <1>2, <1>3, <2>1, <3>1
  <2>6. ASSUME ~faulted, inflight.kind = "state", inflight.hasStamp,
               inflight.step \in {"halt", "observe"}, inflight.status # "unknown"
        PROVE  sampled <= TargetPosition'
    <3>1. sampled <= TargetPosition
      BY <2>6 DEF OnTimeline, SampleBounds, up, sampled
    <3> QED
      BY <1>2, <2>1, <3>1
  <2>7. ~faulted /\ inflight.kind = "state" =>
          (inflight.step \in {"status", "info"} => ~inflight.hasStamp)
    BY DEF OnTimeline, SampleBounds
  <2> QED
    BY <2>3, <2>4, <2>5, <2>6, <2>7 DEF SampleBounds, up, sampled
<1> QED
  BY <1>4, <1>5, <1>6 DEF OnTimeline

(* After a fault nothing is claimed.                                        *)
LEMMA FaultKeepsTimeline == ASSUME faulted' PROVE OnTimeline'
BY DEF OnTimeline, NeverAhead, EpochIsLastStamp, SampleBounds

(* Steps that leave the target and the reductions where they are, and       *)
(* either leave the sample alone or start fresh work.                       *)
LEMMA QuietKeepsTimeline ==
    ASSUME OnTimeline, UNCHANGED <<target, faulted>>,
           arb'.state = arb.state, arb'.hasStop = arb.hasStop,
           arb'.stopEpoch = arb.stopEpoch, arb'.lastStamp = arb.lastStamp,
           red'.hasStamp = red.hasStamp, red'.lastStamp = red.lastStamp,
           \/ inflight' = inflight
           \/ inflight' = StateWork
           \/ inflight'.kind # "state"
    PROVE  OnTimeline'
<1>1. SessionPosition' = SessionPosition /\ TargetPosition' = TargetPosition
  BY DEF SessionPosition, TargetPosition
<1>2. NeverAhead' /\ EpochIsLastStamp'
  BY <1>1 DEF OnTimeline, NeverAhead, EpochIsLastStamp
<1>3. SampleBounds'
  <2>1. CASE inflight' = inflight
    BY <1>1, <2>1 DEF OnTimeline, SampleBounds
  <2>2. CASE inflight' = StateWork
    <3>1. inflight'.step = "status" /\ ~inflight'.hasStamp
      BY <2>2 DEF StateWork, Idle
    <3> QED
      BY <3>1 DEF SampleBounds
  <2>3. CASE inflight'.kind # "state"
    BY <2>3 DEF SampleBounds
  <2> QED
    BY <2>1, <2>2, <2>3
<1> QED
  BY <1>2, <1>3 DEF OnTimeline

(* What startNext starts is fresh.                                          *)
LEMMA StartsFresh ==
    ASSUME CoreInv, NEW q, Queue(q), NEW w, w = inflight \/ w = Idle,
           NEW r, NEW live, StartNext(q, w, r, live)
    PROVE  \/ inflight' = w
           \/ inflight' = StateWork
           \/ inflight'.kind # "state"
<1>1. w \in Work /\ (w.kind = "idle" => w = Idle)
  BY WorkTypes DEF CoreInv, TypeOK, QueuedWorkIsFresh
<1>2. inflight' = w \/ inflight' = Idle \/ inflight' = StateWork \/ inflight'.kind = "inspection"
  BY <1>1, StartNextStep
<1> QED
  BY <1>2, WorkTypes

(* Polling, hints, inspections, lost samples.                               *)
QueueStep ==
    \/ PollTick \/ RequestInspection \/ InspectionStep
    \/ \E b \in Hints : HintArrives(b)
    \/ StateChanged

(* They leave the sample in flight alone or start fresh work.               *)
LEMMA QueueStepsStartFresh ==
    ASSUME CoreInv, QueueStep
    PROVE  inflight' = inflight \/ inflight' = StateWork \/ inflight'.kind # "state"
<1>1. Queue(pending) /\ Queue(Append(pending, StateWork)) /\ Queue(Append(pending, InspectionWork(red)))
  <2>1. InspectionWork(red) \in Work /\ InspectionWork(red).kind = "inspection"
    BY InspectionWorkType DEF CoreInv, TypeOK
  <2> QED
    BY <2>1, CoreQueue, WorkTypes, QueueAppend
<1>2. Idle.kind # "state"
  BY WorkTypes
<1>3. CASE PollTick
  <2>1. StartNext(Append(pending, StateWork), inflight, red, handles)
    BY <1>3 DEF PollTick
  <2> QED
    BY <1>1, <2>1, StartsFresh
<1>4. CASE RequestInspection
  <2>1. StartNext(Append(pending, InspectionWork(red)), inflight, red, handles)
    BY <1>4 DEF RequestInspection
  <2> QED
    BY <1>1, <2>1, StartsFresh
<1>5. CASE RunInspection
  BY <1>5 DEF RunInspection, Inspecting, CoreInv, TypeOK, Work
<1>6. CASE AnswerInspection
  <2>1. PICK live : StartNext(pending, Idle, red, live)
    BY <1>6 DEF AnswerInspection
  <2> QED
    BY <1>1, <1>2, <2>1, StartsFresh
<1>7. ASSUME NEW b \in Hints, HintArrives(b)
      PROVE  inflight' = inflight \/ inflight' = StateWork \/ inflight'.kind # "state"
  <2> DEFINE q == IF HasStateWork THEN pending ELSE Append(pending, StateWork)
  <2>1. Queue(q)
    BY <1>1
  <2>2. StartNext(q, inflight, red, handles)
    BY <1>7 DEF HintArrives
  <2> HIDE DEF q
  <2> QED
    BY <2>1, <2>2, StartsFresh
<1>8. CASE StateChanged
  <2>1. CASE FailClosed(red)
    BY <1>2, <2>1 DEF FailClosed
  <2>2. CASE StartNext(pending, Idle, red, handles)
    BY <1>1, <1>2, <2>2, StartsFresh
  <2> QED
    BY <1>8, <2>1, <2>2 DEF StateChanged
<1> QED
  BY <1>3, <1>4, <1>5, <1>6, <1>7, <1>8 DEF QueueStep, InspectionStep

(* So they keep the session on the timeline.                                *)
LEMMA QueueStepsKeepTimeline ==
    ASSUME CoreInv, OnTimeline, QueueStep
    PROVE  OnTimeline'
<1>1. inflight' = inflight \/ inflight' = StateWork \/ inflight'.kind # "state"
  BY QueueStepsStartFresh
<1>2. CASE UNCHANGED <<target, faulted, red, arb>>
  BY <1>1, <1>2, QuietKeepsTimeline
<1>3. CASE PollTick \/ RequestInspection \/ RunInspection \/ AnswerInspection
  BY <1>2, <1>3 DEF PollTick, RequestInspection, RunInspection, AnswerInspection, targetVars
<1>4. ASSUME NEW b \in Hints, HintArrives(b)
      PROVE  OnTimeline'
  <2>1. UNCHANGED <<target, faulted, red>>
    BY <1>4 DEF HintArrives, targetVars
  <2>2. /\ arb'.state = arb.state /\ arb'.hasStop = arb.hasStop
        /\ arb'.stopEpoch = arb.stopEpoch /\ arb'.lastStamp = arb.lastStamp
    BY <1>4, NoteHintType DEF HintArrives, CoreInv, TypeOK
  <2> QED
    BY <1>1, <2>1, <2>2, QuietKeepsTimeline
<1>5. CASE StateChanged
  <2>1. faulted' = TRUE \/ UNCHANGED <<target, faulted, red, arb>>
    BY <1>5 DEF StateChanged, FailClosed, targetVars
  <2> QED
    BY <1>2, <2>1, FaultKeepsTimeline
<1> QED
  BY <1>3, <1>4, <1>5 DEF QueueStep, InspectionStep

(* The barrier only moves configuring.                                      *)
LEMMA BarrierKeepsTimeline ==
    ASSUME CoreInv, OnTimeline, BarrierStep
    PROVE  OnTimeline'
<1>1. UNCHANGED <<target, faulted, inflight, arb>>
  BY DEF BarrierStep, BeginConfigurationCommand, ConfigurationDoneCommand,
         CancelConfigurationCommand, BarrierCommand, targetVars
<1>2. PICK b \in BOOLEAN : red' = [red EXCEPT !.configuring = b]
  BY Zenon DEF BarrierStep, BeginConfigurationCommand, ConfigurationDoneCommand,
         CancelConfigurationCommand, BarrierCommand, BeginConfiguration, ConfigurationDone,
         CancelConfiguration, Result
<1>3. red'.hasStamp = red.hasStamp /\ red'.lastStamp = red.lastStamp
  BY <1>2 DEF CoreInv, TypeOK, Reducer
<1> QED
  BY <1>1, <1>3, QuietKeepsTimeline

(* A read changes nothing but the sample: only its own bounds are due.      *)
LEMMA ReadKeepsTimeline ==
    ASSUME OnTimeline, NEW w, Reads(w), SampleBounds'
    PROVE  OnTimeline'
<1>1. UNCHANGED <<target, faulted, red, arb>>
  BY DEF Reads, targetVars
<1>2. SessionPosition' = SessionPosition /\ TargetPosition' = TargetPosition
  BY <1>1 DEF SessionPosition, TargetPosition
<1> QED
  BY <1>1, <1>2 DEF OnTimeline, NeverAhead, EpochIsLastStamp

(* First read: the session is not ahead of what the status shows.           *)
LEMMA ReadStatusKeepsTimeline ==
    ASSUME CoreInv, OnTimeline, ReadStatus
    PROVE  OnTimeline'
<1>1. inflight \in Work /\ inflight.kind = "state" /\ inflight.step = "status"
  BY DEF CoreInv, TypeOK, ReadStatus, Sampling
<1>2. PICK st \in StatusReadings : Reads([inflight EXCEPT !.status = st, !.step = "info"])
  BY Zenon DEF ReadStatus
<1>3. /\ inflight'.step = "info" /\ inflight'.status = st
      /\ inflight'.hasStamp = inflight.hasStamp
      /\ UNCHANGED <<target, faulted, red, arb>>
  BY <1>1, <1>2 DEF Reads, targetVars, Work
<1>4. SessionPosition' = SessionPosition
  BY <1>3 DEF SessionPosition
<1>5. ~faulted /\ st # "unknown" => SessionPosition <= Position(st = "running", target.stamp)
  <2>1. SUFFICES ASSUME ~faulted, st # "unknown"
                 PROVE  SessionPosition <= Position(st = "running", target.stamp)
    OBVIOUS
  <2>2. st = StatusOf(target)
    BY <1>2, <2>1 DEF StatusReadings
  <2>3. target.running \in BOOLEAN /\ target.stamp \in Nat
    BY PositionTypes DEF CoreInv, TypeOK
  <2>4. (st = "running") <=> target.running
    BY <2>2, <2>3 DEF StatusOf
  <2>5. Position(st = "running", target.stamp) = TargetPosition
    BY <2>3, <2>4 DEF Position, TargetPosition
  <2> QED
    BY <2>1, <2>5 DEF OnTimeline, NeverAhead
<1>6. ~faulted => ~inflight.hasStamp
  BY <1>1 DEF OnTimeline, SampleBounds
<1>7. SampleBounds'
  BY <1>3, <1>4, <1>5, <1>6 DEF SampleBounds
<1> QED
  BY <1>2, <1>7, ReadKeepsTimeline

(* Second read: the stamp is the target's own, so the sample's position is  *)
(* the one the first read bounded.                                          *)
LEMMA ReadInfoKeepsTimeline ==
    ASSUME CoreInv, OnTimeline, ReadInfo, "regressedStamp" \notin Anomalies
    PROVE  OnTimeline'
<1>1. inflight \in Work /\ inflight.kind = "state" /\ inflight.step = "info"
  BY Zenon DEF CoreInv, TypeOK, ReadInfo, Sampling
<1>2. ~faulted => /\ ~inflight.hasStamp
                  /\ inflight.status # "unknown" =>
                        SessionPosition <= Position(inflight.status = "running", target.stamp)
                  /\ red.hasStamp => red.lastStamp <= target.stamp
  BY <1>1 DEF OnTimeline, SampleBounds, EpochIsLastStamp
<1>3. target.stamp \in Nat /\ target.stamp <= target.stamp
  BY PositionTypes DEF CoreInv
<1>4. ASSUME Reads([inflight EXCEPT !.stamp = target.stamp, !.hasStamp = TRUE,
                                    !.flags = causes[target.stamp], !.step = "confirm"])
      PROVE  OnTimeline'
  <2>1. /\ inflight'.step = "confirm" /\ inflight'.status = inflight.status
        /\ inflight'.stamp = target.stamp
        /\ UNCHANGED <<target, faulted, red, arb>>
    BY <1>1, <1>4 DEF Reads, targetVars, Work
  <2>2. SessionPosition' = SessionPosition
    BY <2>1 DEF SessionPosition
  <2>3. SampleBounds'
    BY <1>2, <1>3, <2>1, <2>2 DEF SampleBounds
  <2> QED
    BY <1>4, <2>3, ReadKeepsTimeline
<1>5. ASSUME Reads([inflight EXCEPT !.step = "confirm"])
      PROVE  OnTimeline'
  <2>1. /\ inflight'.step = "confirm" /\ inflight'.hasStamp = inflight.hasStamp
        /\ UNCHANGED <<target, faulted, red, arb>>
    BY <1>1, <1>5 DEF Reads, targetVars, Work
  <2>2. SampleBounds'
    BY <1>2, <2>1 DEF SampleBounds
  <2> QED
    BY <1>5, <2>2, ReadKeepsTimeline
<1>6. StampReadings = {target.stamp}
  BY DEF StampReadings
<1> QED
  BY <1>4, <1>5, <1>6, SMTT(30) DEF ReadInfo

(* Third read: the status still holds, so the target has reached the        *)
(* sample's position.                                                       *)
LEMMA ConfirmStatusKeepsTimeline ==
    ASSUME CoreInv, OnTimeline, ConfirmStatus
    PROVE  OnTimeline'
<1>1. inflight \in Work /\ inflight.kind = "state" /\ inflight.step = "confirm"
  BY DEF CoreInv, TypeOK, ConfirmStatus, Sampling
<1>2. PICK st \in {"halt", "observe"} : Reads([inflight EXCEPT !.step = st])
  BY DEF ConfirmStatus
<1>3. /\ inflight'.step = st /\ inflight'.status = inflight.status
      /\ inflight'.stamp = inflight.stamp /\ inflight'.hasStamp = inflight.hasStamp
      /\ UNCHANGED <<target, faulted, red, arb>>
  BY <1>1, <1>2 DEF Reads, targetVars, Work
<1>4. SessionPosition' = SessionPosition /\ TargetPosition' = TargetPosition
  BY <1>3 DEF SessionPosition, TargetPosition
<1> DEFINE sampled == Position(inflight.status = "running", inflight.stamp)
<1>5. ~faulted /\ inflight.hasStamp =>
        /\ red.hasStamp => red.lastStamp <= inflight.stamp
        /\ inflight.stamp <= target.stamp
        /\ inflight.status # "unknown" => SessionPosition <= sampled
  BY <1>1 DEF OnTimeline, SampleBounds
<1>6. ~faulted /\ inflight.hasStamp /\ inflight.status # "unknown" => sampled <= TargetPosition
  <2>1. SUFFICES ASSUME ~faulted, inflight.hasStamp, inflight.status # "unknown"
                 PROVE  sampled <= TargetPosition
    OBVIOUS
  <2>2. inflight.status = StatusOf(target)
    BY <2>1 DEF ConfirmStatus, StatusReadings
  <2>3. target.running \in BOOLEAN /\ target.stamp \in Nat /\ inflight.stamp \in Nat
    BY <1>1, PositionTypes, SMTT(30) DEF CoreInv, TypeOK, Work
  <2>4. (inflight.status = "running") <=> target.running
    BY <2>2, <2>3 DEF StatusOf
  <2>5. Position(target.running, inflight.stamp) <= Position(target.running, target.stamp)
    BY <1>5, <2>1, <2>3, PositionMono
  <2>6. sampled = Position(target.running, inflight.stamp)
    BY <2>3, <2>4 DEF Position
  <2> QED
    BY <2>5, <2>6 DEF TargetPosition
<1>7. SampleBounds'
  BY <1>3, <1>4, <1>5, <1>6 DEF SampleBounds
<1> QED
  BY <1>2, <1>7, ReadKeepsTimeline

(* Fourth read: H does not touch the position.                              *)
LEMMA ReadHaltKeepsTimeline ==
    ASSUME CoreInv, OnTimeline, ReadHalt
    PROVE  OnTimeline'
<1>1. inflight \in Work /\ inflight.kind = "state" /\ inflight.step = "halt"
  BY SMTT(30) DEF CoreInv, TypeOK, ReadHalt, Sampling
<1>2. PICK h : Reads([inflight EXCEPT !.halt = h, !.step = "observe"])
  BY Zenon DEF ReadHalt
<1>3. /\ inflight'.step = "observe" /\ inflight'.status = inflight.status
      /\ inflight'.stamp = inflight.stamp /\ inflight'.hasStamp = inflight.hasStamp
      /\ UNCHANGED <<target, faulted, red, arb>>
  BY <1>1, <1>2 DEF Reads, targetVars, Work
<1>4. SessionPosition' = SessionPosition /\ TargetPosition' = TargetPosition
  BY <1>3 DEF SessionPosition, TargetPosition
<1>5. SampleBounds'
  BY <1>1, <1>3, <1>4, SMTT(30) DEF OnTimeline, SampleBounds
<1> QED
  BY <1>2, <1>5, ReadKeepsTimeline

-----------------------------------------------------------------------------
(* An accepted sample.                                                      *)

(* The bounds of a finished sample, as far as they concern the stamp.       *)
LEMMA FinishedSample ==
    ASSUME CoreInv, OnTimeline, AcceptSample
    PROVE  /\ ~faulted /\ inflight.stamp \in Nat /\ target.stamp \in Nat
           /\ inflight.status # "unknown" => inflight.hasStamp
           /\ inflight.hasStamp => /\ red.hasStamp => red.lastStamp <= inflight.stamp
                                   /\ inflight.stamp <= target.stamp
           /\ inflight.hasStamp /\ inflight.status # "unknown" =>
                LET sampled == Position(inflight.status = "running", inflight.stamp)
                IN  SessionPosition <= sampled /\ sampled <= TargetPosition
<1>1. inflight.kind = "state" /\ inflight.step = "observe" /\ inflight \in Work
  BY DEF AcceptSample, Sampling, CoreInv, TypeOK
<1>2. ~faulted /\ AcceptsStamp(red, ObservationOf(inflight))
  BY AcceptFacts
<1>3. inflight.status # "unknown" => inflight.hasStamp
  BY <1>2 DEF AcceptsStamp, ObservationOf
<1>4. inflight.stamp \in Nat /\ target.stamp \in Nat
  BY <1>1, PositionTypes DEF CoreInv, Work
<1> QED
  BY <1>1, <1>2, <1>3, <1>4, SMTT(30) DEF OnTimeline, SampleBounds

(* A sample without a known status moves the reducer's stamp at most.       *)
LEMMA UnknownSampleStep ==
    ASSUME CoreInv, OnTimeline, AcceptSample, inflight.status = "unknown"
    PROVE  /\ SessionPosition' = SessionPosition
           /\ EpochIsLastStamp'
           /\ red'.stopEpoch = red.stopEpoch
<1> DEFINE ob == ObservationOf(inflight)
<1>1. ob \in Observation /\ ob.status = "unknown" /\ ob.stamp = inflight.stamp
      /\ ob.hasStamp = inflight.hasStamp
  BY VerdictFacts, SMTT(30) DEF ObservationOf
<1>2. arb' = Noted /\ red' = NoteStamp(red, ob) /\ ~faulted
  BY <1>1, AcceptFacts, SMTT(30)
<1>3. /\ arb'.state = arb.state /\ arb'.hasStop = arb.hasStop
      /\ arb'.stopEpoch = arb.stopEpoch /\ arb'.lastStamp = arb.lastStamp
  BY <1>2, VerdictFacts
<1>4. red \in Reducer /\ arb \in Arbiter
  BY DEF CoreInv, TypeOK
<1>5. /\ red'.stopEpoch = red.stopEpoch
      /\ inflight.hasStamp => red'.lastStamp = inflight.stamp /\ red'.hasStamp
      /\ ~inflight.hasStamp => red' = red
  BY <1>1, <1>2, <1>4, NoteStampType
<1>6. target' = target /\ faulted' = faulted
  BY DEF AcceptSample, targetVars
<1>7. /\ inflight.stamp \in Nat /\ target.stamp \in Nat
      /\ inflight.hasStamp => /\ red.hasStamp => red.lastStamp <= inflight.stamp
                              /\ inflight.stamp <= target.stamp
  BY FinishedSample
<1>8. /\ arb.state # "unknown" => red.hasStamp /\ arb.lastStamp <= red.lastStamp
      /\ arb.state # "unknown" /\ arb.hasStop => arb.lastStamp = arb.stopEpoch
      /\ red.hasStamp => red.lastStamp <= target.stamp
  BY <1>2 DEF OnTimeline, EpochIsLastStamp
<1>9. arb.lastStamp \in Nat /\ red.lastStamp \in Nat
  BY <1>4 DEF Arbiter, Reducer
<1>10. SessionPosition' = SessionPosition
  BY <1>3 DEF SessionPosition
<1>11. CASE inflight.hasStamp
  BY <1>3, <1>5, <1>6, <1>7, <1>8, <1>9, <1>10, <1>11, SMTT(30) DEF EpochIsLastStamp
<1>12. CASE ~inflight.hasStamp
  BY <1>3, <1>5, <1>6, <1>8, <1>10, <1>12, SMTT(30) DEF EpochIsLastStamp
<1> QED
  BY <1>11, <1>12

(* A running or stopped sample moves the session to the sample's position.  *)
LEMMA KnownSampleStep ==
    ASSUME CoreInv, OnTimeline, AcceptSample, inflight.status # "unknown"
    PROVE  /\ SessionPosition' = Position(inflight.status = "running", inflight.stamp)
           /\ EpochIsLastStamp'
           /\ red'.stopEpoch >= red.stopEpoch
<1> DEFINE ob == ObservationOf(inflight)
<1>1. ob \in Observation /\ ob.status = inflight.status /\ ob.stamp = inflight.stamp
  BY VerdictFacts, SMTT(30) DEF ObservationOf
<1>2. /\ Follows(arb', Noted, ob) /\ ~faulted
      /\ red'.hasStamp /\ red'.lastStamp = inflight.stamp
  BY <1>1, AcceptFacts
<1>3. /\ Noted \in Arbiter /\ Noted.hasStop = arb.hasStop /\ Noted.state = arb.state
  BY VerdictFacts
<1>4. /\ inflight.hasStamp /\ inflight.stamp \in Nat /\ target.stamp \in Nat
      /\ red.hasStamp => red.lastStamp <= inflight.stamp
      /\ inflight.stamp <= target.stamp
  BY FinishedSample
<1>5. arb'.state = inflight.status /\ arb'.lastStamp = inflight.stamp
  BY <1>1, <1>2, <1>3, <1>4, SeenType, SMTT(60) DEF Follows, ArbMoved
<1>6. SessionPosition' = Position(inflight.status = "running", inflight.stamp)
  BY <1>5 DEF SessionPosition
<1>7. arb.state = "unknown" => ~arb.hasStop
  BY <1>2 DEF CoreInv, LiveSession
<1>8. /\ arb'.hasStop => arb'.stopEpoch = inflight.stamp
      /\ arb.hasStop => arb'.hasStop
  BY <1>1, <1>2, <1>3, <1>7 DEF Follows
<1>9. target' = target /\ faulted' = faulted
  BY DEF AcceptSample, targetVars
<1>10. EpochIsLastStamp'
  BY <1>2, <1>4, <1>5, <1>8, <1>9 DEF EpochIsLastStamp
<1>11. red'.stopEpoch >= red.stopEpoch
  <2>1. /\ red.stopEpoch = CurrentStopEpoch(arb)
        /\ red'.stopEpoch = CurrentStopEpoch(arb')
    <3>1. CoreInv'
      BY AcceptKeepsCore
    <3> QED
      BY <1>2, <1>9, <3>1, SMTT(30) DEF CoreInv, ReductionsAgree, EpochsAgree
  <2>2. red'.stopEpoch \in Nat
    <3>1. CoreInv'
      BY AcceptKeepsCore
    <3> QED
      BY <3>1 DEF CoreInv, TypeOK, Reducer
  <2>3. CASE arb.hasStop
    <3>1. arb.stopEpoch <= red.lastStamp /\ red.hasStamp
      BY <1>2, <1>7, <2>3, SMTT(30) DEF OnTimeline, EpochIsLastStamp
    <3>2. red.lastStamp \in Nat /\ arb.stopEpoch \in Nat
      BY DEF CoreInv, TypeOK, Reducer, Arbiter
    <3>3. red.stopEpoch = arb.stopEpoch /\ red'.stopEpoch = inflight.stamp
      BY <1>8, <2>1, <2>3 DEF CurrentStopEpoch
    <3> QED
      BY <1>4, <3>1, <3>2, <3>3, SMTT(30)
  <2>4. CASE ~arb.hasStop
    <3>1. red.stopEpoch = 0
      BY <2>1, <2>4 DEF CurrentStopEpoch
    <3> QED
      BY <2>2, <3>1
  <2> QED
    BY <2>3, <2>4, SMTT(30)
<1> QED
  BY <1>6, <1>10, <1>11

(* An accepted sample moves the session forward, and not past the target.   *)
LEMMA AcceptStep ==
    ASSUME CoreInv, OnTimeline, AcceptSample
    PROVE  /\ OnTimeline'
           /\ SessionPosition' \in Nat
           /\ SessionPosition' >= SessionPosition /\ SessionPosition' <= TargetPosition
           /\ red'.stopEpoch >= red.stopEpoch
<1>1. ~faulted /\ target' = target /\ faulted' = faulted
  BY AcceptFacts DEF AcceptSample, targetVars
<1>2. SessionPosition \in Nat /\ TargetPosition \in Nat /\ SessionPosition <= TargetPosition
  BY <1>1, PositionTypes DEF CoreInv, OnTimeline, NeverAhead
<1>3. /\ SessionPosition' \in Nat
      /\ SessionPosition' >= SessionPosition /\ SessionPosition' <= TargetPosition
      /\ EpochIsLastStamp'
      /\ red'.stopEpoch >= red.stopEpoch
  <2>1. CASE inflight.status = "unknown"
    <3>1. red.stopEpoch \in Nat
      BY DEF CoreInv, TypeOK, Reducer
    <3> QED
      BY <1>2, <2>1, <3>1, UnknownSampleStep
  <2>2. CASE inflight.status # "unknown"
    <3> DEFINE sampled == Position(inflight.status = "running", inflight.stamp)
    <3>1. SessionPosition <= sampled /\ sampled <= TargetPosition /\ sampled \in Nat
      BY <2>2, FinishedSample, PositionValue
    <3>2. SessionPosition' = sampled /\ EpochIsLastStamp' /\ red'.stopEpoch >= red.stopEpoch
      BY <2>2, KnownSampleStep
    <3> HIDE DEF sampled
    <3> QED
      BY <1>2, <3>1, <3>2
  <2> QED
    BY <2>1, <2>2
<1>4. TargetPosition' = TargetPosition
  BY <1>1 DEF TargetPosition
<1>5. NeverAhead'
  BY <1>3, <1>4 DEF NeverAhead
<1>6. SampleBounds'
  <2>1. PICK r, live : StartNext(pending, Idle, r, live)
    BY DEF AcceptSample
  <2>2. inflight' = Idle \/ inflight' = StateWork \/ inflight'.kind # "state"
    BY <2>1, CoreQueue, StartsFresh
  <2>3. inflight' = StateWork => inflight'.step = "status" /\ ~inflight'.hasStamp
    BY DEF StateWork, Idle
  <2> QED
    BY <2>2, <2>3, WorkTypes DEF SampleBounds
<1> QED
  BY <1>3, <1>5, <1>6, SMTT(30) DEF OnTimeline

-----------------------------------------------------------------------------
(* All steps together.                                                      *)

(* The session stays where it is.                                           *)
StaysPut ==
    /\ UNCHANGED <<target, faulted>>
    /\ arb'.state = arb.state /\ arb'.lastStamp = arb.lastStamp
    /\ red'.exec = red.exec /\ red'.stopEpoch = red.stopEpoch

(* Only the target's moves and accepted samples move anything, unless the   *)
(* session fails closed.                                                    *)
LEMMA OtherStepsStayPut ==
    ASSUME CoreInv, [Next]_vars, ~TargetMoves, ~AcceptSample
    PROVE  faulted' = TRUE \/ StaysPut
<1>1. CASE PollTick \/ RequestInspection \/ RunInspection \/ AnswerInspection
  BY <1>1 DEF PollTick, RequestInspection, RunInspection, AnswerInspection, targetVars, StaysPut
<1>2. CASE ReadStatus \/ ReadInfo \/ ConfirmStatus \/ ReadHalt
  BY <1>2, ZenonT(30) DEF ReadStatus, ReadInfo, ConfirmStatus, ReadHalt, Reads, targetVars, StaysPut
<1>3. CASE StateChanged
  BY <1>3, SMTT(30) DEF StateChanged, FailClosed, targetVars, StaysPut
<1>4. CASE ArbiterRejects \/ ReducerRejects \/ EpochsDisagree \/ TransportFails
  BY <1>4, SMTT(30) DEF ArbiterRejects, ReducerRejects, EpochsDisagree, TransportFails, FailClosed
<1>5. ASSUME NEW b \in Hints, HintArrives(b)
      PROVE  StaysPut
  <2>1. arb'.state = arb.state /\ arb'.lastStamp = arb.lastStamp
    BY <1>5, NoteHintType DEF HintArrives, CoreInv, TypeOK
  <2> QED
    BY <1>5, <2>1, SMTT(30) DEF HintArrives, targetVars, StaysPut
<1>6. CASE BarrierStep
  <2>1. UNCHANGED <<target, faulted, arb>>
    BY <1>6 DEF BarrierStep, BeginConfigurationCommand, ConfigurationDoneCommand,
           CancelConfigurationCommand, BarrierCommand, targetVars
  <2>2. PICK b \in BOOLEAN : red' = [red EXCEPT !.configuring = b]
    BY <1>6, Zenon DEF BarrierStep, BeginConfigurationCommand, ConfigurationDoneCommand,
           CancelConfigurationCommand, BarrierCommand, BeginConfiguration, ConfigurationDone,
           CancelConfiguration, Result
  <2>3. red'.exec = red.exec /\ red'.stopEpoch = red.stopEpoch
    BY <2>2 DEF CoreInv, TypeOK, Reducer
  <2> QED
    BY <2>1, <2>3, SMTT(30) DEF StaysPut
<1>7. CASE UNCHANGED vars
  BY <1>7 DEF vars, targetVars, actorVars, StaysPut
<1> QED
  BY <1>1, <1>2, <1>3, <1>4, <1>5, <1>6, <1>7, ZenonT(30) DEF Next, CoreStep, SampleStep, InspectionStep

(* Every step keeps the session on the timeline.                            *)
LEMMA TimelineNext ==
    ASSUME "regressedStamp" \notin Anomalies, CoreInv, OnTimeline, [Next]_vars
    PROVE  OnTimeline'
<1>1. CASE ArbiterRejects \/ ReducerRejects \/ EpochsDisagree \/ TransportFails
  <2>1. faulted'
    BY <1>1 DEF ArbiterRejects, ReducerRejects, EpochsDisagree, TransportFails, FailClosed
  <2> QED
    BY <2>1, FaultKeepsTimeline, SMTT(30)
<1>2. CASE UNCHANGED vars
  BY <1>2, QuietKeepsTimeline DEF vars, targetVars, actorVars
<1> QED
  BY <1>1, <1>2, TargetKeepsTimeline, QueueStepsKeepTimeline, BarrierKeepsTimeline,
     ReadStatusKeepsTimeline, ReadInfoKeepsTimeline, ConfirmStatusKeepsTimeline,
     ReadHaltKeepsTimeline, AcceptStep, SMTT(30)
  DEF Next, CoreStep, SampleStep, QueueStep

(* A step of the session core, seen on the timeline: the target moves, or   *)
(* the session looks, or it fails closed.                                   *)
LEMMA TimelineStep ==
    ASSUME CoreInv, OnTimeline, [Next]_vars
    PROVE  \/ /\ TargetPosition' = TargetPosition + 1
              /\ UNCHANGED <<SessionPosition, faulted, red>>
           \/ /\ faulted' = TRUE /\ TargetPosition' = TargetPosition
           \/ /\ ~faulted /\ ~faulted' /\ TargetPosition' = TargetPosition
              /\ SessionPosition' \in SessionPosition..TargetPosition
              /\ red'.exec >= red.exec /\ red'.stopEpoch >= red.stopEpoch
<1>0. /\ SessionPosition \in Nat /\ TargetPosition \in Nat /\ faulted \in BOOLEAN
      /\ red.exec \in Nat /\ red.stopEpoch \in Nat
  BY PositionTypes DEF CoreInv, TypeOK, Reducer
<1>1. CASE TargetMoves
  <2>1. UNCHANGED <<arb, faulted, red>>
    BY <1>1 DEF TargetMoves, TargetRuns, TargetStops, actorVars
  <2>2. SessionPosition' = SessionPosition
    BY <2>1 DEF SessionPosition
  <2> QED
    BY <1>1, <2>1, <2>2, TargetMovesOn DEF CoreInv
<1>2. CASE AcceptSample
  <2>1. /\ ~faulted /\ faulted' = faulted /\ target' = target /\ red'.exec >= red.exec
    BY <1>2, AcceptFacts DEF AcceptSample, targetVars
  <2>2. /\ SessionPosition' \in Nat
        /\ SessionPosition' >= SessionPosition /\ SessionPosition' <= TargetPosition
        /\ red'.stopEpoch >= red.stopEpoch
    BY <1>2, AcceptStep
  <2>3. TargetPosition' = TargetPosition
    BY <2>1 DEF TargetPosition
  <2> QED
    BY <1>0, <2>1, <2>2, <2>3, SMTT(30)
<1>3. CASE ~TargetMoves /\ ~AcceptSample
  <2>1. faulted' = TRUE \/ StaysPut
    BY <1>3, OtherStepsStayPut, ZenonT(30)
  <2>2. target' = target
    BY <1>3, ZenonT(30) DEF Next, CoreStep, SampleStep, InspectionStep, PollTick, RequestInspection,
       RunInspection, AnswerInspection, ReadStatus, ReadInfo, ConfirmStatus, ReadHalt, Reads,
       StateChanged, ArbiterRejects, ReducerRejects, EpochsDisagree, TransportFails, FailClosed,
       HintArrives, BarrierStep, BeginConfigurationCommand, ConfigurationDoneCommand,
       CancelConfigurationCommand, BarrierCommand, vars, targetVars
  <2>3. TargetPosition' = TargetPosition
    BY <2>2 DEF TargetPosition
  <2>4. CASE StaysPut /\ ~faulted
    <3>1. SessionPosition' = SessionPosition
      BY <2>4 DEF StaysPut, SessionPosition
    <3>2. SessionPosition <= TargetPosition
      BY <2>4, SMTT(30) DEF OnTimeline, NeverAhead
    <3> QED
      BY <1>0, <2>3, <2>4, <3>1, <3>2, SMTT(30) DEF StaysPut
  <2>5. CASE StaysPut /\ faulted
    BY <1>0, <2>3, <2>5 DEF StaysPut
  <2> QED
    BY <2>1, <2>3, <2>4, <2>5, ZenonT(30)
<1> QED
  BY <1>1, <1>2, <1>3, ZenonT(30)

-----------------------------------------------------------------------------
(* The inductive invariant of the timeline: with stamps that never regress  *)
(* IndInv holds, whatever else goes wrong (bridge.py state(), actor.go      *)
(* observe).                                                                *)
THEOREM TimelineInvariant ==
    ASSUME "regressedStamp" \notin Anomalies
    PROVE  Spec => []IndInv
<1>1. Init => IndInv
  BY CoreInvInit, TimelineInit DEF IndInv, OnTimeline
<1>2. IndInv /\ [Next]_vars => IndInv'
  BY CoreInvNext, TimelineNext DEF IndInv, OnTimeline
<1> QED
  BY <1>1, <1>2, PTL DEF Spec

(* The session never believes something the target has not done, although   *)
(* a sample is four reads of a moving target.                               *)
THEOREM SessionNeverAhead ==
    ASSUME "regressedStamp" \notin Anomalies
    PROVE  Spec => []NeverAhead
<1>1. IndInv => NeverAhead
  BY DEF IndInv
<1> QED
  BY <1>1, TimelineInvariant, PTL

(* Accepted samples never move the session or its epochs back.              *)
THEOREM SessionNeverBackwards ==
    ASSUME "regressedStamp" \notin Anomalies
    PROVE  Spec => NeverBackwards
<1> DEFINE Forward == ~faulted' => /\ SessionPosition' >= SessionPosition
                                   /\ red'.exec >= red.exec
                                   /\ red'.stopEpoch >= red.stopEpoch
<1>1. IndInv /\ [Next]_vars => Forward
  <2> SUFFICES ASSUME IndInv, [Next]_vars PROVE Forward
    OBVIOUS
  <2>1. /\ SessionPosition \in Nat /\ TargetPosition \in Nat
        /\ red.exec \in Nat /\ red.stopEpoch \in Nat
    BY PositionTypes DEF IndInv, CoreInv, TypeOK, Reducer
  <2>2. \/ UNCHANGED <<SessionPosition, faulted, red>>
        \/ faulted' = TRUE
        \/ /\ SessionPosition' \in SessionPosition..TargetPosition
           /\ red'.exec >= red.exec /\ red'.stopEpoch >= red.stopEpoch
    BY TimelineStep, Zenon DEF IndInv, OnTimeline
  <2>3. CASE UNCHANGED <<SessionPosition, faulted, red>>
    BY <2>1, <2>3
  <2>4. CASE faulted' = TRUE
    BY <2>4
  <2>5. CASE /\ SessionPosition' \in SessionPosition..TargetPosition
             /\ red'.exec >= red.exec /\ red'.stopEpoch >= red.stopEpoch
    BY <2>1, <2>5
  <2> QED
    BY <2>2, <2>3, <2>4, <2>5
<1>2. IndInv /\ [Next]_vars => [Forward]_vars
  BY <1>1
<1> QED
  BY <1>2, TimelineInvariant, PTL DEF Spec, NeverBackwards

(* The session core implements the abstract view of the target's timeline.  *)
THEOREM CoreImplementsTimeline ==
    ASSUME "regressedStamp" \notin Anomalies
    PROVE  Spec => ImplementsTimeline
<1> DEFINE view == IF faulted THEN -1 ELSE SessionPosition
<1>1. Init => Timeline!Init
  <2> SUFFICES ASSUME Init PROVE Timeline!Init
    OBVIOUS
  <2>1. TypeOK
    BY CoreInvInit DEF CoreInv
  <2>2. SessionPosition = 0 /\ ~faulted
    BY DEF Init, NewArbiter, SessionPosition
  <2> QED
    BY <2>1, <2>2, PositionTypes DEF Timeline!Init
<1>2. IndInv /\ [Next]_vars => [Timeline!Next]_<<TargetPosition, view>>
  <2> SUFFICES ASSUME IndInv, [Next]_vars
               PROVE  [Timeline!Next]_<<TargetPosition, view>>
    OBVIOUS
  <2>1. SessionPosition \in Nat /\ TargetPosition \in Nat /\ faulted \in BOOLEAN
    BY PositionTypes DEF IndInv, CoreInv, TypeOK
  <2>2. CASE TargetPosition' = TargetPosition + 1 /\ UNCHANGED <<SessionPosition, faulted, red>>
    BY <2>2 DEF Timeline!Next, Timeline!TargetMoves
  <2>3. CASE faulted' = TRUE /\ TargetPosition' = TargetPosition
    BY <2>3 DEF Timeline!Next, Timeline!Lose, Timeline!Lost
  <2>4. CASE /\ ~faulted /\ ~faulted' /\ TargetPosition' = TargetPosition
             /\ SessionPosition' \in SessionPosition..TargetPosition
    BY <2>1, <2>4, SMTT(30) DEF Timeline!Next, Timeline!Look, Timeline!Lost
  <2> QED
    BY <2>2, <2>3, <2>4, TimelineStep, ZenonT(30) DEF IndInv, OnTimeline
<1> QED
  BY <1>1, <1>2, TimelineInvariant, PTL DEF Spec, ImplementsTimeline, Timeline!Spec
=============================================================================
