-------------------------- MODULE SessionCoreLemmas --------------------------
(***************************************************************************)
(* Lemmas about the pieces of SessionCore: what one sample does to the      *)
(* reducer and to the arbiter, and what startNext does to the work queue.   *)
(***************************************************************************)
EXTENDS SessionCore, SequenceTheorems, TLAPS

-----------------------------------------------------------------------------
(* The reducer.                                                             *)

(* q is the reducer r moved to state st and stop epoch epoch.               *)
Moved(q, r, st, epoch) ==
    /\ q \in Reducer
    /\ q.state = st
    /\ q.stopEpoch = epoch
    /\ q.exec >= r.exec
    /\ q.lastStamp = r.lastStamp
    /\ q.hasStamp = r.hasStamp

(* The assignments of an observation branch keep the record well-typed.     *)
LEMMA AtMoves ==
    ASSUME NEW r \in Reducer, NEW st \in TargetStates, NEW k \in Nat, NEW epoch \in Nat
    PROVE  /\ Moved(At(r, st, k, epoch), r, st, epoch)
           /\ At(r, st, k, epoch).hasStop = r.hasStop
<1>1. r.exec + k \in Nat /\ r.exec + k >= r.exec
  BY DEF Reducer
<1>2. At(r, st, k, epoch) \in Reducer
  BY <1>1, Zenon DEF At, Reducer
<1> QED
  BY <1>1, <1>2 DEF At, Reducer, Moved

(* What observeStopped leaves behind when the state was unknown. *)
LEMMA FirstStopMoves ==
    ASSUME NEW r \in Reducer, NEW stamp \in Nat
    PROVE  /\ Moved(FirstStop(r, stamp), r, "stopped", stamp)
           /\ FirstStop(r, stamp).hasStop
<1> DEFINE q == At(r, "stopped", 0, stamp)
<1>1. Moved(q, r, "stopped", stamp)
  BY AtMoves DEF TargetStates
<1>2. FirstStop(r, stamp) = [q EXCEPT !.hasStop = TRUE]
  BY DEF FirstStop
<1> HIDE DEF q
<1> QED
  BY <1>1, <1>2, Zenon DEF Moved, Reducer

(* acceptStopStamp records the stamp of the sample, if it has one, and nothing else. *)
LEMMA NoteStampType ==
    ASSUME NEW r \in Reducer, NEW ob \in Observation
    PROVE  /\ NoteStamp(r, ob) \in Reducer
           /\ NoteStamp(r, ob).state = r.state
           /\ NoteStamp(r, ob).exec = r.exec
           /\ NoteStamp(r, ob).stopEpoch = r.stopEpoch
           /\ NoteStamp(r, ob).hasStop = r.hasStop
           /\ ob.hasStamp => NoteStamp(r, ob).lastStamp = ob.stamp /\ NoteStamp(r, ob).hasStamp
           /\ ~ob.hasStamp => NoteStamp(r, ob) = r
<1>1. CASE ob.hasStamp
  <2>1. NoteStamp(r, ob) = [r EXCEPT !.lastStamp = ob.stamp, !.hasStamp = TRUE]
    BY <1>1 DEF NoteStamp
  <2>2. [r EXCEPT !.lastStamp = ob.stamp, !.hasStamp = TRUE] \in Reducer
    BY Zenon DEF Reducer, Observation
  <2> QED
    BY <1>1, <2>1, <2>2 DEF Reducer
<1>2. CASE ~ob.hasStamp
  BY <1>2 DEF NoteStamp
<1> QED
  BY <1>1, <1>2

(* A running sample is always accepted.                                     *)
LEMMA ReducerRunningStep ==
    ASSUME NEW r \in Reducer, NEW stamp \in Nat
    PROVE  LET v == ReducerRunning(r, stamp)
           IN  /\ v.ok = TRUE
               /\ Moved(v.red, r, "running", v.red.stopEpoch)
               /\ v.red.hasStop = r.hasStop
<1> DEFINE v == ReducerRunning(r, stamp)
<1>1. "running" \in TargetStates /\ 0 \in Nat /\ 1 \in Nat /\ 2 \in Nat /\ r.stopEpoch \in Nat
  BY DEF TargetStates, Reducer
<1>2. \/ v = Publish(At(r, "running", 1, stamp), <<"invalidate", "resumed">>)
      \/ v = Publish(At(r, "running", 1, stamp), <<"suspended", "resumed">>)
      \/ v = Publish(At(r, "running", 2, stamp),
                     <<"invalidate", "resumed", "suspended", "resumed">>)
      \/ v = Result(At(r, "running", 0, r.stopEpoch), <<>>, TRUE)
  BY Zenon DEF ReducerRunning
<1>3. /\ v.ok = TRUE
      /\ \/ v.red = At(r, "running", 1, stamp)
         \/ v.red = At(r, "running", 2, stamp)
         \/ v.red = At(r, "running", 0, r.stopEpoch)
  BY <1>2 DEF Publish, Result
<1>4. ASSUME NEW k \in Nat, NEW epoch \in Nat
      PROVE  /\ Moved(At(r, "running", k, epoch), r, "running", epoch)
             /\ At(r, "running", k, epoch).hasStop = r.hasStop
  BY <1>1, AtMoves
<1> HIDE DEF v
<1>5. Moved(v.red, r, "running", v.red.stopEpoch) /\ v.red.hasStop = r.hasStop
  BY <1>1, <1>3, <1>4 DEF Moved
<1> QED
  BY <1>3, <1>5 DEF v

(* A stopped sample faults the reducer only when a running target stopped   *)
(* without a new stamp.                                                     *)
LEMMA ReducerStoppedStep ==
    ASSUME NEW r \in Reducer, NEW stamp \in Nat
    PROVE  LET v == ReducerStopped(r, stamp)
           IN  /\ v.red \in Reducer
               /\ v.ok => Moved(v.red, r, "stopped", stamp) /\ v.red.hasStop
<1> DEFINE v == ReducerStopped(r, stamp)
<1>1. /\ "stopped" \in TargetStates /\ "faulted" \in TargetStates
      /\ 0 \in Nat /\ 1 \in Nat /\ r.stopEpoch \in Nat
  BY DEF TargetStates, Reducer
<1>2. \/ v = Publish(FirstStop(r, stamp), <<"suspended">>)
      \/ v = Fault(r)
      \/ r.hasStop /\ v = Publish(At(r, "stopped", 0, stamp), <<"suspended">>)
      \/ r.hasStop /\ v = Result(At(r, "stopped", 0, stamp), <<>>, TRUE)
      \/ r.hasStop /\ v = Publish(At(r, "stopped", 1, stamp),
                                  <<"invalidate", "resumed", "suspended">>)
  BY Zenon DEF ReducerStopped
<1>3. \/ v.red = FirstStop(r, stamp)
      \/ v.red = At(r, "faulted", 0, r.stopEpoch) /\ v.ok = FALSE
      \/ r.hasStop /\ v.red = At(r, "stopped", 0, stamp)
      \/ r.hasStop /\ v.red = At(r, "stopped", 1, stamp)
  BY <1>2 DEF Publish, Result, Fault
<1>4. /\ Moved(At(r, "stopped", 0, stamp), r, "stopped", stamp)
      /\ At(r, "stopped", 0, stamp).hasStop = r.hasStop
      /\ Moved(At(r, "stopped", 1, stamp), r, "stopped", stamp)
      /\ At(r, "stopped", 1, stamp).hasStop = r.hasStop
      /\ Moved(At(r, "faulted", 0, r.stopEpoch), r, "faulted", r.stopEpoch)
      /\ Moved(FirstStop(r, stamp), r, "stopped", stamp)
      /\ FirstStop(r, stamp).hasStop
  BY <1>1, AtMoves, FirstStopMoves
<1> HIDE DEF v
<1>5. v.red \in Reducer /\ (v.ok => Moved(v.red, r, "stopped", stamp) /\ v.red.hasStop)
  BY <1>3, <1>4 DEF Moved
<1> QED
  BY <1>5 DEF v

(* The reducer's verdict on any sample: the record stays well-typed, and an *)
(* accepted sample leaves the state and the stamp it shows.                 *)
LEMMA ReducerObserveStep ==
    ASSUME NEW r \in Reducer, NEW ob \in Observation
    PROVE  LET v == ReducerObserve(r, ob)
           IN  /\ v.red \in Reducer
               /\ v.ok =>
                    /\ r.state # "faulted" /\ AcceptsStamp(r, ob)
                    /\ v.red.exec >= r.exec
                    /\ ob.status = "unknown" => v.red = NoteStamp(r, ob)
                    /\ ob.status # "unknown" =>
                         /\ v.red.state = ob.status
                         /\ v.red.hasStamp /\ v.red.lastStamp = ob.stamp
                         /\ v.red.hasStop <=> (r.hasStop \/ ob.status = "stopped")
<1> DEFINE v == ReducerObserve(r, ob)
<1>1. CASE r.state = "faulted"
  <2>1. v.red = r /\ v.ok = FALSE
    BY <1>1 DEF ReducerObserve, Result
  <2> QED
    BY <2>1
<1>2. CASE r.state # "faulted" /\ ~AcceptsStamp(r, ob)
  <2>1. v.red = At(r, "faulted", 0, r.stopEpoch) /\ v.ok = FALSE
    BY <1>2 DEF ReducerObserve, Fault, Result
  <2>2. At(r, "faulted", 0, r.stopEpoch) \in Reducer
    <3>1. r.stopEpoch \in Nat /\ 0 \in Nat /\ "faulted" \in TargetStates
      BY DEF Reducer, TargetStates
    <3> QED
      BY <3>1, AtMoves, Zenon DEF Moved
  <2> QED
    BY <2>1, <2>2
<1>3. CASE r.state # "faulted" /\ AcceptsStamp(r, ob)
  <2> DEFINE n == NoteStamp(r, ob)
  <2>1. n \in Reducer /\ ob.stamp \in Nat /\ n.exec = r.exec
    BY NoteStampType DEF Observation
  <2>2. ob.status # "unknown" => n.hasStamp /\ n.lastStamp = ob.stamp /\ n.hasStop = r.hasStop
    BY <1>3, NoteStampType DEF AcceptsStamp
  <2>3. CASE ob.status = "unknown"
    <3>1. v.red = n
      BY <1>3, <2>3 DEF ReducerObserve, Result
    <3>2. n.exec >= r.exec
      BY <2>1 DEF Reducer
    <3> QED
      BY <1>3, <2>1, <2>3, <3>1, <3>2
  <2>4. CASE ob.status = "stopped"
    <3>1. v = ReducerStopped(n, ob.stamp)
      BY <1>3, <2>4 DEF ReducerObserve
    <3> HIDE DEF n
    <3>2. v.red \in Reducer /\ (v.ok => Moved(v.red, n, "stopped", ob.stamp) /\ v.red.hasStop)
      BY <2>1, <3>1, ReducerStoppedStep
    <3> QED
      BY <1>3, <2>1, <2>2, <2>4, <3>2 DEF Moved
  <2>5. CASE ob.status = "running"
    <3>1. v = ReducerRunning(n, ob.stamp)
      BY <1>3, <2>5 DEF ReducerObserve
    <3> HIDE DEF n
    <3>2. Moved(v.red, n, "running", v.red.stopEpoch) /\ v.red.hasStop = n.hasStop
      BY <2>1, <3>1, ReducerRunningStep, ZenonT(30)
    <3>3. v.red.hasStop = r.hasStop /\ v.red.exec >= r.exec
      BY <2>1, <2>2, <2>5, <3>2 DEF Moved
    <3>4. v.red.state = "running" /\ v.red.hasStamp /\ v.red.lastStamp = ob.stamp
      BY <2>2, <2>5, <3>2 DEF Moved
    <3>5. v.red \in Reducer
      BY <3>2 DEF Moved
    <3> QED
      BY <1>3, <2>5, <3>3, <3>4, <3>5
  <2> QED
    BY <2>3, <2>4, <2>5 DEF Observation
<1> QED
  BY <1>1, <1>2, <1>3

-----------------------------------------------------------------------------
(* The arbiter.                                                             *)

(* b is the arbiter a moved to state st, still accepting samples.           *)
ArbMoved(b, a, st) ==
    /\ b \in Arbiter
    /\ b.state = st
    /\ b.lastStamp = a.lastStamp
    /\ ~b.faulted
    /\ b.exec >= a.exec

(* b also records the stop at stamp.                                        *)
AtStop(b, stamp) == b.hasStop /\ b.stopEpoch = stamp

(* Recording a sample's stamp keeps the arbiter's type. *)
LEMMA SeenType ==
    ASSUME NEW a \in Arbiter, NEW stamp \in Nat
    PROVE  /\ Seen(a, stamp) \in Arbiter
           /\ Seen(a, stamp).lastStamp = stamp
           /\ Seen(a, stamp).state = a.state /\ Seen(a, stamp).hasStop = a.hasStop
           /\ Seen(a, stamp).stopEpoch = a.stopEpoch /\ Seen(a, stamp).exec = a.exec
           /\ Seen(a, stamp).faulted = a.faulted
BY DEF Seen, Arbiter

(* observeRunning of the arbiter, field by field. *)
LEMMA NowRunningMoves ==
    ASSUME NEW a \in Arbiter, ~a.faulted
    PROVE  /\ ArbMoved(NowRunning(a), a, "running")
           /\ NowRunning(a).hasStop = a.hasStop /\ NowRunning(a).stopEpoch = a.stopEpoch
<1>1. NowRunning(a) \in Arbiter
  BY Zenon DEF NowRunning, Arbiter
<1> QED
  BY <1>1 DEF NowRunning, Arbiter, ArbMoved

(* observeStopped of the arbiter, field by field. *)
LEMMA NowStoppedMoves ==
    ASSUME NEW a \in Arbiter, ~a.faulted
    PROVE  /\ ArbMoved(NowStopped(a), a, "stopped")
           /\ NowStopped(a).hasStop = a.hasStop /\ NowStopped(a).stopEpoch = a.stopEpoch
BY DEF NowStopped, Arbiter, ArbMoved

(* Advancing the execution epoch keeps the state and the stop of a move. *)
LEMMA AdvanceMoves ==
    ASSUME NEW a \in Arbiter, NEW b, NEW st, ArbMoved(b, a, st)
    PROVE  /\ ArbMoved(Advance(b), a, st)
           /\ Advance(b).hasStop = b.hasStop /\ Advance(b).stopEpoch = b.stopEpoch
BY DEF Advance, Arbiter, ArbMoved

(* Reporting a stop leaves the arbiter at it, in the state of the move. *)
LEMMA TakeStopMoves ==
    ASSUME NEW a \in Arbiter, NEW b, NEW st, ArbMoved(b, a, st), NEW stamp \in Nat
    PROVE  ArbMoved(TakeStop(b, stamp), a, st) /\ AtStop(TakeStop(b, stamp), stamp)
<1>1. b \in Arbiter
  BY DEF ArbMoved
<1>2. TakeStop(b, stamp) \in Arbiter
  BY <1>1, Zenon DEF TakeStop, Arbiter
<1> QED
  BY <1>1, <1>2 DEF TakeStop, Arbiter, ArbMoved, AtStop

(* Discarding hints keeps the state and the stop of a move. *)
LEMMA DiscardMoves ==
    ASSUME NEW a \in Arbiter, NEW b, NEW st, ArbMoved(b, a, st), NEW stamp \in Nat
    PROVE  /\ ArbMoved(DiscardHintsAt(b, stamp), a, st)
           /\ DiscardHintsAt(b, stamp).hasStop = b.hasStop
           /\ DiscardHintsAt(b, stamp).stopEpoch = b.stopEpoch
BY DEF DiscardHintsAt, Arbiter, ArbMoved

(* Stopped yields a well-formed effect.                                     *)
LEMMA StoppedType ==
    ASSUME NEW a \in Arbiter, NEW stamp \in Nat, NEW info
    PROVE  Stopped(a, stamp, info) \in Effect /\ Stopped(a, stamp, info).kind = "stopped"
<1>1. HitsFor(a, stamp) \in SUBSET Nat
  BY DEF HitsFor, Arbiter
<1>2. Classify(info, HitsFor(a, stamp) # {}) \in Reasons
  BY DEF Classify, Reasons
<1>3. a.exec \in Nat
  BY DEF Arbiter
<1> QED
  BY <1>1, <1>2, <1>3 DEF Stopped, StopEffect, Effect

(* A verdict that accepted the sample and left arbiter b.                   *)
Emits(v, b) == v.arb = b /\ v.ok = TRUE /\ v.effects \in Seq(Effect)

(* The two effects without data are effects. *)
LEMMA EffectTypes == Invalidate \in Effect /\ Continued \in Effect
BY DEF Effect

(* A verdict without effects is a well-formed verdict. *)
LEMMA EmitNothing ==
    ASSUME NEW b
    PROVE  Emits(Emit(b, <<>>), b) /\ Emit(b, <<>>).effects = <<>>
BY DEF Emit, Emits

(* A stop/run cycle missed between two running samples invalidates and leaves the arbiter running, past that stop. *)
LEMMA RunningCycleStep ==
    ASSUME NEW a \in Arbiter, NEW b, ArbMoved(b, a, "running"), NEW stamp \in Nat, NEW info
    PROVE  LET v == RunningCycle(b, stamp, info)
           IN  /\ Emits(v, v.arb) /\ Invalidates(v.effects)
               /\ ArbMoved(v.arb, a, "running") /\ AtStop(v.arb, stamp)
<1> DEFINE v == RunningCycle(b, stamp, info)
           one == Advance(b)
           two == TakeStop(one, stamp)
           three == Advance(two)
           effs == <<Invalidate, Stopped(one, stamp, info), Continued>>
<1>1. ArbMoved(one, a, "running")
  BY AdvanceMoves
<1>2. ArbMoved(two, a, "running") /\ AtStop(two, stamp)
  BY <1>1, TakeStopMoves
<1>3. ArbMoved(three, a, "running") /\ AtStop(three, stamp)
  BY <1>2, AdvanceMoves DEF AtStop
<1>4. effs \in Seq(Effect) /\ Invalidates(effs)
  <2>1. Stopped(one, stamp, info) \in Effect
    BY <1>1, StoppedType DEF ArbMoved
  <2>2. effs[1] = Invalidate /\ effs # <<>>
    OBVIOUS
  <2> QED
    BY <2>1, <2>2, EffectTypes DEF Invalidates, Invalidate
<1>5. v = [arb |-> three, effects |-> effs, ok |-> TRUE]
  BY DEF RunningCycle, Emit
<1> QED
  BY <1>3, <1>4, <1>5 DEF Emits

(* A run/stop cycle missed between two stopped samples invalidates and leaves the arbiter at the new stop. *)
LEMMA StoppedCycleStep ==
    ASSUME NEW a \in Arbiter, NEW b, ArbMoved(b, a, "stopped"), NEW stamp \in Nat, NEW info
    PROVE  LET v == StoppedCycle(b, stamp, info)
           IN  /\ Emits(v, v.arb) /\ Invalidates(v.effects)
               /\ ArbMoved(v.arb, a, "stopped") /\ AtStop(v.arb, stamp)
<1> DEFINE v == StoppedCycle(b, stamp, info)
           one == Advance(b)
           two == TakeStop(one, stamp)
           effs == <<Invalidate, Continued, Stopped(one, stamp, info)>>
<1>1. ArbMoved(one, a, "stopped")
  BY AdvanceMoves
<1>2. ArbMoved(two, a, "stopped") /\ AtStop(two, stamp)
  BY <1>1, TakeStopMoves
<1>3. effs \in Seq(Effect) /\ Invalidates(effs)
  <2>1. Stopped(one, stamp, info) \in Effect
    BY <1>1, StoppedType DEF ArbMoved
  <2>2. effs[1] = Invalidate /\ effs # <<>>
    OBVIOUS
  <2> QED
    BY <2>1, <2>2, EffectTypes DEF Invalidates, Invalidate
<1>4. v = [arb |-> two, effects |-> effs, ok |-> TRUE]
  BY DEF StoppedCycle, Emit
<1> QED
  BY <1>2, <1>3, <1>4 DEF Emits

(* A stop after running, or the first one, leaves the arbiter at it. *)
LEMMA NewStopStep ==
    ASSUME NEW a \in Arbiter, NEW b, ArbMoved(b, a, "stopped"), NEW stamp \in Nat, NEW info
    PROVE  LET v == NewStop(b, stamp, info)
           IN  Emits(v, v.arb) /\ ArbMoved(v.arb, a, "stopped") /\ AtStop(v.arb, stamp)
<1> DEFINE v == NewStop(b, stamp, info)
<1>1. ArbMoved(TakeStop(b, stamp), a, "stopped") /\ AtStop(TakeStop(b, stamp), stamp)
  BY TakeStopMoves
<1>2. <<Stopped(b, stamp, info)>> \in Seq(Effect)
  <2>1. Stopped(b, stamp, info) \in Effect
    BY StoppedType DEF ArbMoved
  <2> QED
    BY <2>1
<1>3. v = [arb |-> TakeStop(b, stamp), effects |-> <<Stopped(b, stamp, info)>>, ok |-> TRUE]
  BY DEF NewStop, Emit
<1> QED
  BY <1>1, <1>2, <1>3 DEF Emits

(* A running sample is always accepted and, from a stop, always invalidates *)
(* the suspended references.                                                *)
LEMMA ArbiterRunningStep ==
    ASSUME NEW a \in Arbiter, ~a.faulted, NEW stamp \in Nat, NEW info
    PROVE  LET v == ArbiterRunning(a, stamp, info)
           IN  /\ Emits(v, v.arb)
               /\ ArbMoved(v.arb, a, "running")
               /\ v.arb.hasStop = a.hasStop
               /\ a.hasStop /\ a.state \in {"stopped", "running"} => v.arb.stopEpoch = stamp
               /\ a.hasStop /\ a.state = "stopped" => Invalidates(v.effects)
<1> DEFINE v == ArbiterRunning(a, stamp, info)
           now == NowRunning(a)
<1>1. ArbMoved(now, a, "running") /\ now.hasStop = a.hasStop /\ now.stopEpoch = a.stopEpoch
  BY NowRunningMoves
<1> HIDE DEF now
<1>2. CASE ~a.hasStop
  <2>1. v = Emit(now, <<>>)
    BY <1>2 DEF ArbiterRunning, now
  <2> QED
    BY <1>1, <1>2, <2>1, EmitNothing, Zenon DEF Emits
<1>3. CASE a.hasStop /\ a.state = "stopped" /\ stamp = a.stopEpoch
  <2>1. v = Emit(Advance(now), <<Invalidate, Continued>>)
    BY <1>3 DEF ArbiterRunning, now, CurrentStopEpoch
  <2>2. /\ ArbMoved(Advance(now), a, "running")
        /\ Advance(now).hasStop = now.hasStop /\ Advance(now).stopEpoch = now.stopEpoch
    BY <1>1, AdvanceMoves
  <2>3. <<Invalidate, Continued>> \in Seq(Effect) /\ Invalidates(<<Invalidate, Continued>>)
    BY EffectTypes DEF Invalidates, Invalidate
  <2>4. /\ v.arb = Advance(now) /\ v.effects = <<Invalidate, Continued>>
        /\ Emits(v, v.arb)
    BY <2>1, <2>3 DEF Emit, Emits
  <2> QED
    BY <1>1, <1>3, <2>2, <2>3, <2>4, Zenon
<1>4. CASE a.hasStop /\ a.state \in {"stopped", "running"} /\ stamp # a.stopEpoch
  <2>1. v = RunningCycle(now, stamp, info)
    BY <1>4 DEF ArbiterRunning, now, CurrentStopEpoch
  <2>2. /\ Emits(v, v.arb) /\ Invalidates(v.effects)
        /\ ArbMoved(v.arb, a, "running") /\ AtStop(v.arb, stamp)
    BY <1>1, <2>1, RunningCycleStep
  <2>3. v.arb.hasStop = a.hasStop
    BY <1>4, <2>2 DEF AtStop, ArbMoved, Arbiter
  <2> QED
    BY <2>2, <2>3, Zenon DEF AtStop
<1>5. CASE a.hasStop /\ a.state # "stopped" /\ (a.state = "running" => stamp = a.stopEpoch)
  <2>1. v = Emit(now, <<>>)
    BY <1>5 DEF ArbiterRunning, now, CurrentStopEpoch
  <2> QED
    BY <1>1, <1>5, <2>1, EmitNothing, ZenonT(60) DEF Emits
<1> QED
  BY <1>2, <1>3, <1>4, <1>5

(* A stopped sample is accepted unless a running target stopped without a   *)
(* new stamp; without an invalidation a known stop stays the same stop.     *)
LEMMA ArbiterStoppedStep ==
    ASSUME NEW a \in Arbiter, ~a.faulted, NEW stamp \in Nat, NEW info
    PROVE  LET v == ArbiterStopped(a, stamp, info)
           IN  /\ v.arb \in Arbiter /\ v.effects \in Seq(Effect)
               /\ v.ok => /\ ArbMoved(v.arb, a, "stopped") /\ AtStop(v.arb, stamp)
                          /\ a.hasStop /\ a.state = "stopped" /\ ~Invalidates(v.effects) =>
                                stamp = a.stopEpoch
<1> DEFINE v == ArbiterStopped(a, stamp, info)
           now == NowStopped(a)
<1>1. ArbMoved(now, a, "stopped") /\ now.hasStop = a.hasStop /\ now.stopEpoch = a.stopEpoch
  BY NowStoppedMoves
<1>2. now \in Arbiter
  BY <1>1 DEF ArbMoved
<1>3. a.state \in {"unknown", "stopped", "running"}
  BY DEF Arbiter
<1> HIDE DEF now
<1>4. CASE ~a.hasStop \/ (a.state = "running" /\ stamp # a.stopEpoch)
  <2>1. v = NewStop(now, stamp, info)
    BY <1>4 DEF ArbiterStopped, now, CurrentStopEpoch
  <2>2. Emits(v, v.arb) /\ ArbMoved(v.arb, a, "stopped") /\ AtStop(v.arb, stamp)
    BY <1>1, <2>1, NewStopStep
  <2> QED
    BY <1>4, <2>2 DEF Emits, ArbMoved
<1>5. CASE a.hasStop /\ a.state = "stopped" /\ stamp = a.stopEpoch
  <2>1. v = Emit(DiscardHintsAt(now, stamp), <<>>)
    BY <1>5 DEF ArbiterStopped, now, CurrentStopEpoch
  <2>2. /\ ArbMoved(DiscardHintsAt(now, stamp), a, "stopped")
        /\ AtStop(DiscardHintsAt(now, stamp), stamp)
    BY <1>1, <1>5, DiscardMoves, ZenonT(60) DEF AtStop
  <2> QED
    BY <1>5, <2>1, <2>2, EmitNothing, ZenonT(30) DEF Emits, ArbMoved
<1>6. CASE a.hasStop /\ a.state = "running" /\ stamp = a.stopEpoch
  <2>1. v = ArbiterFault(now)
    BY <1>6 DEF ArbiterStopped, now, CurrentStopEpoch
  <2>2. [now EXCEPT !.faulted = TRUE] \in Arbiter
    BY <1>2, Zenon DEF Arbiter
  <2> QED
    BY <2>1, <2>2 DEF ArbiterFault
<1>7. CASE a.hasStop /\ a.state = "unknown" /\ stamp = a.stopEpoch
  <2>1. v = Emit(now, <<>>)
    BY <1>7 DEF ArbiterStopped, now, CurrentStopEpoch
  <2> QED
    BY <1>1, <1>2, <1>7, <2>1, EmitNothing, ZenonT(30) DEF Emits, AtStop
<1>8. CASE a.hasStop /\ a.state # "running" /\ stamp # a.stopEpoch
  <2>1. v = StoppedCycle(now, stamp, info)
    BY <1>3, <1>8 DEF ArbiterStopped, now, CurrentStopEpoch
  <2>2. /\ Emits(v, v.arb) /\ Invalidates(v.effects)
        /\ ArbMoved(v.arb, a, "stopped") /\ AtStop(v.arb, stamp)
    BY <1>1, <2>1, StoppedCycleStep, SMTT(30)
  <2> QED
    BY <2>2 DEF Emits, ArbMoved
<1> QED
  BY <1>3, <1>4, <1>5, <1>6, <1>7, <1>8

(* What an accepted sample other than an unknown one establishes.           *)
Follows(b, a, ob) ==
    /\ ArbMoved(b, Seen(a, ob.stamp), ob.status)
    /\ ob.hasStamp /\ (a.hasStop => ob.stamp >= a.lastStamp)
    /\ b.hasStop <=> (a.hasStop \/ ob.status = "stopped")
    /\ b.hasStop /\ (a.hasStop => a.state # "unknown") => b.stopEpoch = ob.stamp

(* The arbiter's verdict on any sample.  When it publishes no invalidation  *)
(* during a stop, the session is still in that stop.                        *)
LEMMA ArbiterObserveStep ==
    ASSUME NEW a \in Arbiter, NEW ob \in Observation, NEW info
    PROVE  LET v == ArbiterObserve(a, ob, info)
           IN  /\ v.arb \in Arbiter
               /\ v.effects \in Seq(Effect)
               /\ v.ok =>
                    /\ ~a.faulted /\ ~v.arb.faulted
                    /\ ob.status = "unknown" => v.arb = a
                    /\ ob.status # "unknown" => Follows(v.arb, a, ob)
                    /\ a.hasStop /\ a.state = "stopped" /\ ~Invalidates(v.effects) =>
                         v.arb.state = "stopped" /\ AtStop(v.arb, a.stopEpoch)
<1> DEFINE v == ArbiterObserve(a, ob, info)
           s == Seen(a, ob.stamp)
<1>0. ob.stamp \in Nat /\ ob.status \in {"unknown", "stopped", "running"}
  BY DEF Observation
<1>1. CASE a.faulted
  <2>1. v = [arb |-> a, effects |-> <<>>, ok |-> FALSE]
    BY <1>1 DEF ArbiterObserve
  <2> QED
    BY <2>1
<1>2. CASE ~a.faulted /\ ob.status = "unknown"
  <2>1. v = Emit(a, <<>>)
    BY <1>2 DEF ArbiterObserve
  <2> QED
    BY <1>2, <2>1, EmitNothing, ZenonT(30) DEF Emits, AtStop
<1>3. CASE ~a.faulted /\ ob.status # "unknown" /\ (~ob.hasStamp \/ (a.hasStop /\ ob.stamp < a.lastStamp))
  <2>1. v = ArbiterFault(a)
    BY <1>3 DEF ArbiterObserve
  <2>2. [a EXCEPT !.faulted = TRUE] \in Arbiter
    BY ZenonT(30) DEF Arbiter
  <2> QED
    BY <2>1, <2>2 DEF ArbiterFault
<1>4. CASE ~a.faulted /\ ob.status # "unknown" /\ ob.hasStamp /\ (a.hasStop => ob.stamp >= a.lastStamp)
  <2>1. ~(~ob.hasStamp \/ (a.hasStop /\ ob.stamp < a.lastStamp))
    BY <1>0, <1>4 DEF Arbiter
  <2>2. /\ s \in Arbiter /\ ~s.faulted /\ s.state = a.state /\ s.hasStop = a.hasStop
        /\ s.stopEpoch = a.stopEpoch
    BY <1>0, <1>4, SeenType
  <2>3. a.state \in {"unknown", "stopped", "running"}
    BY DEF Arbiter
  <2>4. CASE ob.status = "running"
    <3>1. v = ArbiterRunning(s, ob.stamp, info)
      BY <1>4, <2>1, <2>4 DEF ArbiterObserve
    <3> HIDE DEF s
    <3>2. /\ Emits(v, v.arb)
          /\ ArbMoved(v.arb, s, "running")
          /\ v.arb.hasStop = s.hasStop
          /\ s.hasStop /\ s.state \in {"stopped", "running"} => v.arb.stopEpoch = ob.stamp
          /\ s.hasStop /\ s.state = "stopped" => Invalidates(v.effects)
      BY <1>0, <2>2, <3>1, ArbiterRunningStep, SMTT(60)
    <3>3. Follows(v.arb, a, ob)
      BY <1>4, <2>2, <2>3, <2>4, <3>2, SMTT(30) DEF Follows, s
    <3> QED
      BY <1>4, <2>2, <2>4, <3>2, <3>3 DEF Emits, ArbMoved
  <2>5. CASE ob.status = "stopped"
    <3>1. v = ArbiterStopped(s, ob.stamp, info)
      BY <1>4, <2>1, <2>5, SMTT(30) DEF ArbiterObserve
    <3> HIDE DEF s
    <3>2. /\ v.arb \in Arbiter /\ v.effects \in Seq(Effect)
          /\ v.ok => /\ ArbMoved(v.arb, s, "stopped") /\ AtStop(v.arb, ob.stamp)
                     /\ s.hasStop /\ s.state = "stopped" /\ ~Invalidates(v.effects) =>
                           ob.stamp = s.stopEpoch
      BY <1>0, <2>2, <3>1, ArbiterStoppedStep, SMTT(30)
    <3>3. v.ok => Follows(v.arb, a, ob)
      BY <1>4, <2>2, <2>5, <3>2 DEF Follows, AtStop, s
    <3> QED
      BY <1>4, <2>2, <2>5, <3>2, <3>3 DEF ArbMoved
  <2> QED
    BY <1>0, <1>4, <2>4, <2>5
<1>5. ob.hasStamp /\ ~(a.hasStop /\ ob.stamp < a.lastStamp) =>
        ob.hasStamp /\ (a.hasStop => ob.stamp >= a.lastStamp)
  BY <1>0 DEF Arbiter
<1> QED
  BY <1>1, <1>2, <1>3, <1>4, <1>5

(* Accepting a hint keeps the arbiter's type, state and epochs. *)
LEMMA NoteHintType ==
    ASSUME NEW a \in Arbiter, NEW token
    PROVE  LET b == NoteHint(a, Resolver, token)
           IN  /\ b \in Arbiter
               /\ b.state = a.state /\ b.hasStop = a.hasStop /\ b.stopEpoch = a.stopEpoch
               /\ b.exec = a.exec /\ b.faulted = a.faulted /\ b.lastStamp = a.lastStamp
<1>1. CASE HintAccepted(a, Resolver, token)
  <2>1. Resolver[token] \in Nat
    BY <1>1, BreakpointsAssumption DEF HintAccepted, Resolver
  <2>2. CurrentStopEpoch(a) \in Nat
    BY DEF CurrentStopEpoch, Arbiter
  <2>3. NoteHint(a, Resolver, token) =
          [a EXCEPT !.pending = a.pending \union {<<Resolver[token], CurrentStopEpoch(a)>>}]
    BY <1>1 DEF NoteHint
  <2> QED
    BY <2>1, <2>2, <2>3 DEF Arbiter
<1>2. CASE ~HintAccepted(a, Resolver, token)
  BY <1>2 DEF NoteHint
<1> QED
  BY <1>1, <1>2

-----------------------------------------------------------------------------
(* The work queue.                                                          *)

(* The constructors of work items yield work items. *)
LEMMA WorkTypes ==
    /\ Idle \in Work /\ Idle.kind = "idle"
    /\ StateWork \in Work /\ StateWork.kind = "state"
<1>1. Idle \in Work
  BY DEF Idle, Work
<1>2. StateWork \in Work
  BY <1>1, Zenon DEF StateWork, Work
<1> QED
  BY <1>1, <1>2 DEF Idle, StateWork

(* An inspection captured from a well-typed reducer is a work item. *)
LEMMA InspectionWorkType ==
    ASSUME NEW r \in Reducer
    PROVE  /\ InspectionWork(r) \in Work
           /\ InspectionWork(r).kind = "inspection"
<1>1. Idle \in Work
  BY WorkTypes
<1>2. r.stopEpoch \in Nat /\ (r.state = "stopped") \in BOOLEAN
  BY DEF Reducer
<1>3. ASSUME NEW e \in Nat, NEW b \in BOOLEAN
      PROVE  [Idle EXCEPT !.kind = "inspection", !.step = "run", !.stamp = e, !.stopped = b] \in Work
  BY <1>1, Zenon DEF Work
<1>4. InspectionWork(r) \in Work
  BY <1>2, <1>3, Zenon DEF InspectionWork
<1> QED
  BY <1>4 DEF InspectionWork, Idle

(* A well-typed queue of state samples not begun and of inspections.        *)
Queue(q) ==
    /\ q \in Seq(Work)
    /\ \A i \in DOMAIN q : q[i] = StateWork \/ q[i].kind = "inspection"

(* Appending a fresh work item to a queue yields a queue. *)
LEMMA QueueAppend ==
    ASSUME NEW q, Queue(q), NEW w \in Work, w = StateWork \/ w.kind = "inspection"
    PROVE  Queue(Append(q, w))
BY DEF Queue

(* Elements of a tail are elements of the sequence. *)
LEMMA SubSeqIndex ==
    ASSUME NEW S, NEW q \in Seq(S), NEW first \in 1..Len(q), NEW i \in 1..(Len(q) - first)
    PROVE  /\ SubSeq(q, first + 1, Len(q))[i] = q[first + i]
           /\ first + i \in 1..Len(q)
OBVIOUS

(* The rest of a queue is a queue. *)
LEMMA QueueTail ==
    ASSUME NEW q, Queue(q), NEW first \in DOMAIN q
    PROVE  Queue(SubSeq(q, first + 1, Len(q)))
<1> DEFINE t == SubSeq(q, first + 1, Len(q))
<1>1. q \in Seq(Work) /\ first \in 1..Len(q)
  BY DEF Queue
<1>2. t \in Seq(Work) /\ Len(t) = Len(q) - first
  BY <1>1
<1>3. ASSUME NEW i \in 1..Len(t)
      PROVE  t[i] = q[first + i] /\ first + i \in 1..Len(q)
  <2>1. i \in 1..(Len(q) - first)
    BY <1>2
  <2> QED
    BY <1>1, <2>1, SubSeqIndex, SMTT(30)
<1> QED
  BY <1>1, <1>2, <1>3, SMTT(30) DEF Queue

(* startNext leaves a queue of fresh work, and what it starts either was    *)
(* running already or passed the stop-epoch guard.                          *)
LEMMA StartNextStep ==
    ASSUME NEW q, Queue(q), NEW w \in Work, w.kind = "idle" => w = Idle,
           NEW r, NEW live, StartNext(q, w, r, live)
    PROVE  /\ Queue(pending')
           /\ inflight' \in Work
           /\ inflight'.kind = "idle" => inflight' = Idle
           /\ inflight' = w \/ (inflight' # Idle /\ CanStart(inflight', r)) \/ inflight' = Idle
           /\ inflight' = w \/ inflight' = Idle \/ inflight' = StateWork
                \/ inflight'.kind = "inspection"
           /\ handles' \subseteq live
<1>1. CASE w # Idle /\ pending' = q /\ inflight' = w /\ handles' = live
  BY <1>1
<1>2. CASE pending' = <<>> /\ inflight' = Idle /\ handles' = IF q = <<>> THEN live ELSE {}
  BY <1>2, WorkTypes DEF Queue
<1>3. ASSUME w = Idle, NEW first \in DOMAIN q,
             CanStart(q[first], r),
             pending' = SubSeq(q, first + 1, Len(q)),
             inflight' = q[first],
             handles' = IF first = 1 THEN live ELSE {}
      PROVE  /\ Queue(pending')
             /\ inflight' \in Work
             /\ inflight'.kind # "idle"
             /\ inflight' # Idle /\ CanStart(inflight', r)
             /\ inflight' = StateWork \/ inflight'.kind = "inspection"
             /\ handles' \subseteq live
  <2>1. Queue(pending')
    BY <1>3, QueueTail
  <2>2. inflight' \in Work /\ (inflight' = StateWork \/ inflight'.kind = "inspection")
    BY <1>3 DEF Queue
  <2>3. inflight'.kind # "idle" /\ inflight' # Idle
    BY <2>2, WorkTypes
  <2> QED
    BY <1>3, <2>1, <2>2, <2>3
<1> QED
  BY <1>1, <1>2, <1>3 DEF StartNext

=============================================================================
