-------------------------- MODULE SessionStopProofs --------------------------
(***************************************************************************)
(* The stops the actor records: in order, whatever the samples missed, each *)
(* with evidence of its own time; and that with truthful stamps none of the *)
(* checks that fail the session closed can misfire.                         *)
(***************************************************************************)
EXTENDS SessionTimelineProofs

-----------------------------------------------------------------------------
(* What exactly a sample makes of the arbiter.                              *)

(* A sample the arbiter accepts and that shows a known state.               *)
Accepted(a, ob) ==
    /\ a \in Arbiter /\ ob \in Observation
    /\ ~a.faulted /\ (a.state = "unknown" => ~a.hasStop)
    /\ ob.status # "unknown" /\ ob.hasStamp /\ (a.hasStop => ob.stamp >= a.lastStamp)

(* The stamp of an accepted sample passes the arbiter's check.              *)
LEMMA StampPasses ==
    ASSUME NEW a, NEW ob, NEW info, Accepted(a, ob)
    PROVE  /\ Seen(a, ob.stamp) \in Arbiter
           /\ Seen(a, ob.stamp).hasStop = a.hasStop /\ Seen(a, ob.stamp).state = a.state
           /\ CurrentStopEpoch(Seen(a, ob.stamp)) = CurrentStopEpoch(a)
           /\ ob.status = "running" =>
                ArbiterObserve(a, ob, info) = ArbiterRunning(Seen(a, ob.stamp), ob.stamp, info)
           /\ ob.status = "stopped" =>
                ArbiterObserve(a, ob, info) = ArbiterStopped(Seen(a, ob.stamp), ob.stamp, info)
<1>1. ~(a.hasStop /\ ob.stamp < a.lastStamp) /\ ob.stamp \in Nat
  BY DEF Accepted, Arbiter, Observation
<1>2. /\ Seen(a, ob.stamp) \in Arbiter /\ Seen(a, ob.stamp).hasStop = a.hasStop
      /\ Seen(a, ob.stamp).state = a.state /\ Seen(a, ob.stamp).stopEpoch = a.stopEpoch
  BY <1>1, SeenType DEF Accepted
<1>3. ArbiterObserve(a, ob, info) = IF ob.status = "running"
                                    THEN ArbiterRunning(Seen(a, ob.stamp), ob.stamp, info)
                                    ELSE ArbiterStopped(Seen(a, ob.stamp), ob.stamp, info)
  BY <1>1, Zenon DEF Accepted, ArbiterObserve
<1> QED
  BY <1>2, <1>3 DEF CurrentStopEpoch

(* A stop effect of a verdict: it is at stamp, execution epoch exec, and    *)
(* names nothing that was not pending from an earlier stop epoch.           *)
StopFits(e, a, stamp, exec) ==
    /\ e.stopEpoch = stamp /\ e.exec = exec
    /\ e.hits \subseteq {p[1] : p \in a.pending}

(* All the stop effects of a verdict are of that kind.                      *)
StopsFit(effects, a, stamp, exec) ==
    \A e \in StopsAmong(effects) : StopFits(e, a, stamp, exec)

(* No effects, no stops.                                                    *)
LEMMA NoStops ==
    ASSUME NEW a, NEW stamp, NEW exec
    PROVE  StopsFit(<<>>, a, stamp, exec) /\ StopsFit(<<Invalidate, Continued>>, a, stamp, exec)
<1>1. StopsAmong(<<>>) = {}
  BY DEF StopsAmong
<1>2. StopsAmong(<<Invalidate, Continued>>) = {}
  BY DEF StopsAmong, Invalidate, Continued
<1> QED
  BY <1>1, <1>2 DEF StopsFit

(* The one stop effect of the three verdicts that have one.                 *)
LEMMA OneStop ==
    ASSUME NEW a, NEW b, b.pending \subseteq a.pending, NEW stamp, NEW info
    PROVE  /\ StopsFit(<<Stopped(b, stamp, info)>>, a, stamp, b.exec)
           /\ StopsFit(<<Invalidate, Continued, Stopped(b, stamp, info)>>, a, stamp, b.exec)
           /\ StopsFit(<<Invalidate, Stopped(b, stamp, info), Continued>>, a, stamp, b.exec)
<1> DEFINE st == Stopped(b, stamp, info)
<1>1. StopFits(st, a, stamp, b.exec)
  <2>1. HitsFor(b, stamp) \subseteq {p[1] : p \in a.pending}
    BY DEF HitsFor
  <2>2. st.hits = HitsFor(b, stamp) /\ st.stopEpoch = stamp /\ st.exec = b.exec
    BY DEF Stopped
  <2> QED
    BY <2>1, <2>2 DEF StopFits
<1>2. Invalidate.kind # "stopped" /\ Continued.kind # "stopped"
  BY DEF Invalidate, Continued
<1> HIDE DEF st
<1>3. /\ StopsAmong(<<st>>) \subseteq {st}
      /\ StopsAmong(<<Invalidate, Continued, st>>) \subseteq {st}
      /\ StopsAmong(<<Invalidate, st, Continued>>) \subseteq {st}
  BY <1>2, SMTT(30) DEF StopsAmong
<1> QED
  BY <1>1, <1>3 DEF StopsFit, st

(* What a sample of a running target makes of the arbiter: the first         *)
(* sample, a known resume, a cycle that was missed, a target that still     *)
(* runs.                                                                    *)
RanFrom(v, a, ob) ==
    /\ v.ok /\ v.arb.pending = {} /\ v.arb.state = "running"
    /\ v.arb.hasStop = a.hasStop /\ v.arb.lastStamp = ob.stamp
    /\ ~a.hasStop => v.arb.exec = a.exec /\ v.effects = <<>>
    /\ a.hasStop => /\ v.arb.stopEpoch = ob.stamp
                    /\ StopsFit(v.effects, a, ob.stamp, a.exec + 1)
    /\ a.hasStop /\ ob.stamp = a.stopEpoch =>
         /\ StopsAmong(v.effects) = {}
         /\ v.arb.exec = IF a.state = "stopped" THEN a.exec + 1 ELSE a.exec
    /\ a.hasStop /\ ob.stamp # a.stopEpoch => v.arb.exec = a.exec + 2

(* The arbiter's verdict on a sample of a running target.                   *)
LEMMA RunningVerdict ==
    ASSUME NEW a, NEW ob, NEW info, Accepted(a, ob), ob.status = "running",
           NEW v, v = ArbiterObserve(a, ob, info)
    PROVE  RanFrom(v, a, ob)
<1> USE DEF RanFrom
<1> DEFINE s == Seen(a, ob.stamp)
           n == NowRunning(s)
<1>1. /\ a \in Arbiter /\ ob.stamp \in Nat
      /\ v = ArbiterRunning(s, ob.stamp, info)
      /\ s.hasStop = a.hasStop /\ s.state = a.state
      /\ CurrentStopEpoch(s) = CurrentStopEpoch(a)
      /\ a.hasStop => a.state \in {"stopped", "running"}
      /\ a.hasStop => CurrentStopEpoch(a) = a.stopEpoch
  BY StampPasses DEF Accepted, Observation, Arbiter, CurrentStopEpoch
<1>2. /\ n.pending = {} /\ n.state = "running" /\ n.hasStop = a.hasStop
      /\ n.lastStamp = ob.stamp /\ n.exec = a.exec /\ n.stopEpoch = a.stopEpoch
      /\ a.exec \in Nat /\ n \in Arbiter
  BY <1>1, Zenon DEF NowRunning, Seen, Arbiter
<1> HIDE DEF n, s
<1>3. CASE ~a.hasStop
  <2>1. v = Emit(n, <<>>)
    BY <1>1, <1>3, SMTT(30) DEF ArbiterRunning, n
  <2> QED
    BY <1>2, <1>3, <2>1 DEF Emit
<1>4. CASE a.hasStop /\ ob.stamp = a.stopEpoch /\ a.state = "stopped"
  <2>1. v = Emit(Advance(n), <<Invalidate, Continued>>)
    BY <1>1, <1>4 DEF ArbiterRunning, n
  <2>2. v.ok /\ v.effects = <<Invalidate, Continued>> /\ v.arb = Advance(n)
    BY <2>1 DEF Emit
  <2>3. /\ v.arb.pending = {} /\ v.arb.state = "running" /\ v.arb.hasStop = a.hasStop
        /\ v.arb.lastStamp = ob.stamp /\ v.arb.exec = a.exec + 1 /\ v.arb.stopEpoch = ob.stamp
    BY <1>2, <1>4, <2>2, ZenonT(30) DEF Advance, Arbiter
  <2>4. StopsAmong(<<Invalidate, Continued>>) = {}
    BY DEF StopsAmong, Invalidate, Continued
  <2>5. StopsFit(v.effects, a, ob.stamp, a.exec + 1)
    BY <2>2, NoStops, Zenon
  <2> QED
    BY <1>4, <2>3, <2>2, <2>4, <2>5, SMTT(30)
<1>5. CASE a.hasStop /\ ob.stamp = a.stopEpoch /\ a.state = "running"
  <2>1. v = Emit(n, <<>>)
    BY <1>1, <1>5 DEF ArbiterRunning, n
  <2>2. StopsAmong(<<>>) = {}
    BY DEF StopsAmong
  <2>3. v.ok /\ v.effects = <<>> /\ v.arb = n
    BY <2>1 DEF Emit
  <2>4. StopsFit(v.effects, a, ob.stamp, a.exec + 1)
    BY <2>3, NoStops, ZenonT(30)
  <2> QED
    BY <1>2, <1>5, <2>2, <2>3, <2>4, Zenon
<1>6. CASE a.hasStop /\ ob.stamp # a.stopEpoch
  <2> DEFINE m == Advance(n)
  <2>1. v = RunningCycle(n, ob.stamp, info)
    BY <1>1, <1>6 DEF ArbiterRunning, n
  <2>2. /\ v.ok /\ v.arb = Advance(TakeStop(m, ob.stamp))
        /\ v.effects = <<Invalidate, Stopped(m, ob.stamp, info), Continued>>
    BY <2>1 DEF RunningCycle, Emit
  <2>3. m.exec = a.exec + 1 /\ m.pending = {} /\ m \in Arbiter /\ m.state = "running"
        /\ m.lastStamp = ob.stamp
    BY <1>2 DEF Advance, Arbiter
  <2> HIDE DEF m
  <2>4. StopsFit(v.effects, a, ob.stamp, m.exec)
    BY <2>2, <2>3, OneStop, ZenonT(30)
  <2>5. /\ v.arb.pending = {} /\ v.arb.state = "running" /\ v.arb.hasStop = TRUE
        /\ v.arb.lastStamp = ob.stamp /\ v.arb.exec = m.exec + 1 /\ v.arb.stopEpoch = ob.stamp
    BY <2>2, <2>3 DEF Advance, TakeStop, Arbiter
  <2>6. a.hasStop = TRUE /\ m.exec + 1 = a.exec + 2
    BY <1>1, <1>2, <1>6, <2>3 DEF Arbiter
  <2> QED
    BY <1>6, <2>2, <2>3, <2>4, <2>5, <2>6, ZenonT(30)
<1> QED
  BY <1>1, <1>3, <1>4, <1>5, <1>6, ZenonT(30)

(* What a sample of a stopped target makes of it: the first stop or one     *)
(* that was waited for, a known stop, a cycle that was missed, and the one  *)
(* case that is refused: a running target found stopped at a known stop.    *)
StoppedFrom(v, a, ob) ==
    /\ a.hasStop /\ a.state = "running" => (v.ok <=> ob.stamp # a.stopEpoch)
    /\ ~(a.hasStop /\ a.state = "running") => v.ok
    /\ v.ok =>
         /\ v.arb.state = "stopped" /\ v.arb.hasStop
         /\ v.arb.stopEpoch = ob.stamp /\ v.arb.lastStamp = ob.stamp
         /\ v.arb.pending \subseteq {p \in a.pending : p[2] # CurrentStopEpoch(a)}
         /\ v.arb.exec = IF a.hasStop /\ a.state = "stopped" /\ ob.stamp # a.stopEpoch
                         THEN a.exec + 1 ELSE a.exec
         /\ StopsFit(v.effects, a, ob.stamp, v.arb.exec)
         /\ a.hasStop /\ ob.stamp = a.stopEpoch => StopsAmong(v.effects) = {}

(* The arbiter's verdict on a sample of a stopped target.                   *)
LEMMA StoppedVerdict ==
    ASSUME NEW a, NEW ob, NEW info, Accepted(a, ob), ob.status = "stopped",
           NEW v, v = ArbiterObserve(a, ob, info)
    PROVE  StoppedFrom(v, a, ob)
<1> USE DEF StoppedFrom
<1> DEFINE s == Seen(a, ob.stamp)
           n == NowStopped(s)
<1>1. /\ a \in Arbiter /\ ob.stamp \in Nat
      /\ v = ArbiterStopped(s, ob.stamp, info)
      /\ s.hasStop = a.hasStop /\ s.state = a.state
      /\ CurrentStopEpoch(s) = CurrentStopEpoch(a)
      /\ a.hasStop => a.state \in {"stopped", "running"}
      /\ a.hasStop => CurrentStopEpoch(a) = a.stopEpoch
  BY StampPasses DEF Accepted, Observation, Arbiter, CurrentStopEpoch
<1>2. /\ n.pending = a.pending /\ n.state = "stopped" /\ n.hasStop = a.hasStop
      /\ n.lastStamp = ob.stamp /\ n.exec = a.exec /\ n.stopEpoch = a.stopEpoch
      /\ a.exec \in Nat /\ n \in Arbiter
  BY <1>1, Zenon DEF NowStopped, Seen, Arbiter
<1> HIDE DEF n, s
<1>3. CASE ~a.hasStop \/ (a.state = "running" /\ ob.stamp # a.stopEpoch)
  <2>1. v = NewStop(n, ob.stamp, info)
    BY <1>1, <1>3 DEF ArbiterStopped, n
  <2>2. v.ok /\ v.arb = TakeStop(n, ob.stamp) /\ v.effects = <<Stopped(n, ob.stamp, info)>>
    BY <2>1 DEF NewStop, Emit
  <2>3. /\ v.arb.state = "stopped" /\ v.arb.hasStop = TRUE /\ v.arb.stopEpoch = ob.stamp
        /\ v.arb.lastStamp = ob.stamp /\ v.arb.pending = {} /\ v.arb.exec = a.exec
    BY <1>2, <2>2, SMTT(30) DEF TakeStop, Arbiter
  <2>4. StopsFit(v.effects, a, ob.stamp, n.exec)
    BY <1>2, <2>2, OneStop, Zenon
  <2> QED
    BY <1>2, <1>3, <2>2, <2>3, <2>4, ZenonT(30)
<1>4. CASE a.hasStop /\ a.state = "stopped" /\ ob.stamp = a.stopEpoch
  <2>1. v = Emit(DiscardHintsAt(n, ob.stamp), <<>>)
    BY <1>1, <1>4 DEF ArbiterStopped, n
  <2>2. v.ok /\ v.effects = <<>> /\ v.arb = DiscardHintsAt(n, ob.stamp)
    BY <2>1 DEF Emit
  <2>3. /\ v.arb.state = "stopped" /\ v.arb.hasStop = a.hasStop /\ v.arb.stopEpoch = ob.stamp
        /\ v.arb.lastStamp = ob.stamp /\ v.arb.exec = a.exec
        /\ v.arb.pending = {p \in a.pending : p[2] # ob.stamp}
    BY <1>2, <1>4, <2>2, ZenonT(30) DEF DiscardHintsAt, Arbiter
  <2>4. StopsFit(<<>>, a, ob.stamp, v.arb.exec) /\ StopsAmong(<<>>) = {}
    BY NoStops DEF StopsAmong
  <2> QED
    BY <1>1, <1>4, <2>2, <2>3, <2>4, ZenonT(30)
<1>5. CASE a.hasStop /\ a.state = "running" /\ ob.stamp = a.stopEpoch
  <2>1. v = ArbiterFault(n)
    BY <1>1, <1>5 DEF ArbiterStopped, n
  <2>2. v.ok = FALSE
    BY <2>1, SMTT(30) DEF ArbiterFault
  <2> QED
    BY <1>5, <2>2
<1>6. CASE a.hasStop /\ a.state = "stopped" /\ ob.stamp # a.stopEpoch
  <2> DEFINE m == Advance(n)
  <2>1. v = StoppedCycle(n, ob.stamp, info)
    BY <1>1, <1>6, SMTT(30) DEF ArbiterStopped, n
  <2>2. /\ v.ok /\ v.arb = TakeStop(m, ob.stamp)
        /\ v.effects = <<Invalidate, Continued, Stopped(m, ob.stamp, info)>>
    BY <2>1 DEF StoppedCycle, Emit
  <2>3. m.exec = a.exec + 1 /\ m.pending = a.pending /\ m \in Arbiter /\ m.state = "stopped"
        /\ m.lastStamp = ob.stamp
    BY <1>2, SMTT(30) DEF Advance, Arbiter
  <2> HIDE DEF m
  <2>4. StopsFit(v.effects, a, ob.stamp, m.exec)
    BY <2>2, <2>3, OneStop, ZenonT(30)
  <2>5. /\ v.arb.state = "stopped" /\ v.arb.hasStop = TRUE /\ v.arb.stopEpoch = ob.stamp
        /\ v.arb.lastStamp = ob.stamp /\ v.arb.pending = {} /\ v.arb.exec = m.exec
    BY <2>2, <2>3 DEF TakeStop, Arbiter
  <2> QED
    BY <1>6, <2>2, <2>3, <2>4, <2>5, SMTT(30)
<1> QED
  BY <1>1, <1>3, <1>4, <1>5, <1>6, ZenonT(30)

(* Whatever the arbiter lets pass with a known state is an accepted sample. *)
LEMMA PassedIsAccepted ==
    ASSUME NEW a \in Arbiter, NEW ob \in Observation, NEW info,
           a.state = "unknown" => ~a.hasStop, ob.status # "unknown",
           ArbiterObserve(a, ob, info).ok
    PROVE  Accepted(a, ob)
<1>1. ~a.faulted
  BY DEF ArbiterObserve
<1>2. ob.hasStamp /\ ~(a.hasStop /\ ob.stamp < a.lastStamp)
  BY <1>1 DEF ArbiterObserve, ArbiterFault
<1>3. a.hasStop => ob.stamp >= a.lastStamp
  BY <1>2 DEF Arbiter, Observation
<1> QED
  BY <1>1, <1>2, <1>3 DEF Accepted

-----------------------------------------------------------------------------
(* Stops are recorded in order, with evidence of their own time.            *)

(* The cause that H returned is a breakpoint's only under its identity.     *)
LEMMA HaltIdentity ==
    ASSUME NEW h \in Causes \union {NoCause}, h.id \in Breakpoints
    PROVE  h # NoCause /\ h = Cause("breakpoint", h.id)
<1>1. 0 \notin Breakpoints
  BY BreakpointsAssumption
<1>2. NoCause.id = 0 /\ \A c \in OtherCauses : Cause(c, 0).id = 0
  BY DEF NoCause, Cause
<1>3. h \in {Cause("breakpoint", b) : b \in Breakpoints}
  BY <1>1, <1>2 DEF Causes
<1>4. PICK b \in Breakpoints : h = Cause("breakpoint", b)
  BY <1>3
<1>5. h.id = b
  BY <1>4, SMTT(30) DEF Cause
<1> QED
  BY <1>1, <1>2, <1>4, <1>5

(* What observe notes before the arbiter sees the sample: at most the       *)
(* breakpoint H named, under the current stop epoch.                        *)
LEMMA NotedPending ==
    ASSUME CoreInv
    PROVE  /\ inflight.halt.id \notin Breakpoints => Noted = arb
           /\ \A p \in Noted.pending :
                 \/ p \in arb.pending
                 \/ /\ inflight.halt.id \in Breakpoints
                    /\ p = <<inflight.halt.id, CurrentStopEpoch(arb)>>
<1>1. DOMAIN Resolver = Breakpoints /\ arb \in Arbiter
  BY DEF Resolver, CoreInv, TypeOK
<1>2. CASE HintAccepted(arb, Resolver, inflight.halt.id)
  <2>1. inflight.halt.id \in Breakpoints
    BY <1>1, <1>2 DEF HintAccepted
  <2>2. Resolver[inflight.halt.id] = inflight.halt.id
    BY <2>1 DEF Resolver
  <2>3. Noted = [arb EXCEPT !.pending = @ \union {<<inflight.halt.id, CurrentStopEpoch(arb)>>}]
    BY <1>2, <2>2 DEF Noted, NoteHint
  <2>4. Noted.pending = arb.pending \union {<<inflight.halt.id, CurrentStopEpoch(arb)>>}
    BY <1>1, <2>3 DEF Arbiter
  <2> QED
    BY <2>1, <2>4
<1>3. CASE ~HintAccepted(arb, Resolver, inflight.halt.id)
  BY <1>3 DEF Noted, NoteHint
<1> QED
  BY <1>2, <1>3

(* An accepted sample: what the actor records, and that the sample counts   *)
(* as accepted by the arbiter.                                              *)
LEMMA AcceptRecords ==
    ASSUME CoreInv, AcceptSample
    PROVE  LET v == ArbiterVerdict
           IN  /\ v = ArbiterObserve(Noted, ObservationOf(inflight), StopObservationInfo(inflight))
               /\ ~faulted /\ ~faulted' /\ v.ok /\ arb' = v.arb /\ UNCHANGED targetVars
               /\ inflight.kind = "state" /\ inflight.step = "observe"
               /\ lastStop' = lastStop \/ lastStop' \in StopsAmong(v.effects)
               /\ inflight.status = "unknown" => arb' = Noted /\ lastStop' = lastStop
               /\ inflight.status # "unknown" => Accepted(Noted, ObservationOf(inflight))
<1> DEFINE v == ArbiterVerdict
           ob == ObservationOf(inflight)
<1>1. /\ v.ok /\ arb' = v.arb /\ UNCHANGED <<targetVars, faulted>>
      /\ lastStop' = LastStopAfter(v.effects, ReducerVerdict.red)
      /\ inflight.kind = "state" /\ inflight.step = "observe"
  BY SMTT(30) DEF AcceptSample, Sampling
<1>2. ~faulted
  BY AcceptFacts
<1>3. lastStop' = lastStop \/ lastStop' \in StopsAmong(v.effects)
  BY <1>1 DEF LastStopAfter
<1>4. /\ ob \in Observation /\ Noted \in Arbiter /\ ob.status = inflight.status
      /\ Noted.state = "unknown" => ~Noted.hasStop
  BY <1>2, VerdictFacts DEF CoreInv, LiveSession, ObservationOf
<1>5. inflight.status # "unknown" => Accepted(Noted, ob)
  BY <1>1, <1>4, PassedIsAccepted DEF ArbiterVerdict
<1>6. ASSUME inflight.status = "unknown" PROVE arb' = Noted /\ lastStop' = lastStop
  <2>1. ~Noted.faulted
    BY <1>2, VerdictFacts, SMTT(30) DEF CoreInv, LiveSession
  <2>2. v = Emit(Noted, <<>>)
    BY <1>4, <1>6, <2>1 DEF ArbiterVerdict, ArbiterObserve
  <2>3. v.arb = Noted /\ StopsAmong(v.effects) = {}
    BY <2>2, SMTT(30) DEF Emit, StopsAmong
  <2> QED
    BY <1>1, <1>3, <2>3, SMTT(30)
<1> QED
  BY <1>1, <1>2, <1>3, <1>5, <1>6, SMTT(30) DEF ArbiterVerdict

(* An accepted sample leaves only hints pending.                            *)
LEMMA AcceptKeepsHints ==
    ASSUME CoreInv, OnlyHintsPending, SampleHasSource, AcceptSample
    PROVE  \A p \in arb'.pending : p[1] \in Hints
<1> DEFINE v == ArbiterVerdict
           ob == ObservationOf(inflight)
<1>1. /\ v = ArbiterObserve(Noted, ob, StopObservationInfo(inflight))
      /\ v.ok /\ arb' = v.arb /\ ~faulted /\ inflight.kind = "state"
      /\ ob.status = inflight.status /\ inflight \in Work
  BY AcceptRecords DEF ObservationOf, CoreInv, TypeOK
<1>2. \A p \in arb.pending : p[1] \in Hints
  BY <1>1 DEF OnlyHintsPending
<1>3. CASE inflight.status = "unknown"
  <2>1. inflight.halt = NoCause
    BY <1>1, <1>3 DEF SampleHasSource
  <2>2. inflight.halt.id \notin Breakpoints
    BY <2>1, BreakpointsAssumption, SMTT(30) DEF NoCause, Cause
  <2>3. arb' = arb
    BY <1>3, <2>2, AcceptRecords, NotedPending, SMTT(30)
  <2> QED
    BY <1>2, <2>3, SMTT(30)
<1>4. CASE inflight.status = "running"
  <2>1. Accepted(Noted, ob)
    BY <1>4, AcceptRecords, SMTT(30)
  <2>2. v.arb.pending = {}
    <3>1. RanFrom(v, Noted, ob)
      BY <1>1, <1>4, <2>1, RunningVerdict, ZenonT(30)
    <3> QED
      BY <1>1, <1>4, <2>1, <3>1, SMTT(30) DEF RanFrom
  <2> QED
    BY <1>1, <2>2
<1>5. CASE inflight.status = "stopped"
  <2>1. Accepted(Noted, ob)
    BY <1>5, AcceptRecords, SMTT(30)
  <2>2. v.arb.pending \subseteq {p \in Noted.pending : p[2] # CurrentStopEpoch(Noted)}
    <3>1. StoppedFrom(v, Noted, ob)
      BY <1>1, <1>5, <2>1, StoppedVerdict, ZenonT(30)
    <3> QED
      BY <1>1, <1>5, <2>1, <3>1, SMTT(30) DEF StoppedFrom
  <2>3. CurrentStopEpoch(Noted) = CurrentStopEpoch(arb)
    BY VerdictFacts DEF CurrentStopEpoch
  <2>4. ASSUME NEW p \in arb'.pending PROVE p[1] \in Hints
    <3>1. p \in Noted.pending /\ p[2] # CurrentStopEpoch(arb)
      BY <1>1, <2>2, <2>3, <2>4, SMTT(30)
    <3>2. p # <<inflight.halt.id, CurrentStopEpoch(arb)>>
      BY <3>1, SMTT(30)
    <3> QED
      BY <1>2, <3>1, <3>2, NotedPending, SMTT(30)
  <2> QED
    BY <2>4
<1> QED
  BY <1>1, <1>3, <1>4, <1>5, SMTT(30) DEF Work

(* What a stop recorded by an accepted sample is: at the sample's stamp,    *)
(* later than any recorded before, and reached by the arbiter.              *)
LEMMA AcceptedStop ==
    ASSUME CoreInv, StopOrder, AcceptSample, lastStop' # lastStop
    PROVE  /\ inflight.hasStamp /\ lastStop'.stopEpoch = inflight.stamp
           /\ lastStop'.hits \subseteq {p[1] : p \in Noted.pending}
           /\ arb'.hasStop /\ arb'.stopEpoch = inflight.stamp
           /\ lastStop'.exec <= arb'.exec
           /\ arb'.state = "running" => lastStop'.exec < arb'.exec
           /\ lastStop # NoStop => /\ lastStop'.exec > lastStop.exec
                                   /\ lastStop'.stopEpoch > lastStop.stopEpoch
<1> DEFINE v == ArbiterVerdict
           ob == ObservationOf(inflight)
<1>1. /\ v = ArbiterObserve(Noted, ob, StopObservationInfo(inflight))
      /\ v.ok /\ arb' = v.arb /\ ~faulted /\ lastStop' \in StopsAmong(v.effects)
      /\ Accepted(Noted, ob)
  BY AcceptRecords, SMTT(30)
<1>2. /\ ob.status = inflight.status /\ ob.stamp = inflight.stamp /\ ob.hasStamp = inflight.hasStamp
      /\ inflight.hasStamp /\ inflight.status \in {"stopped", "running"} /\ inflight.stamp \in Nat
  BY <1>1, VerdictFacts, SMTT(30) DEF ObservationOf, Accepted, Observation
<1>3. /\ Noted.state = arb.state /\ Noted.hasStop = arb.hasStop
      /\ Noted.stopEpoch = arb.stopEpoch /\ Noted.exec = arb.exec /\ Noted.lastStamp = arb.lastStamp
      /\ arb.exec \in Nat /\ arb.stopEpoch \in Nat
  BY VerdictFacts, SMTT(30) DEF CoreInv, TypeOK, Arbiter
<1>4. lastStop # NoStop =>
        /\ lastStop \in StopEffect /\ lastStop.exec \in Nat /\ lastStop.stopEpoch \in Nat
        /\ arb.hasStop /\ lastStop.stopEpoch <= arb.stopEpoch /\ lastStop.exec <= arb.exec
        /\ arb.state = "running" => lastStop.exec < arb.exec
  BY <1>1, SMTT(30) DEF StopOrder, CoreInv, TypeOK, StopEffect
<1>5. arb.hasStop => inflight.stamp >= arb.stopEpoch
  <2>1. arb.hasStop => arb.lastStamp = arb.stopEpoch
    BY <1>1, SMTT(30) DEF StopOrder
  <2> QED
    BY <1>1, <1>2, <1>3, <2>1, SMTT(30) DEF Accepted
<1>6. ASSUME NEW k, StopsFit(v.effects, Noted, inflight.stamp, k)
      PROVE  /\ lastStop'.stopEpoch = inflight.stamp /\ lastStop'.exec = k
             /\ lastStop'.hits \subseteq {p[1] : p \in Noted.pending}
  BY <1>1, <1>6, SMTT(30) DEF StopsFit, StopFits
<1>7. CASE inflight.status = "running"
  <2>1. /\ v.arb.hasStop = arb.hasStop
        /\ ~arb.hasStop => v.effects = <<>>
        /\ arb.hasStop => /\ v.arb.stopEpoch = inflight.stamp
                          /\ StopsFit(v.effects, Noted, inflight.stamp, arb.exec + 1)
        /\ arb.hasStop /\ inflight.stamp = arb.stopEpoch => StopsAmong(v.effects) = {}
        /\ arb.hasStop /\ inflight.stamp # arb.stopEpoch => v.arb.exec = arb.exec + 2
    <3>1. ob.status = "running"
      BY <1>2, <1>7, SMTT(30)
    <3>2. /\ v.arb.hasStop = Noted.hasStop
          /\ ~Noted.hasStop => v.effects = <<>>
          /\ Noted.hasStop => /\ v.arb.stopEpoch = ob.stamp
                              /\ StopsFit(v.effects, Noted, ob.stamp, Noted.exec + 1)
          /\ Noted.hasStop /\ ob.stamp = Noted.stopEpoch => StopsAmong(v.effects) = {}
          /\ Noted.hasStop /\ ob.stamp # Noted.stopEpoch => v.arb.exec = Noted.exec + 2
      <4>1. RanFrom(v, Noted, ob)
        BY <1>1, <3>1, RunningVerdict, ZenonT(30)
      <4> QED
        BY <1>1, <3>1, <4>1, SMTT(30) DEF RanFrom
    <3> QED
      BY <1>2, <1>3, <3>2, ZenonT(30)
  <2>2. arb.hasStop /\ inflight.stamp # arb.stopEpoch
    <3>1. StopsAmong(<<>>) = {}
      BY SMTT(30) DEF StopsAmong
    <3> QED
      BY <1>1, <2>1, <3>1
  <2>3. /\ lastStop'.stopEpoch = inflight.stamp /\ lastStop'.exec = arb.exec + 1
        /\ lastStop'.hits \subseteq {p[1] : p \in Noted.pending}
    BY <1>6, <2>1, <2>2, SMTT(30)
  <2>4. arb'.hasStop /\ arb'.stopEpoch = inflight.stamp /\ arb'.exec = arb.exec + 2
    BY <1>1, <2>1, <2>2, SMTT(30)
  <2> QED
    BY <1>2, <1>3, <1>4, <1>5, <2>2, <2>3, <2>4, SMTT(30)
<1>8. CASE inflight.status = "stopped"
  <2>1. /\ v.arb.state = "stopped" /\ v.arb.hasStop /\ v.arb.stopEpoch = inflight.stamp
        /\ v.arb.exec = IF arb.hasStop /\ arb.state = "stopped" /\ inflight.stamp # arb.stopEpoch
                        THEN arb.exec + 1 ELSE arb.exec
        /\ StopsFit(v.effects, Noted, inflight.stamp, v.arb.exec)
        /\ arb.hasStop /\ inflight.stamp = arb.stopEpoch => StopsAmong(v.effects) = {}
    <3>1. StoppedFrom(v, Noted, ob)
      BY <1>1, <1>2, <1>3, <1>8, StoppedVerdict, ZenonT(30)
    <3> QED
      BY <1>1, <1>2, <1>3, <1>8, <3>1, SMTT(30) DEF StoppedFrom
  <2>2. /\ lastStop'.stopEpoch = inflight.stamp /\ lastStop'.exec = arb'.exec
        /\ lastStop'.hits \subseteq {p[1] : p \in Noted.pending}
    BY <1>1, <1>6, <2>1, SMTT(30)
  <2>3. arb.hasStop => inflight.stamp # arb.stopEpoch /\ arb.state \in {"stopped", "running"}
    BY <1>1, <2>1, SMTT(30) DEF CoreInv, LiveSession, TypeOK, Arbiter
  <2>4. arb'.exec \in Nat
    BY <1>1, <1>3, <2>1, SMTT(30)
  <2>5. arb'.hasStop /\ arb'.state = "stopped" /\ arb'.stopEpoch = inflight.stamp
    BY <1>1, <2>1, SMTT(30)
  <2>6. lastStop # NoStop => lastStop'.exec > lastStop.exec
    BY <1>1, <1>3, <1>4, <2>1, <2>2, <2>3, SMTT(30)
  <2>7. lastStop # NoStop => lastStop'.stopEpoch > lastStop.stopEpoch
    BY <1>2, <1>3, <1>4, <1>5, <2>2, <2>3, SMTT(30)
  <2> QED
    BY <1>2, <2>2, <2>4, <2>5, <2>6, <2>7, SMTT(30)
<1> QED
  BY <1>2, <1>7, <1>8, SMTT(30)

(* An accepted sample records stops in order.                               *)
LEMMA AcceptKeepsOrder ==
    ASSUME CoreInv, StopOrder, AcceptSample
    PROVE  StopOrder'
<1> DEFINE v == ArbiterVerdict
           ob == ObservationOf(inflight)
<1>1. /\ v = ArbiterObserve(Noted, ob, StopObservationInfo(inflight))
      /\ v.ok /\ arb' = v.arb /\ ~faulted
      /\ ob.status = inflight.status /\ ob.stamp = inflight.stamp
      /\ inflight.status \in {"unknown", "stopped", "running"} /\ inflight.stamp \in Nat
  BY AcceptRecords, SMTT(30) DEF ObservationOf, CoreInv, TypeOK, Work
<1>2. /\ Noted.state = arb.state /\ Noted.hasStop = arb.hasStop
      /\ Noted.stopEpoch = arb.stopEpoch /\ Noted.exec = arb.exec /\ Noted.lastStamp = arb.lastStamp
      /\ arb.exec \in Nat /\ arb.stopEpoch \in Nat
  BY VerdictFacts, SMTT(30) DEF CoreInv, TypeOK, Arbiter
<1>3. CASE inflight.status = "unknown"
  <2>1. arb' = Noted /\ lastStop' = lastStop
    BY <1>3, AcceptRecords
  <2> QED
    BY <1>1, <1>2, <2>1, SMTT(30) DEF StopOrder
<1>4. inflight.status # "unknown" => Accepted(Noted, ob)
  BY AcceptRecords, SMTT(30)
<1>5. inflight.status # "unknown" /\ arb.hasStop => inflight.stamp >= arb.stopEpoch
  BY <1>1, <1>2, <1>4, SMTT(30) DEF Accepted, StopOrder
<1>6. inflight.status # "unknown" =>
        /\ arb'.hasStop => arb'.lastStamp = arb'.stopEpoch
        /\ arb.hasStop => arb'.hasStop /\ arb'.stopEpoch = inflight.stamp
        /\ arb.hasStop => arb'.exec \in Nat /\ arb'.exec >= arb.exec
        /\ arb.hasStop /\ arb.state = "stopped" /\ arb'.state = "running" => arb'.exec > arb.exec
  <2>1. CASE inflight.status = "running"
    <3>1. /\ v.arb.state = "running" /\ v.arb.hasStop = Noted.hasStop
          /\ v.arb.lastStamp = ob.stamp
          /\ Noted.hasStop => v.arb.stopEpoch = ob.stamp
          /\ Noted.hasStop /\ ob.stamp = Noted.stopEpoch =>
               v.arb.exec = IF Noted.state = "stopped" THEN Noted.exec + 1 ELSE Noted.exec
          /\ Noted.hasStop /\ ob.stamp # Noted.stopEpoch => v.arb.exec = Noted.exec + 2
      <4>1. RanFrom(v, Noted, ob)
        BY <1>1, <1>4, <2>1, RunningVerdict, ZenonT(30)
      <4> QED
        BY <1>1, <1>4, <2>1, <4>1, SMTT(30) DEF RanFrom
    <3> QED
      BY <1>1, <1>2, <2>1, <3>1, SMTT(30)
  <2>2. CASE inflight.status = "stopped"
    <3>1. /\ v.arb.state = "stopped" /\ v.arb.hasStop
          /\ v.arb.stopEpoch = ob.stamp /\ v.arb.lastStamp = ob.stamp
          /\ v.arb.exec = IF Noted.hasStop /\ Noted.state = "stopped" /\ ob.stamp # Noted.stopEpoch
                          THEN Noted.exec + 1 ELSE Noted.exec
      <4>1. StoppedFrom(v, Noted, ob)
        BY <1>1, <1>4, <2>2, StoppedVerdict, ZenonT(30)
      <4> QED
        BY <1>1, <1>4, <2>2, <4>1, SMTT(30) DEF StoppedFrom
    <3> QED
      BY <1>1, <1>2, <2>2, <3>1, SMTT(30)
  <2> QED
    BY <1>1, <2>1, <2>2, SMTT(30)
<1>7. CASE inflight.status # "unknown" /\ lastStop' = lastStop
  <2>1. lastStop # NoStop => lastStop.exec \in Nat /\ lastStop.stopEpoch \in Nat
    BY DEF CoreInv, TypeOK, StopEffect
  <2>2. arb.hasStop => arb.state \in {"stopped", "running"}
    BY <1>1, SMTT(30) DEF CoreInv, LiveSession, TypeOK, Arbiter
  <2>3. /\ lastStop # NoStop =>
              /\ arb.hasStop
              /\ lastStop.stopEpoch <= arb.stopEpoch /\ lastStop.exec <= arb.exec
              /\ arb.state = "running" => lastStop.exec < arb.exec
    BY <1>1 DEF StopOrder
  <2>4. ASSUME lastStop # NoStop
        PROVE  /\ arb'.hasStop /\ lastStop.stopEpoch <= arb'.stopEpoch
               /\ lastStop.exec <= arb'.exec
               /\ arb'.state = "running" => lastStop.exec < arb'.exec
    <3>1. arb.hasStop /\ arb'.hasStop /\ arb'.stopEpoch = inflight.stamp
      BY <1>6, <1>7, <2>3, <2>4, SMTT(30)
    <3>2. lastStop.stopEpoch <= arb'.stopEpoch
      BY <1>1, <1>2, <1>5, <1>7, <2>1, <2>3, <2>4, <3>1, SMTT(30)
    <3>3. arb'.exec \in Nat /\ arb'.exec >= arb.exec /\ lastStop.exec <= arb'.exec
      BY <1>2, <1>6, <1>7, <2>1, <2>3, <2>4, <3>1, SMTT(30)
    <3>4. arb'.state = "running" => lastStop.exec < arb'.exec
      BY <1>2, <1>6, <1>7, <2>1, <2>2, <2>3, <2>4, <3>1, <3>3, SMTT(30)
    <3> QED
      BY <3>1, <3>2, <3>3, <3>4, SMTT(30)
  <2> QED
    BY <1>6, <1>7, <2>4, SMTT(30) DEF StopOrder
<1>8. CASE inflight.status # "unknown" /\ lastStop' # lastStop
  <2>1. /\ lastStop'.stopEpoch = inflight.stamp /\ arb'.hasStop /\ arb'.stopEpoch = inflight.stamp
        /\ lastStop'.exec <= arb'.exec
        /\ arb'.state = "running" => lastStop'.exec < arb'.exec
    BY <1>8, AcceptedStop
  <2> QED
    BY <1>1, <1>6, <1>8, <2>1, SMTT(30) DEF StopOrder
<1> QED
  BY <1>3, <1>7, <1>8, SMTT(30)

(* A stop recorded by an accepted sample names only hints and what H named, *)
(* which MULTI reported at the stamp of the stop or later.                  *)
LEMMA AcceptKeepsHits ==
    ASSUME CoreInv, StopInv, AcceptSample
    PROVE  HitsAsReported'
<1>1. /\ ~faulted /\ UNCHANGED <<target, causes, reported>>
      /\ inflight.kind = "state" /\ inflight \in Work
  BY AcceptRecords DEF targetVars, CoreInv, TypeOK
<1>2. CASE lastStop' = lastStop
  BY <1>1, <1>2 DEF StopInv, HitsAsReported
<1>3. CASE lastStop' # lastStop
  <2>1. /\ inflight.hasStamp /\ lastStop'.stopEpoch = inflight.stamp
        /\ lastStop'.hits \subseteq {p[1] : p \in Noted.pending}
    BY <1>3, AcceptedStop, SMTT(30) DEF StopInv
  <2>2. ASSUME NEW b \in lastStop'.hits, b \notin Hints
        PROVE  \E s \in inflight.stamp..target.stamp : reported[s] = Cause("breakpoint", b)
    <3>1. PICK p \in Noted.pending : b = p[1]
      BY <2>1, <2>2
    <3>2. p \notin arb.pending
      BY <1>1, <2>2, <3>1, SMTT(30) DEF StopInv, OnlyHintsPending
    <3>3. inflight.halt.id \in Breakpoints /\ b = inflight.halt.id
      BY <3>1, <3>2, NotedPending, SMTT(30)
    <3>4. inflight.halt # NoCause /\ inflight.halt = Cause("breakpoint", b)
      BY <1>1, <3>3, HaltIdentity DEF Work
    <3> QED
      BY <1>1, <2>1, <3>4, SMTT(30) DEF StopInv, SampleHasSource
  <2> QED
    BY <1>1, <2>1, <2>2, ZenonT(30) DEF HitsAsReported
<1> QED
  BY <1>2, <1>3, SMTT(30)

(* Work that has not begun makes no claim, and neither does none.           *)
LEMMA FreshHasSource ==
    ASSUME inflight' = Idle \/ inflight' = StateWork \/ inflight'.kind # "state"
    PROVE  SampleHasSource'
<1>1. Idle.kind # "state" /\ StateWork.step = "status" /\ ~StateWork.hasStamp
      /\ StateWork.halt = NoCause
  BY DEF Idle, StateWork
<1>2. CASE inflight' = StateWork
  BY <1>1, <1>2, ZenonT(30) DEF SampleHasSource
<1>3. CASE inflight'.kind # "state"
  BY <1>3 DEF SampleHasSource
<1> QED
  BY <1>1, <1>2, <1>3

(* An accepted sample keeps the stops in order and their evidence fresh.    *)
LEMMA AcceptKeepsStops ==
    ASSUME CoreInv, StopInv, AcceptSample
    PROVE  StopInv'
<1>1. StopOrder' /\ HitsAsReported'
  BY AcceptKeepsOrder, AcceptKeepsHits DEF StopInv
<1>2. OnlyHintsPending'
  BY AcceptKeepsHints DEF StopInv, OnlyHintsPending
<1>3. SampleHasSource'
  <2>1. PICK r, live : StartNext(pending, Idle, r, live)
    BY DEF AcceptSample
  <2>2. inflight' = Idle \/ inflight' = StateWork \/ inflight'.kind # "state"
    BY <2>1, CoreQueue, StartsFresh, SMTT(30)
  <2> QED
    BY <2>2, FreshHasSource
<1>4. ReportsHappened'
  <2>1. UNCHANGED <<target, causes, reported>>
    BY AcceptRecords DEF targetVars
  <2> QED
    BY <2>1 DEF StopInv, ReportsHappened
<1> QED
  BY <1>1, <1>2, <1>3, <1>4 DEF StopInv

(* The target only moves on, and its past stays, with what H made of it.    *)
LEMMA PastStays ==
    ASSUME TypeOK, [Next]_vars
    PROVE  /\ target.stamp \in Nat /\ target'.stamp \in Nat /\ target'.stamp >= target.stamp
           /\ \A s \in 0..target.stamp : causes'[s] = causes[s] /\ reported'[s] = reported[s]
<1>0. /\ target.stamp \in Nat /\ causes \in [0..MaxStamp -> Causes \union {NoCause}]
      /\ reported \in [0..MaxStamp -> Causes \union {NoCause}]
  BY PositionTypes DEF TypeOK
<1>1. CASE UNCHANGED targetVars
  BY <1>0, <1>1 DEF targetVars
<1>2. CASE TargetRuns
  <2>1. target'.stamp = target.stamp /\ causes' = causes /\ reported' = reported
    BY <1>2 DEF TargetRuns, TypeOK
  <2> QED
    BY <1>0, <2>1
<1>3. ASSUME NEW c \in Causes, TargetStops(c)
      PROVE  /\ target'.stamp = target.stamp + 1
             /\ \A s \in 0..target.stamp : causes'[s] = causes[s] /\ reported'[s] = reported[s]
  <2>1. target'.stamp = target.stamp + 1 /\ causes' = [causes EXCEPT ![target.stamp + 1] = c]
    BY <1>3 DEF TargetStops
  <2>2. PICK h : reported' = [reported EXCEPT ![target.stamp + 1] = h]
    BY <1>3, Zenon DEF TargetStops
  <2>3. \A s \in 0..target.stamp : s # target.stamp + 1 /\ s \in 0..MaxStamp
    BY <1>0, <1>3, MaxStampAssumption, SMTT(30) DEF TargetStops
  <2> QED
    BY <1>0, <2>1, <2>2, <2>3, SMTT(30)
<1>4. CASE ~TargetMoves
  <2>1. UNCHANGED targetVars
    BY <1>4, ZenonT(30) DEF Next, CoreStep, SampleStep, InspectionStep, PollTick, RequestInspection,
       RunInspection, AnswerInspection, ReadStatus, ReadInfo, ConfirmStatus, ReadHalt, Reads,
       StateChanged, ArbiterRejects, ReducerRejects, EpochsDisagree, TransportFails, FailClosed,
       AcceptSample, HintArrives, BarrierStep, BeginConfigurationCommand, ConfigurationDoneCommand,
       CancelConfigurationCommand, BarrierCommand, vars
  <2> QED
    BY <1>1, <2>1, SMTT(30)
<1> QED
  BY <1>0, <1>2, <1>3, <1>4, SMTT(30) DEF TargetMoves

(* What H reports of a new stop is its cause, or that of an earlier one.    *)
LEMMA ReportsStayTrue ==
    ASSUME TypeOK, ReportsHappened, [Next]_vars
    PROVE  ReportsHappened'
<1>1. /\ target.stamp \in Nat /\ target'.stamp \in Nat /\ target'.stamp >= target.stamp
      /\ \A s \in 0..target.stamp : causes'[s] = causes[s] /\ reported'[s] = reported[s]
  BY PastStays
<1>2. ASSUME NEW s \in 0..target.stamp
      PROVE  /\ \E t \in 0..s : causes'[t] = reported'[s]
             /\ reported'[s] # causes'[s] => "staleHalt" \in Anomalies
  <2>1. PICK t \in 0..s : causes[t] = reported[s]
    BY DEF ReportsHappened
  <2>2. causes'[t] = causes[t] /\ causes'[s] = causes[s] /\ reported'[s] = reported[s]
    BY <1>1, <2>1
  <2>3. reported[s] # causes[s] => "staleHalt" \in Anomalies
    BY DEF ReportsHappened
  <2> QED
    BY <2>1, <2>2, <2>3
<1>3. CASE target'.stamp = target.stamp
  BY <1>2, <1>3, Zenon DEF ReportsHappened
<1>4. ASSUME NEW c \in Causes, TargetStops(c)
      PROVE  ReportsHappened'
  <2> DEFINE new == target.stamp + 1
  <2>1. /\ target'.stamp = new /\ causes' = [causes EXCEPT ![new] = c]
        /\ new \in 0..MaxStamp
    BY <1>1, <1>4, MaxStampAssumption DEF TargetStops
  <2>2. PICK h \in HaltReports(c) : reported' = [reported EXCEPT ![new] = h]
    BY <1>4, Zenon DEF TargetStops
  <2>3. causes'[new] = c /\ reported'[new] = h
    BY <2>1, <2>2 DEF TypeOK
  <2>4. h # c => "staleHalt" \in Anomalies /\ \E t \in 0..target.stamp : causes[t] = h
    BY <2>2, Zenon DEF HaltReports
  <2>5. \A t \in 0..target.stamp : t \in 0..new /\ causes'[t] = causes[t]
    BY <1>1
  <2>6. \E t \in 0..new : causes'[t] = reported'[new]
    <3>1. new \in 0..new
      BY <1>1
    <3> QED
      BY <2>3, <2>4, <2>5, <3>1, Zenon
  <2>7. \A s \in 0..target'.stamp : s \in 0..target.stamp \/ s = new
    BY <1>1, <2>1
  <2> HIDE DEF new
  <2> QED
    BY <1>2, <2>3, <2>4, <2>6, <2>7, Zenon DEF ReportsHappened
<1>5. CASE TargetRuns
  BY <1>3, <1>5 DEF TargetRuns, TypeOK
<1>6. CASE UNCHANGED targetVars
  BY <1>3, <1>6 DEF targetVars
<1>7. CASE ~TargetMoves
  <2>1. UNCHANGED targetVars
    BY <1>7, ZenonT(30) DEF Next, CoreStep, SampleStep, InspectionStep, PollTick, RequestInspection,
       RunInspection, AnswerInspection, ReadStatus, ReadInfo, ConfirmStatus, ReadHalt, Reads,
       StateChanged, ArbiterRejects, ReducerRejects, EpochsDisagree, TransportFails, FailClosed,
       AcceptSample, HintArrives, BarrierStep, BeginConfigurationCommand, ConfigurationDoneCommand,
       CancelConfigurationCommand, BarrierCommand, vars
  <2> QED
    BY <1>6, <2>1
<1> QED
  BY <1>4, <1>5, <1>7, Zenon DEF TargetMoves

(* Every step but an accepted sample leaves the recorded stop and the       *)
(* arbiter's epochs alone, and at most adds a hint, or fails closed.        *)
LEMMA OtherStepsRecordNothing ==
    ASSUME CoreInv, [Next]_vars, ~AcceptSample
    PROVE  /\ lastStop' = lastStop
           /\ \/ faulted' = TRUE
              \/ /\ faulted' = faulted
                 /\ arb'.state = arb.state /\ arb'.hasStop = arb.hasStop /\ arb'.exec = arb.exec
                 /\ arb'.stopEpoch = arb.stopEpoch /\ arb'.lastStamp = arb.lastStamp
                 /\ \A p \in arb'.pending : p \in arb.pending \/ p[1] \in Hints
<1>1. CASE TargetMoves
  BY <1>1 DEF TargetMoves, TargetRuns, TargetStops, actorVars
<1>2. CASE PollTick \/ RequestInspection \/ RunInspection \/ AnswerInspection
  BY <1>2 DEF PollTick, RequestInspection, RunInspection, AnswerInspection
<1>3. CASE ReadStatus \/ ReadInfo \/ ConfirmStatus \/ ReadHalt
  <2>1. UNCHANGED <<faulted, arb, lastStop>>
    BY <1>3, ZenonT(30) DEF ReadStatus, ReadInfo, ConfirmStatus, ReadHalt, Reads
  <2> QED
    BY <2>1
<1>4. CASE StateChanged
  BY <1>4, SMTT(30) DEF StateChanged, FailClosed
<1>5. CASE ArbiterRejects \/ ReducerRejects \/ EpochsDisagree \/ TransportFails
  BY <1>5, SMTT(30) DEF ArbiterRejects, ReducerRejects, EpochsDisagree, TransportFails, FailClosed
<1>6. ASSUME NEW b \in Hints, HintArrives(b)
      PROVE  /\ UNCHANGED <<lastStop, faulted>>
             /\ arb'.state = arb.state /\ arb'.hasStop = arb.hasStop /\ arb'.exec = arb.exec
             /\ arb'.stopEpoch = arb.stopEpoch /\ arb'.lastStamp = arb.lastStamp
             /\ \A p \in arb'.pending : p \in arb.pending \/ p[1] \in Hints
  <2>1. /\ UNCHANGED <<lastStop, faulted>> /\ arb \in Arbiter
        /\ arb' = [arb EXCEPT !.pending = @ \union {<<Resolver[b], CurrentStopEpoch(arb)>>}]
    BY <1>6 DEF HintArrives, NoteHint, CoreInv, TypeOK
  <2>2. Resolver[b] = b
    BY HintsAssumption DEF Resolver
  <2>3. arb'.pending = arb.pending \union {<<b, CurrentStopEpoch(arb)>>}
    BY <2>1, <2>2, SMTT(30) DEF Arbiter
  <2>4. \A p \in arb'.pending : p \in arb.pending \/ p[1] \in Hints
    BY <2>3, SMTT(30)
  <2> QED
    BY <2>1, <2>4 DEF Arbiter
<1>7. CASE BarrierStep
  BY <1>7, ZenonT(30) DEF BarrierStep, BeginConfigurationCommand, ConfigurationDoneCommand,
         CancelConfigurationCommand, BarrierCommand
<1>8. CASE UNCHANGED vars
  BY <1>8 DEF vars, actorVars
<1> QED
  BY <1>1, <1>2, <1>3, <1>4, <1>5, <1>6, <1>7, <1>8, ZenonT(30)
  DEF Next, CoreStep, SampleStep, InspectionStep

(* A sample in flight that is left alone keeps its source.                  *)
LEMMA QuietKeepsSource ==
    ASSUME TypeOK, SampleHasSource, [Next]_vars, inflight' = inflight
    PROVE  SampleHasSource'
<1>1. /\ target.stamp \in Nat /\ target'.stamp \in Nat /\ target'.stamp >= target.stamp
      /\ \A s \in 0..target.stamp : reported'[s] = reported[s]
  BY PastStays
<1>2. inflight.stamp \in Nat
  BY DEF TypeOK, Work
<1>3. ASSUME NEW s \in inflight.stamp..target.stamp
      PROVE  s \in inflight.stamp..target'.stamp /\ reported'[s] = reported[s]
  BY <1>1, <1>2, SMTT(30)
<1>4. inflight.stamp <= target.stamp => inflight.stamp <= target'.stamp
  BY <1>1, <1>2
<1> QED
  BY <1>3, <1>4, ZenonT(30) DEF SampleHasSource

(* Each read keeps it: the stamp is one the target has reached, and H names *)
(* what MULTI reports of the stop the target has reached by then.           *)
LEMMA ReadsKeepSource ==
    ASSUME CoreInv, SampleHasSource, ReadStatus \/ ReadInfo \/ ConfirmStatus \/ ReadHalt
    PROVE  SampleHasSource'
<1>1. /\ inflight \in Work /\ inflight.kind = "state" /\ target.stamp \in Nat
      /\ UNCHANGED <<target, causes, reported>>
  BY PositionTypes, ZenonT(30)
  DEF CoreInv, TypeOK, ReadStatus, ReadInfo, ConfirmStatus, ReadHalt, Sampling, Reads, targetVars
<1>2. CASE ReadStatus
  <2>1. PICK st : inflight' = [inflight EXCEPT !.status = st, !.step = "info"]
    BY <1>2, ZenonT(30) DEF ReadStatus, Reads
  <2>2. inflight.step = "status" /\ ~inflight.hasStamp /\ inflight.halt = NoCause
    BY <1>1, <1>2, ZenonT(30) DEF ReadStatus, Sampling, SampleHasSource
  <2>3. ~inflight'.hasStamp /\ inflight'.halt = NoCause /\ inflight'.step = "info"
    BY <1>1, <2>1, <2>2, SMTT(30) DEF Work
  <2> QED
    BY <2>3, SMTT(30) DEF SampleHasSource
<1>3. CASE ReadInfo
  <2>1. inflight.step = "info" /\ ~inflight.hasStamp /\ inflight.halt = NoCause
    BY <1>1, <1>3, ZenonT(30) DEF ReadInfo, Sampling, SampleHasSource
  <2>2. ASSUME NEW s \in StampReadings,
               inflight' = [inflight EXCEPT !.stamp = s, !.hasStamp = TRUE,
                                            !.flags = causes[target.stamp], !.step = "confirm"]
        PROVE  SampleHasSource'
    <3>1. s <= target.stamp
      BY <1>1 DEF StampReadings
    <3>2. inflight'.stamp = s /\ inflight'.halt = NoCause /\ inflight'.step = "confirm"
      BY <1>1, <2>1, <2>2, SMTT(30) DEF Work
    <3> QED
      BY <1>1, <3>1, <3>2, SMTT(30) DEF SampleHasSource
  <2>3. CASE inflight' = [inflight EXCEPT !.step = "confirm"]
    <3>1. ~inflight'.hasStamp /\ inflight'.halt = NoCause /\ inflight'.step = "confirm"
      BY <1>1, <2>1, <2>3 DEF Work
    <3> QED
      BY <3>1 DEF SampleHasSource
  <2> QED
    BY <1>3, <2>2, <2>3, ZenonT(30) DEF ReadInfo, Reads
<1>4. CASE ConfirmStatus
  <2>1. PICK st \in {"halt", "observe"} :
          /\ inflight' = [inflight EXCEPT !.step = st]
          /\ st = "halt" => inflight.status = "stopped"
    BY <1>4 DEF ConfirmStatus, Reads
  <2>2. inflight.step = "confirm"
    BY <1>4 DEF ConfirmStatus, Sampling
  <2>3. inflight.halt = NoCause
    BY <1>1, <2>2 DEF SampleHasSource
  <2>4. /\ inflight'.step = st /\ inflight'.halt = NoCause /\ inflight'.status = inflight.status
        /\ inflight'.hasStamp = inflight.hasStamp /\ inflight'.stamp = inflight.stamp
    BY <1>1, <2>1, <2>3 DEF Work
  <2> QED
    BY <1>1, <2>1, <2>4, SMTT(30) DEF SampleHasSource
<1>5. CASE ReadHalt
  <2>1. PICK h : /\ h = reported[target.stamp] \/ h = NoCause
                 /\ inflight' = [inflight EXCEPT !.halt = h, !.step = "observe"]
    BY <1>5, ZenonT(30) DEF ReadHalt, Reads
  <2>2. /\ inflight'.step = "observe" /\ inflight'.halt = h /\ inflight'.status = inflight.status
        /\ inflight'.hasStamp = inflight.hasStamp /\ inflight'.stamp = inflight.stamp
        /\ inflight.stamp \in Nat
    BY <1>1, <2>1, SMTT(30) DEF Work
  <2>3. inflight.step = "halt"
    BY <1>5, ZenonT(30) DEF ReadHalt, Sampling
  <2>4. inflight.status = "stopped" /\ (inflight.hasStamp => inflight.stamp <= target.stamp)
    BY <1>1, <2>3 DEF SampleHasSource
  <2>5. inflight.hasStamp => target.stamp \in inflight.stamp..target.stamp
    BY <1>1, <2>2, <2>4
  <2> QED
    BY <1>1, <2>1, <2>2, <2>4, <2>5, SMTT(30) DEF SampleHasSource
<1> QED
  BY <1>2, <1>3, <1>4, <1>5, SMTT(30)

(* Every step keeps the stops in order and their evidence fresh.            *)
LEMMA StopInvNext == CoreInv /\ StopInv /\ [Next]_vars => StopInv'
<1> SUFFICES ASSUME CoreInv, StopInv, [Next]_vars, ~AcceptSample PROVE StopInv'
  BY AcceptKeepsStops
<1>1. /\ lastStop' = lastStop
      /\ \/ faulted' = TRUE
         \/ /\ faulted' = faulted
            /\ arb'.state = arb.state /\ arb'.hasStop = arb.hasStop /\ arb'.exec = arb.exec
            /\ arb'.stopEpoch = arb.stopEpoch /\ arb'.lastStamp = arb.lastStamp
            /\ \A p \in arb'.pending : p \in arb.pending \/ p[1] \in Hints
  BY OtherStepsRecordNothing, ZenonT(30)
<1>2. StopOrder'
  BY <1>1 DEF StopInv, StopOrder
<1>3. OnlyHintsPending'
  BY <1>1 DEF StopInv, OnlyHintsPending
<1>4. HitsAsReported'
  <2>1. /\ target.stamp \in Nat /\ target'.stamp \in Nat /\ target'.stamp >= target.stamp
        /\ \A s \in 0..target.stamp : reported'[s] = reported[s]
    BY PastStays, SMTT(30) DEF CoreInv
  <2>2. lastStop.stopEpoch \in Nat
    BY DEF CoreInv, TypeOK, StopEffect, NoStop
  <2>3. ASSUME NEW s \in lastStop.stopEpoch..target.stamp
        PROVE  s \in lastStop.stopEpoch..target'.stamp /\ reported'[s] = reported[s]
    BY <2>1, <2>2
  <2> QED
    BY <1>1, <2>3, ZenonT(30) DEF StopInv, HitsAsReported
<1>5. SampleHasSource'
  <2>1. CASE inflight' = inflight
    BY <2>1, QuietKeepsSource DEF StopInv, CoreInv
  <2>2. CASE TargetMoves \/ BarrierStep \/ UNCHANGED vars
    <3>1. inflight' = inflight
      BY <2>2 DEF TargetMoves, TargetRuns, TargetStops, BarrierStep, BeginConfigurationCommand,
         ConfigurationDoneCommand, CancelConfigurationCommand, BarrierCommand, vars, actorVars
    <3> QED
      BY <2>1, <3>1
  <2>3. CASE QueueStep
    BY <2>1, <2>3, QueueStepsStartFresh, FreshHasSource, SMTT(30)
  <2>4. CASE ReadStatus \/ ReadInfo \/ ConfirmStatus \/ ReadHalt
    BY <2>4, ReadsKeepSource DEF StopInv
  <2>5. CASE ArbiterRejects \/ ReducerRejects \/ EpochsDisagree \/ TransportFails
    <3>1. inflight' = Idle
      BY <2>5 DEF ArbiterRejects, ReducerRejects, EpochsDisagree, TransportFails, FailClosed
    <3> QED
      BY <3>1, FreshHasSource, SMTT(30)
  <2> QED
    BY <2>2, <2>3, <2>4, <2>5, ZenonT(30) DEF Next, CoreStep, SampleStep, QueueStep
<1>6. ReportsHappened'
  BY ReportsStayTrue, SMTT(30) DEF StopInv, CoreInv
<1> QED
  BY <1>2, <1>3, <1>4, <1>5, <1>6, SMTT(30) DEF StopInv

(* Whatever goes wrong with the reads, stamps that go back included, stops  *)
(* are recorded in order, only hints wait for a stop, and a sample or a     *)
(* recorded stop names only breakpoints that MULTI reported at its stamp or *)
(* later, each of which was hit by then (arbiter.go Observe, actor.go       *)
(* observe and stateWork).                                                  *)
THEOREM StopInvariant == Spec => []StopInv
<1>1. Init => StopInv
  <2> SUFFICES ASSUME Init PROVE StopInv
    OBVIOUS
  <2>1. StopOrder
    BY SMTT(30) DEF Init, NewArbiter, StopOrder
  <2>2. OnlyHintsPending /\ HitsAsReported
    BY DEF Init, NewArbiter, NoStop, OnlyHintsPending, HitsAsReported
  <2>3. SampleHasSource
    BY DEF Init, StateWork, Idle, SampleHasSource
  <2>4. ReportsHappened
    <3>1. reported = causes /\ \A s \in 0..target.stamp : s \in 0..s
      BY MaxStampAssumption DEF Init
    <3> QED
      BY <3>1, Zenon DEF ReportsHappened
  <2> QED
    BY <2>1, <2>2, <2>3, <2>4, SMTT(30) DEF StopInv
<1> QED
  BY <1>1, StopInvNext, CoreInvariant, PTL, SMTT(30) DEF Spec

(* Unless MULTI itself still reports the cause of an earlier stop, a stop   *)
(* that polling attributes to a breakpoint names one that was hit at that   *)
(* stop or later: the session carries no evidence over from an earlier one, *)
(* whatever else goes wrong (discardHintsAt in arbiter.go, observe in       *)
(* actor.go).  With an H that is stale it does: halt.go:11.                 *)
THEOREM HitsAreNotOlder ==
    ASSUME "staleHalt" \notin Anomalies
    PROVE  Spec => []HitsNotOlder
<1>1. CoreInv /\ StopInv => HitsNotOlder
  <2> SUFFICES ASSUME CoreInv, StopInv, NEW b \in lastStop.hits \ Hints
               PROVE  \E s \in lastStop.stopEpoch..target.stamp : causes[s] = Cause("breakpoint", b)
    BY DEF HitsNotOlder
  <2>1. PICK s \in lastStop.stopEpoch..target.stamp : reported[s] = Cause("breakpoint", b)
    BY DEF StopInv, HitsAsReported
  <2>2. lastStop.stopEpoch \in Nat /\ target.stamp \in Nat
    BY PositionTypes DEF CoreInv, TypeOK, StopEffect, NoStop
  <2>3. s \in 0..target.stamp
    BY <2>1, <2>2
  <2>4. reported[s] = causes[s]
    BY <2>3, Zenon DEF StopInv, ReportsHappened
  <2> QED
    BY <2>1, <2>4
<1> QED
  BY <1>1, StopInvariant, CoreInvariant, PTL

(* Every stop recorded after the first has a larger execution epoch and     *)
(* stop stamp than the one before (architecture.md 6.2), whatever the       *)
(* samples in between missed.                                               *)
THEOREM StopsAreCanonical == Spec => CanonicalStops
<1> DEFINE Later == lastStop # NoStop /\ lastStop' # lastStop =>
                       lastStop'.exec > lastStop.exec /\ lastStop'.stopEpoch > lastStop.stopEpoch
<1>1. CoreInv /\ StopInv /\ [Next]_vars => Later
  <2> SUFFICES ASSUME CoreInv, StopInv, [Next]_vars PROVE Later
    OBVIOUS
  <2>1. CASE AcceptSample
    BY <2>1, AcceptedStop, SMTT(30) DEF StopInv
  <2>2. CASE ~AcceptSample
    BY <2>2, OtherStepsRecordNothing, ZenonT(30)
  <2> QED
    BY <2>1, <2>2
<1>2. CoreInv /\ StopInv /\ [Next]_vars => [Later]_vars
  BY <1>1, SMTT(30)
<1> QED
  BY <1>2, StopInvariant, CoreInvariant, PTL, SMTT(30) DEF Spec, CanonicalStops

-----------------------------------------------------------------------------
(* The checks on the stamps cannot misfire.                                 *)

(* What exactly a sample of a running target makes of the reducer, unless   *)
(* it shows a missed cycle.                                                 *)
ReducerRanFrom(v, r, ob) ==
    /\ v.ok
    /\ r.state = "stopped" =>
         /\ v.red.stopEpoch = ob.stamp
         /\ v.red.exec = IF ob.stamp = r.stopEpoch THEN r.exec + 1 ELSE r.exec + 2
    /\ r.state # "stopped" /\ ~(r.state = "running" /\ ob.stamp # r.stopEpoch /\ r.hasStop) =>
         v.red.stopEpoch = r.stopEpoch /\ v.red.exec = r.exec

(* The reducer's verdict on a sample of a running target.                   *)
LEMMA ReducerRunningVerdict ==
    ASSUME NEW r \in Reducer, NEW ob \in Observation, r.state # "faulted", AcceptsStamp(r, ob),
           ob.status = "running", NEW v, v = ReducerObserve(r, ob)
    PROVE  ReducerRanFrom(v, r, ob)
<1> USE DEF ReducerRanFrom
<1> DEFINE n == NoteStamp(r, ob)
<1>1. /\ n \in Reducer /\ n.state = r.state /\ n.exec = r.exec /\ n.stopEpoch = r.stopEpoch
      /\ n.hasStop = r.hasStop /\ r.exec \in Nat
  BY NoteStampType DEF Reducer
<1>2. v = ReducerRunning(n, ob.stamp)
  BY DEF ReducerObserve
<1> HIDE DEF n
<1>3. \A k \in Nat : \A e :
        At(n, "running", k, e).stopEpoch = e /\ At(n, "running", k, e).exec = r.exec + k
  BY <1>1, SMTT(30) DEF At, Reducer
<1>4. CASE r.state = "stopped"
  <2>1. CASE ob.stamp = r.stopEpoch
    <3>1. v.ok /\ v.red = At(n, "running", 1, ob.stamp)
      BY <1>1, <1>2, <1>4, <2>1, SMTT(30) DEF ReducerRunning, Publish, Result
    <3> QED
      BY <1>3, <1>4, <2>1, <3>1, SMTT(30)
  <2>2. CASE ob.stamp # r.stopEpoch
    <3>1. v.ok /\ v.red = At(n, "running", 2, ob.stamp)
      BY <1>1, <1>2, <1>4, <2>2, SMTT(30) DEF ReducerRunning, Publish, Result
    <3> QED
      BY <1>3, <1>4, <2>2, <3>1, SMTT(30)
  <2> QED
    BY <2>1, <2>2, SMTT(30)
<1>5. CASE r.state # "stopped" /\ ~(r.state = "running" /\ ob.stamp # r.stopEpoch /\ r.hasStop)
  <2>1. v.ok /\ v.red = At(n, "running", 0, r.stopEpoch)
    BY <1>1, <1>2, <1>5, SMTT(30) DEF ReducerRunning, Result
  <2> QED
    BY <1>1, <1>3, <1>5, <2>1, SMTT(30)
<1>6. CASE r.state = "running" /\ ob.stamp # r.stopEpoch /\ r.hasStop
  <2>1. v.ok
    BY <1>1, <1>2, <1>6, SMTT(30) DEF ReducerRunning, Publish, Result
  <2> QED
    BY <1>6, <2>1
<1> QED
  BY <1>4, <1>5, <1>6, SMTT(30)

(* What exactly a sample of a stopped target makes of the reducer.          *)
ReducerStoppedFrom(v, r, ob) ==
    /\ v.ok /\ v.red.stopEpoch = ob.stamp
    /\ v.red.exec = IF r.hasStop /\ r.state # "running" /\ ob.stamp # r.stopEpoch
                    THEN r.exec + 1 ELSE r.exec

(* The reducer's verdict on a sample of a stopped target.                   *)
LEMMA ReducerStoppedVerdict ==
    ASSUME NEW r \in Reducer, NEW ob \in Observation, r.state # "faulted", AcceptsStamp(r, ob),
           ob.status = "stopped", ~(r.hasStop /\ r.state = "running" /\ ob.stamp = r.stopEpoch),
           NEW v, v = ReducerObserve(r, ob)
    PROVE  ReducerStoppedFrom(v, r, ob)
<1> USE DEF ReducerStoppedFrom
<1> DEFINE n == NoteStamp(r, ob)
<1>1. /\ n \in Reducer /\ n.state = r.state /\ n.exec = r.exec /\ n.stopEpoch = r.stopEpoch
      /\ n.hasStop = r.hasStop /\ r.exec \in Nat /\ r.hasStop \in BOOLEAN
  BY NoteStampType DEF Reducer
<1>2. v = ReducerStopped(n, ob.stamp)
  BY DEF ReducerObserve
<1> HIDE DEF n
<1>3. \A k \in Nat : /\ At(n, "stopped", k, ob.stamp).stopEpoch = ob.stamp
                     /\ At(n, "stopped", k, ob.stamp).exec = r.exec + k
  BY <1>1, SMTT(30) DEF At, Reducer
<1>4. CASE ~r.hasStop
  <2>1. v.ok /\ v.red = FirstStop(n, ob.stamp)
    BY <1>1, <1>2, <1>4, SMTT(30) DEF ReducerStopped, Publish, Result
  <2>2. FirstStop(n, ob.stamp).stopEpoch = ob.stamp /\ FirstStop(n, ob.stamp).exec = r.exec
    BY <1>1, SMTT(30) DEF FirstStop, At, Reducer
  <2> QED
    BY <1>4, <2>1, <2>2, SMTT(30)
<1>5. CASE r.hasStop /\ r.state = "running"
  <2>1. v.ok /\ v.red = At(n, "stopped", 0, ob.stamp)
    BY <1>1, <1>2, <1>5, SMTT(30) DEF ReducerStopped, Publish, Result
  <2> QED
    BY <1>1, <1>3, <1>5, <2>1, SMTT(30)
<1>6. CASE r.hasStop /\ r.state # "running" /\ ob.stamp = r.stopEpoch
  <2>1. v.ok /\ v.red = At(n, "stopped", 0, ob.stamp)
    BY <1>1, <1>2, <1>6, SMTT(30) DEF ReducerStopped, Result
  <2> QED
    BY <1>1, <1>3, <1>6, <2>1, SMTT(30)
<1>7. CASE r.hasStop /\ r.state # "running" /\ ob.stamp # r.stopEpoch
  <2>1. v.ok /\ v.red = At(n, "stopped", 1, ob.stamp)
    BY <1>1, <1>2, <1>7, SMTT(30) DEF ReducerStopped, Publish, Result
  <2> QED
    BY <1>1, <1>3, <1>7, <2>1, SMTT(30)
<1> QED
  BY <1>4, <1>5, <1>6, <1>7, SMTT(30)

(* A finished sample with a truthful stamp that shows no missed cycle       *)
(* passes both reductions, and their epochs agree.                          *)
LEMMA NoMisfire ==
    ASSUME IndInv, ~faulted, Sampling("observe"), inflight.hasStamp, ~ShowsRunningCycle
    PROVE  /\ ArbiterVerdict.ok /\ ReducerVerdict.ok
           /\ EpochsAgree(ArbiterVerdict.arb, ReducerVerdict.red)
<1> DEFINE ob == ObservationOf(inflight)
           v == ArbiterVerdict
           w == ReducerVerdict
<1>1. /\ CoreInv /\ red \in Reducer /\ arb \in Arbiter /\ ob \in Observation
      /\ ob.status = inflight.status /\ ob.stamp = inflight.stamp /\ ob.hasStamp
      /\ inflight.status \in {"unknown", "stopped", "running"} /\ inflight.stamp \in Nat
      /\ inflight.kind = "state" /\ inflight.step = "observe"
  BY VerdictFacts, SMTT(30) DEF IndInv, CoreInv, TypeOK, Work, ObservationOf, Sampling
<1>2. /\ Noted \in Arbiter /\ Noted.state = arb.state /\ Noted.hasStop = arb.hasStop
      /\ Noted.stopEpoch = arb.stopEpoch /\ Noted.exec = arb.exec
      /\ Noted.faulted = arb.faulted /\ Noted.lastStamp = arb.lastStamp
  BY <1>1, VerdictFacts, SMTT(30)
<1>3. /\ arb.state = red.state /\ arb.hasStop = red.hasStop
      /\ red.stopEpoch = CurrentStopEpoch(arb) /\ red.exec = arb.exec
      /\ ~arb.faulted /\ red.state # "faulted"
      /\ arb.state = "unknown" => ~arb.hasStop
      /\ arb.state = "stopped" => arb.hasStop
  BY <1>1, SMTT(30) DEF CoreInv, ReductionsAgree, EpochsAgree, LiveSession
<1>4. /\ red.hasStamp => red.lastStamp <= inflight.stamp
      /\ inflight.status # "unknown" =>
           SessionPosition <= Position(inflight.status = "running", inflight.stamp)
      /\ arb.state # "unknown" => red.hasStamp /\ arb.lastStamp <= red.lastStamp
      /\ arb.state # "unknown" /\ arb.hasStop => arb.lastStamp = arb.stopEpoch
  BY <1>1, SMTT(30) DEF IndInv, SampleBounds, EpochIsLastStamp
<1>5. AcceptsStamp(red, ob)
  BY <1>1, <1>4, SMTT(30) DEF AcceptsStamp, Reducer
<1>6. arb.hasStop => inflight.stamp >= arb.lastStamp
  BY <1>1, <1>3, <1>4, SMTT(30) DEF Arbiter, Reducer
<1>7. /\ v = ArbiterObserve(Noted, ob, StopObservationInfo(inflight))
      /\ w = ReducerObserve(red, ob)
  BY SMTT(30) DEF ArbiterVerdict, ReducerVerdict
<1>8. inflight.status # "unknown" => Accepted(Noted, ob)
  BY <1>1, <1>2, <1>3, <1>6, SMTT(30) DEF Accepted
<1>9. arb.exec \in Nat /\ arb.stopEpoch \in Nat /\ arb.hasStop \in BOOLEAN
      /\ arb.state \in {"unknown", "stopped", "running"}
  BY <1>1 DEF Arbiter
<1>10. arb.hasStop => red.stopEpoch = arb.stopEpoch
  BY <1>3 DEF CurrentStopEpoch
<1>11. ~arb.hasStop => red.stopEpoch = 0
  BY <1>3, SMTT(30) DEF CurrentStopEpoch
<1> HIDE DEF v, w, ob
<1>12. CASE inflight.status = "unknown"
  <2>1. v = Emit(Noted, <<>>)
    BY <1>1, <1>2, <1>3, <1>7, <1>12, SMTT(30) DEF ArbiterObserve
  <2>2. w = Result(NoteStamp(red, ob), <<>>, TRUE)
    BY <1>1, <1>3, <1>5, <1>7, <1>12, SMTT(30) DEF ReducerObserve
  <2>3. v.ok /\ w.ok /\ v.arb = Noted /\ w.red = NoteStamp(red, ob)
    BY <2>1, <2>2, SMTT(30) DEF Emit, Result
  <2>4. w.red.stopEpoch = red.stopEpoch /\ w.red.exec = red.exec
    BY <1>1, <2>3, NoteStampType, SMTT(30)
  <2> QED
    BY <1>2, <1>3, <2>3, <2>4, SMTT(30) DEF EpochsAgree, CurrentStopEpoch, v, w
<1>13. CASE inflight.status = "running"
  <2>1. /\ v.ok /\ v.arb.hasStop = Noted.hasStop
        /\ ~Noted.hasStop => v.arb.exec = Noted.exec
        /\ Noted.hasStop => v.arb.stopEpoch = ob.stamp
        /\ Noted.hasStop /\ ob.stamp = Noted.stopEpoch =>
             v.arb.exec = IF Noted.state = "stopped" THEN Noted.exec + 1 ELSE Noted.exec
        /\ Noted.hasStop /\ ob.stamp # Noted.stopEpoch => v.arb.exec = Noted.exec + 2
    <3>1. RanFrom(v, Noted, ob)
      BY <1>1, <1>7, <1>8, <1>13, RunningVerdict, ZenonT(30)
    <3> QED
      BY <1>1, <1>7, <1>8, <1>13, <3>1, SMTT(30) DEF RanFrom
  <2>2. /\ w.ok
        /\ red.state = "stopped" =>
             /\ w.red.stopEpoch = ob.stamp
             /\ w.red.exec = IF ob.stamp = red.stopEpoch THEN red.exec + 1 ELSE red.exec + 2
        /\ red.state # "stopped" /\ ~(red.state = "running" /\ ob.stamp # red.stopEpoch /\ red.hasStop) =>
             w.red.stopEpoch = red.stopEpoch /\ w.red.exec = red.exec
    <3>1. ReducerRanFrom(w, red, ob)
      BY <1>1, <1>3, <1>5, <1>7, <1>13, ReducerRunningVerdict, ZenonT(30)
    <3> QED
      BY <1>1, <1>3, <1>5, <1>7, <1>13, <3>1, SMTT(30) DEF ReducerRanFrom
  <2>3. ~(red.state = "running" /\ ob.stamp # red.stopEpoch /\ red.hasStop)
    BY <1>1, <1>13, SMTT(30) DEF ShowsRunningCycle
  <2>4. CASE ~arb.hasStop
    <3>1. w.red.stopEpoch = 0 /\ w.red.exec = arb.exec /\ ~v.arb.hasStop /\ v.arb.exec = arb.exec
      BY <1>2, <1>3, <1>11, <2>1, <2>2, <2>3, <2>4, SMTT(30)
    <3> QED
      BY <2>1, <2>2, <3>1, SMTT(30) DEF EpochsAgree, CurrentStopEpoch, v, w
  <2>5. CASE arb.hasStop
    <3>1. v.arb.hasStop /\ v.arb.stopEpoch = ob.stamp
      BY <1>2, <2>1, <2>5, SMTT(30)
    <3>2. w.red.stopEpoch = ob.stamp /\ w.red.exec = v.arb.exec
      BY <1>2, <1>3, <1>9, <1>10, <2>1, <2>2, <2>3, <2>5, SMTT(30)
    <3> QED
      BY <2>1, <2>2, <3>1, <3>2, SMTT(30) DEF EpochsAgree, CurrentStopEpoch, v, w
  <2> QED
    BY <2>4, <2>5, SMTT(30)
<1>14. CASE inflight.status = "stopped"
  <2>1. ~(arb.hasStop /\ arb.state = "running" /\ inflight.stamp = arb.stopEpoch)
    <3> SUFFICES ASSUME arb.hasStop, arb.state = "running", inflight.stamp = arb.stopEpoch
                 PROVE  FALSE
      BY SMTT(30)
    <3>1. SessionPosition = 2 * arb.stopEpoch + 1
      BY <1>4, <1>9, PositionValue, ZenonT(30) DEF SessionPosition
    <3>2. Position(inflight.status = "running", inflight.stamp) = 2 * arb.stopEpoch
      BY <1>9, <1>14, PositionValue, ZenonT(30)
    <3> QED
      BY <1>4, <1>9, <1>14, <3>1, <3>2, SMTT(30)
  <2>2. /\ v.ok /\ v.arb.hasStop /\ v.arb.stopEpoch = ob.stamp
        /\ v.arb.exec = IF Noted.hasStop /\ Noted.state = "stopped" /\ ob.stamp # Noted.stopEpoch
                        THEN Noted.exec + 1 ELSE Noted.exec
    <3>1. StoppedFrom(v, Noted, ob)
      BY <1>1, <1>2, <1>7, <1>8, <1>14, <2>1, StoppedVerdict, ZenonT(30)
    <3>2. v.ok
      BY <1>1, <1>2, <2>1, <3>1, ZenonT(30) DEF StoppedFrom
    <3> QED
      BY <3>1, <3>2, ZenonT(30) DEF StoppedFrom
  <2>3. /\ w.ok /\ w.red.stopEpoch = ob.stamp
        /\ w.red.exec = IF red.hasStop /\ red.state # "running" /\ ob.stamp # red.stopEpoch
                        THEN red.exec + 1 ELSE red.exec
    <3>1. ReducerStoppedFrom(w, red, ob)
      BY <1>1, <1>3, <1>5, <1>7, <1>10, <1>14, <2>1, ReducerStoppedVerdict, ZenonT(30)
    <3> QED
      BY <1>1, <1>3, <1>5, <1>7, <1>10, <1>14, <2>1, <3>1, SMTT(30) DEF ReducerStoppedFrom
  <2>4. w.red.exec = v.arb.exec
    BY <1>2, <1>3, <1>9, <1>10, <2>2, <2>3, SMTT(30)
  <2> QED
    BY <2>2, <2>3, <2>4, SMTT(30) DEF EpochsAgree, CurrentStopEpoch, v, w
<1> QED
  BY <1>1, <1>12, <1>13, <1>14, SMTT(30)

(* With truthful stamps observe fails closed only on a sample without a     *)
(* stamp, or on one that shows a missed cycle between two running samples   *)
(* (actor.go observe, verifyArbiterSnapshot; the stamp checks of session.go *)
(* and arbiter.go).                                                         *)
THEOREM OnlyCyclesFailClosed ==
    ASSUME "regressedStamp" \notin Anomalies
    PROVE  Spec => FailsClosedOnlyOnCycle
<1> DEFINE Known == ArbiterRejects \/ ReducerRejects \/ EpochsDisagree =>
                      ShowsRunningCycle \/ ~inflight.hasStamp
<1>1. IndInv /\ [Next]_vars => [Known]_vars
  <2> SUFFICES ASSUME IndInv, ArbiterRejects \/ ReducerRejects \/ EpochsDisagree
               PROVE  ShowsRunningCycle \/ ~inflight.hasStamp
    BY ZenonT(30)
  <2>1. Sampling("observe")
    BY ZenonT(30) DEF ArbiterRejects, ReducerRejects, EpochsDisagree
  <2>2. ~faulted
    BY <2>1, SMTT(30) DEF IndInv, CoreInv, QueuedWorkIsFresh, Sampling, Idle
  <2> QED
    BY <2>1, <2>2, NoMisfire, ZenonT(30) DEF ArbiterRejects, ReducerRejects, EpochsDisagree
<1> QED
  BY <1>1, TimelineInvariant, PTL DEF Spec, FailsClosedOnlyOnCycle
=============================================================================
