----------------------------- MODULE StopArbiter -----------------------------
(***************************************************************************)
(* The stop arbiter (internal/core/stop/arbiter.go): the second, richer    *)
(* reduction of the same samples.  Where the session reducer decides what   *)
(* state the session is in, the arbiter decides which ordered effects the   *)
(* actor publishes, and attributes a stop to breakpoints through hints.     *)
(*                                                                         *)
(* As in SessionReducer the arbiter is a record and a method an operator;   *)
(* Observe yields  [arb, effects, ok].                                      *)
(***************************************************************************)
EXTENDS Integers, Sequences

HaltCauses == {"unknown", "breakpoint", "user", "notRunning"}

Reasons == {"unknown", "breakpoint", "step", "exception", "pause"}

(* StopInfo without the core identity, which no state sample carries.       *)
StopInfo ==
    [cause : HaltCauses, contFromBP : BOOLEAN, inStepMode : BOOLEAN,
     pendingHalt : BOOLEAN, onException : BOOLEAN, bpEvidence : BOOLEAN]

(* A resolver maps a live hint token to a breakpoint identity; identity 0   *)
(* is an unverified orphan.  pending holds (identity, stop epoch) pairs:    *)
(* NoteHint never stores the same pair twice, and hits are sorted and       *)
(* compacted before they leave, so a set loses nothing.                     *)
Arbiter ==
    [state : {"unknown", "stopped", "running"}, hasStop : BOOLEAN, lastStamp : Nat,
     stopEpoch : Nat, exec : Nat, pending : SUBSET (Nat \X Nat), faulted : BOOLEAN]

NewArbiter ==
    [state |-> "unknown", hasStop |-> FALSE, lastStamp |-> 0, stopEpoch |-> 0,
     exec |-> 0, pending |-> {}, faulted |-> FALSE]

CurrentStopEpoch(a) == IF a.hasStop THEN a.stopEpoch ELSE 0

-----------------------------------------------------------------------------
(* Hints.  resolver is a function from the live tokens to identities.       *)

HintAccepted(a, resolver, token) ==
    ~a.faulted /\ a.state # "unknown" /\ token \in DOMAIN resolver

NoteHint(a, resolver, token) ==
    IF HintAccepted(a, resolver, token)
    THEN [a EXCEPT !.pending = @ \union {<<resolver[token], CurrentStopEpoch(a)>>}]
    ELSE a

(* The hits a stop at this stamp may claim: hints noted in an earlier stop  *)
(* epoch, verified identities only.                                         *)
HitsFor(a, stamp) == {h[1] : h \in {p \in a.pending : p[2] < stamp /\ p[1] > 0}}

(* Mutant: evidence of the stop that is already known is kept.              *)
DiscardHintsAtMutant(a, stamp) == a

DiscardHintsAt(a, stamp) == [a EXCEPT !.pending = {p \in @ : p[2] # stamp}]

Classify(info, hasHintHit) ==
    IF info.onException THEN "exception"
    ELSE IF info.pendingHalt \/ info.cause = "user" THEN "pause"
    ELSE IF info.inStepMode /\ ~info.contFromBP THEN "step"
    ELSE IF \/ info.bpEvidence
            \/ info.cause = "breakpoint" /\ (info.contFromBP \/ hasHintHit) THEN "breakpoint"
    ELSE "unknown"

-----------------------------------------------------------------------------
(* Effects.  The epochs the code puts on invalidate and continued effects   *)
(* are never read: the actor's events carry the reducer's snapshot.         *)

Invalidate == [kind |-> "invalidate"]

Continued == [kind |-> "continued"]

(* stopped(): the effect, and the state it leaves.                          *)
Stopped(a, stamp, info) ==
    LET hits == HitsFor(a, stamp)
    IN  [kind |-> "stopped", exec |-> a.exec, stopEpoch |-> stamp,
         reason |-> Classify(info, hits # {}), hits |-> hits]

TakeStop(a, stamp) ==
    [a EXCEPT !.hasStop = TRUE, !.stopEpoch = stamp, !.pending = {}]

StopEffect ==
    [kind : {"stopped"}, exec : Nat, stopEpoch : Nat, reason : Reasons, hits : SUBSET Nat]

Effect == {Invalidate, Continued} \union StopEffect

(* Every method that invalidates does so with its first effect.             *)
Invalidates(effects) == effects # <<>> /\ effects[1].kind = "invalidate"

Emit(a, effs) == [arb |-> a, effects |-> effs, ok |-> TRUE]

ArbiterFault(a) == [arb |-> [a EXCEPT !.faulted = TRUE], effects |-> <<>>, ok |-> FALSE]

Advance(a) == [a EXCEPT !.exec = @ + 1]

(* The assignments Observe, observeRunning and observeStopped begin with.   *)
Seen(a, stamp) == [a EXCEPT !.lastStamp = stamp]

NowRunning(a) == [a EXCEPT !.state = "running", !.pending = {}]

NowStopped(a) == [a EXCEPT !.state = "stopped"]

(* A complete stop/run cycle between two samples, the last one running.     *)
RunningCycle(a, stamp, info) ==
    Emit(Advance(TakeStop(Advance(a), stamp)),
         <<Invalidate, Stopped(Advance(a), stamp, info), Continued>>)

ArbiterRunning(a, stamp, info) ==
    IF ~a.hasStop
    THEN Emit(NowRunning(a), <<>>)
    ELSE IF a.state = "stopped" /\ stamp = CurrentStopEpoch(a)
    THEN Emit(Advance(NowRunning(a)), <<Invalidate, Continued>>)
    ELSE IF a.state \in {"stopped", "running"} /\ stamp # CurrentStopEpoch(a)
    THEN RunningCycle(NowRunning(a), stamp, info)
    ELSE Emit(NowRunning(a), <<>>)

(* A run/stop cycle no sample saw, the last sample stopped.                 *)
StoppedCycle(a, stamp, info) ==
    Emit(TakeStop(Advance(a), stamp),
         <<Invalidate, Continued, Stopped(Advance(a), stamp, info)>>)

(* A stop the session was waiting for, or the first one.                    *)
NewStop(a, stamp, info) == Emit(TakeStop(a, stamp), <<Stopped(a, stamp, info)>>)

(* Mutant: a redundant sample of a known stop is published again.           *)
ArbiterStoppedMutant(a, stamp, info) ==
    IF ~a.hasStop \/ stamp = CurrentStopEpoch(a) \/ a.state = "running"
    THEN NewStop(NowStopped(a), stamp, info)
    ELSE StoppedCycle(NowStopped(a), stamp, info)

ArbiterStopped(a, stamp, info) ==
    LET now == NowStopped(a)
        same == stamp = CurrentStopEpoch(a)
    IN  IF ~a.hasStop
        THEN NewStop(now, stamp, info)
        ELSE CASE a.state = "stopped" /\ same -> Emit(DiscardHintsAt(now, stamp), <<>>)
               [] a.state = "running" /\ same -> ArbiterFault(now)
               [] a.state = "running" /\ ~same -> NewStop(now, stamp, info)
               [] a.state = "unknown" /\ same -> Emit(now, <<>>)
               [] a.state # "running" /\ ~same -> StoppedCycle(now, stamp, info)

ArbiterObserve(a, ob, info) ==
    IF a.faulted
    THEN [arb |-> a, effects |-> <<>>, ok |-> FALSE]
    ELSE IF ob.status = "unknown"
    THEN Emit(a, <<>>)
    ELSE IF ~ob.hasStamp \/ (a.hasStop /\ ob.stamp < a.lastStamp)
    THEN ArbiterFault(a)
    ELSE IF ob.status = "running"
    THEN ArbiterRunning(Seen(a, ob.stamp), ob.stamp, info)
    ELSE ArbiterStopped(Seen(a, ob.stamp), ob.stamp, info)
=============================================================================
