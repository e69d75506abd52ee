--------------------------- MODULE SessionReducer ---------------------------
(***************************************************************************)
(* The deterministic session reducer (internal/core/session/session.go).   *)
(*                                                                         *)
(* The reducer is a plain value owned by the actor goroutine, so it is     *)
(* modelled as a record and every method as an operator from the record to *)
(* its successor.  Methods that also return actions or an error yield a    *)
(* result  [red, acts, ok]:  the new record, the ordered actions and       *)
(* whether the error is nil.                                               *)
(*                                                                         *)
(* Epochs and stop stamps are uint64 in the code.  The execution epoch     *)
(* advances by at most two per poll (250 ms), so it cannot wrap in any     *)
(* session; both are naturals here.                                        *)
(***************************************************************************)
EXTENDS Integers, Sequences

TargetStates == {"unknown", "stopped", "running", "faulted"}

ActionKinds == {"invalidate", "resumed", "suspended", "reconcile"}

(* What one state sample says: observedState(status) and the stop stamp.    *)
Observation ==
    [status : {"unknown", "stopped", "running"}, stamp : Nat, hasStamp : BOOLEAN]

Reducer ==
    [state : TargetStates, exec : Nat, stopEpoch : Nat, lastStamp : Nat,
     hasStamp : BOOLEAN, hasStop : BOOLEAN, configuring : BOOLEAN]

NewReducer ==
    [state |-> "unknown", exec |-> 0, stopEpoch |-> 0, lastStamp |-> 0,
     hasStamp |-> FALSE, hasStop |-> FALSE, configuring |-> FALSE]

Result(r, actions, nilError) == [red |-> r, acts |-> actions, ok |-> nilError]

(* The assignments every observation branch makes: the state, how far the   *)
(* execution epoch advances, and the stop epoch.                            *)
At(r, state, advance, epoch) ==
    [r EXCEPT !.state = state, !.exec = r.exec + advance, !.stopEpoch = epoch]

(* fault: the observation stream can no longer be interpreted.              *)
Fault(r) == Result(At(r, "faulted", 0, r.stopEpoch), <<"invalidate", "reconcile">>, FALSE)

(* publish: behind the configuration barrier only invalidations leave, and  *)
(* an invalidation is always the first action of its list.                  *)
Publish(r, actions) ==
    Result(r, CASE ~r.configuring -> actions
                [] r.configuring /\ actions[1] = "invalidate" -> <<"invalidate">>
                [] r.configuring /\ actions[1] # "invalidate" -> <<>>, TRUE)

-----------------------------------------------------------------------------
(* The configuration barrier.                                               *)

BeginConfiguration(r) ==
    IF r.state = "faulted" \/ r.configuring
    THEN Result(r, <<>>, FALSE)
    ELSE Result([r EXCEPT !.configuring = TRUE], <<>>, TRUE)

(* Mutant: a running target is not announced when the barrier closes.       *)
InitialStateMutant(r) == IF r.state = "stopped" THEN <<"suspended">> ELSE <<>>

(* Closing the barrier publishes exactly the final canonical state.         *)
InitialState(r) ==
    CASE r.state = "stopped" -> <<"suspended">>
      [] r.state = "running" -> <<"resumed">>
      [] OTHER -> <<>>

ConfigurationDone(r) ==
    IF r.state = "faulted" \/ ~r.configuring
    THEN Result(r, <<>>, FALSE)
    ELSE Result([r EXCEPT !.configuring = FALSE], InitialState(r), TRUE)

CancelConfiguration(r) ==
    IF ~r.configuring
    THEN Result(r, <<>>, FALSE)
    ELSE Result([r EXCEPT !.configuring = FALSE], <<>>, TRUE)

-----------------------------------------------------------------------------
(* Observations: the only operation that changes execution state or epochs. *)

(* Mutant: every sample must carry a new stamp.                             *)
AcceptsStampMutant(r, ob) ==
    IF ob.hasStamp
    THEN r.hasStamp => ob.stamp > r.lastStamp
    ELSE ~r.hasStamp /\ ob.status = "unknown"

(* acceptStopStamp, as the condition under which it returns no error and    *)
(* the record it leaves.                                                    *)
AcceptsStamp(r, ob) ==
    IF ob.hasStamp
    THEN r.hasStamp => ob.stamp >= r.lastStamp
    ELSE ~r.hasStamp /\ ob.status = "unknown"

(* Mutant: the stamp is stored but not marked as known.                     *)
NoteStampMutant(r, ob) == IF ob.hasStamp THEN [r EXCEPT !.lastStamp = ob.stamp] ELSE r

NoteStamp(r, ob) ==
    IF ob.hasStamp THEN [r EXCEPT !.lastStamp = ob.stamp, !.hasStamp = TRUE] ELSE r

FirstStop(r, stamp) == [At(r, "stopped", 0, stamp) EXCEPT !.hasStop = TRUE]

ReducerStopped(r, stamp) ==
    IF ~r.hasStop
    THEN Publish(FirstStop(r, stamp), <<"suspended">>)
    ELSE IF r.state = "running"
    THEN IF stamp = r.stopEpoch
         THEN Fault(r)
         ELSE Publish(At(r, "stopped", 0, stamp), <<"suspended">>)
    ELSE IF stamp = r.stopEpoch
    THEN Result(At(r, "stopped", 0, stamp), <<>>, TRUE)
    ELSE Publish(At(r, "stopped", 1, stamp), <<"invalidate", "resumed", "suspended">>)

ReducerRunning(r, stamp) ==
    IF r.state = "stopped"
    THEN IF stamp = r.stopEpoch
         THEN Publish(At(r, "running", 1, stamp), <<"invalidate", "resumed">>)
         ELSE Publish(At(r, "running", 2, stamp),
                      <<"invalidate", "resumed", "suspended", "resumed">>)
    ELSE IF r.state = "running" /\ stamp # r.stopEpoch /\ r.hasStop
    THEN Publish(At(r, "running", 1, stamp), <<"suspended", "resumed">>)
    ELSE Result(At(r, "running", 0, r.stopEpoch), <<>>, TRUE)

ReducerObserve(r, ob) ==
    IF r.state = "faulted"
    THEN Result(r, <<>>, FALSE)
    ELSE IF ~AcceptsStamp(r, ob)
    THEN Fault(r)
    ELSE CASE ob.status = "unknown" -> Result(NoteStamp(r, ob), <<>>, TRUE)
           [] ob.status = "stopped" -> ReducerStopped(NoteStamp(r, ob), ob.stamp)
           [] ob.status = "running" -> ReducerRunning(NoteStamp(r, ob), ob.stamp)

-----------------------------------------------------------------------------
(* The control lease.  The empty owner never holds it.                      *)

NoOwner == "none"

AcquireControl(lease, owner) ==
    IF lease \in {NoOwner, owner} THEN owner ELSE lease

ReleaseControl(lease, owner) ==
    IF lease = owner THEN NoOwner ELSE lease

RequireControl(lease, owner) == owner # NoOwner /\ lease = owner
=============================================================================
