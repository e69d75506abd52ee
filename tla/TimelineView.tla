---------------------------- MODULE TimelineView ----------------------------
(***************************************************************************)
(* What the session core promises about the target, without saying how.    *)
(*                                                                         *)
(* The target's history is a line of positions: 0 is the first stop, 1 the  *)
(* execution after it, 2 the second stop, and so on.  truth is where the    *)
(* target is, view where the session believes it is.  The target moves on   *)
(* by itself.  A look moves the view forward to some position the target    *)
(* has already reached, possibly skipping cycles nobody saw, and never back *)
(* or ahead.  A session that cannot keep this promise says so, for good.    *)
(***************************************************************************)
EXTENDS Integers

VARIABLES truth, view

Lost == -1

Init == truth \in Nat /\ view = 0

TargetMoves == truth' = truth + 1 /\ UNCHANGED view

Look == view # Lost /\ view' \in view..truth /\ UNCHANGED truth

Lose == view' = Lost /\ UNCHANGED truth

Next == TargetMoves \/ Look \/ Lose

Spec == Init /\ [][Next]_<<truth, view>>

(* The promise as an invariant of the abstract machine.                     *)
ViewIsHistory == view = Lost \/ view \in 0..truth
=============================================================================
