---------------------------- MODULE MCInspection ----------------------------
(* Model checking Inspection: two cores, three handles until the ids are     *)
(* exhausted, stacks of one frame, levels of one scalar and one structure.   *)
EXTENDS Inspection

MCPageArguments == {[start |-> 0, count |-> 1]}

MCOffsets == {-1, 1}

MCSnapshots ==
    {<<[label |-> 1, expandable |-> FALSE], [label |-> 2, expandable |-> TRUE]>>}
=============================================================================
