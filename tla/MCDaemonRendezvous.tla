------------------------- MODULE MCDaemonRendezvous -------------------------
EXTENDS DaemonRendezvous

CONSTANTS d0, c1, c2, e1, e2

(* d0, and c2 if e2 is left out, are started by hand.                       *)
MCChild == [e \in Ensurers |-> IF e = e1 THEN c1 ELSE c2]

(* c1 and d0 share a configuration, c2 has another.                         *)
MCProjects == {[d \in Daemons |-> IF d = c2 THEN 2 ELSE 1]}

(* One configuration for all.                                               *)
MCOneProject == {[d \in Daemons |-> 1]}
=============================================================================
