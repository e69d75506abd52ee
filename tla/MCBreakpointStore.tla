-------------------------- MODULE MCBreakpointStore --------------------------
(* Values for TLC. *)
EXTENDS BreakpointStore

CONSTANTS f1, f2

(* Two frontends in turn on one core; one frontend with a source on two     *)
(* cores that may disagree; one frontend that moves from line to line.      *)
MCInstances ==
    {[requested |-> {{10}}, cores |-> {0}, owners |-> {f1, f2}, maxStamp |-> 1,
      setFailures |-> {"uncertain"}],
     [requested |-> {{10}, {}}, cores |-> {0, 1}, owners |-> {f1}, maxStamp |-> 0,
      setFailures |-> {"moved", "lost"}],
     [requested |-> {{10}, {20}}, cores |-> {0}, owners |-> {f1}, maxStamp |-> 0,
      setFailures |-> {"refused", "uncertain", "lost"}]}
=============================================================================
