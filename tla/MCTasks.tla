------------------------------ MODULE MCTasks -------------------------------
(* Instances of Tasks for TLC.                                             *)
EXTENDS Tasks, TLC

CONSTANTS t1, t2, t3, r1, r2, r3, todo, finished, u1, u2

Send(s, a, l) == [patch |-> [c \in Column |-> IF c = "status" THEN s ELSE a], relabel |-> l]

\* Unassign; everything, with one label or with the other in its place.  Bodies
\* with both columns also serve as those of new tasks, which start without labels.
Bodies ==
  {Send(Unset, NoUser, Unset), Send(todo, u1, {"bug"}), Send(finished, u2, {"ui"})}

\* Requests start alike; which one does what is decided as they start.
RequestSymmetry == Permutations(Req) \cup Permutations(Task \ Existing)
=============================================================================
