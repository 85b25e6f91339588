--------------------------- MODULE MCAttachments ----------------------------
(* Instances of Attachments for TLC: a task, and possibly a subtask of it.  *)
EXTENDS Attachments, TLC

CONSTANTS t1, t2, r1, r2, r3, r4

\* t2, if there is one, is a subtask of t1.
SubtaskOfT1 == [t \in Task |-> IF t = t1 THEN NoTask ELSE t1]

\* Requests start alike; which one does what is decided as they start.
RequestSymmetry == Permutations(Req)
=============================================================================
