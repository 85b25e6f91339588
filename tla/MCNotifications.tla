-------------------------- MODULE MCNotifications ---------------------------
(* Instances of Notifications for TLC.                                     *)
EXTENDS Notifications, TLC

CONSTANTS u1, u2, u3, t1, t2, j1, j2

\* Nothing is due at the start; EditTask makes it so.
NothingDue == [t \in Task |-> NoUser]

\* Nothing tells jobs or tasks apart, nor users who are not yet members.
Symmetry == Permutations(Job) \cup Permutations(Task) \cup Permutations(User \ FirstMembers)
=============================================================================
