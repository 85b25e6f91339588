----------------------------- MODULE MCPresence -----------------------------
(***************************************************************************)
(* Instances of Presence for TLC.  Tabs of one user share a count in       *)
(* Redis; tabs of different users share only the channel.                  *)
(***************************************************************************)
EXTENDS Presence, TLC

CONSTANTS c1, c2, c3, c4, alice, bob, p, q

AllAlice    == [c \in Conn |-> alice]
TwoAndOne   == [c \in Conn |-> IF c = c3 THEN bob ELSE alice]
ThreeAndOne == [c \in Conn |-> IF c = c4 THEN bob ELSE alice]

OneProcess   == [c \in Conn |-> p]
TwoProcesses == [c \in Conn |-> IF c = c1 THEN p ELSE q]

\* Tabs of one user on one process are interchangeable (safety runs only).
TabSymmetry == Permutations({c1, c2, c3})
=============================================================================
