------------------------------ MODULE MCBoard -------------------------------
(* Instances of Board for TLC.                                             *)
EXTENDS Board, TLC

CONSTANTS t1, t2, todo, done, m1, m2
=============================================================================
