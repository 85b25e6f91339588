--------------------------- MODULE MCAuthSession ----------------------------
(* Instances of AuthSession for TLC.                                       *)
EXTENDS AuthSession, TLC

CONSTANTS t1, t2, u1, u2
=============================================================================
