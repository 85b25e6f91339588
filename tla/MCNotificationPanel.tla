------------------------ MODULE MCNotificationPanel -------------------------
(* Instances of NotificationPanel for TLC.                                 *)
EXTENDS NotificationPanel, TLC

CONSTANTS n1, n2, c1, c2
=============================================================================
