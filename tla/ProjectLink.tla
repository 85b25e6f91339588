---------------------------- MODULE ProjectLink -----------------------------
(***************************************************************************)
(* What a page may rely on of useProjectSocket.ts, without its effect,     *)
(* closures, timers and sockets: events come from the room of the project  *)
(* on the page and from no other, the link can break and come back at any  *)
(* time, and a change of project breaks it at once.                        *)
(***************************************************************************)
CONSTANTS Project, NoProject

VARIABLES
  shown,  \* the project on the page
  linked  \* the rooms whose events reach the page

Init == shown = NoProject /\ linked = {}

\* The page turns to a project, or to none.
Show(p) == p # shown /\ shown' = p /\ linked' = {}

Up == shown # NoProject /\ linked = {} /\ linked' = {shown} /\ UNCHANGED shown

Down == linked # {} /\ linked' = {} /\ UNCHANGED shown

Next == (\E p \in Project \cup {NoProject} : Show(p)) \/ Up \/ Down

Spec == Init /\ [][Next]_<<shown, linked>>
=============================================================================
