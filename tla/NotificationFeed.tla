-------------------------- MODULE NotificationFeed ---------------------------
(***************************************************************************)
(* What create_and_dispatch promises a bell: a notification is stored      *)
(* once, its event is published after that or never, and not twice.        *)
(* Notifications keeps the promise.                                        *)
(***************************************************************************)
CONSTANT Id     \* ids of notifications

VARIABLES
  stored,       \* committed rows
  sending       \* those whose event is still to be published

vars == <<stored, sending>>

Init == stored = {} /\ sending = {}

Store(n) ==
  /\ n \notin stored
  /\ stored' = stored \cup {n} /\ sending' = sending \cup {n}

\* Its event is published, or an error on the way loses it for good.
Settle(n) ==
  /\ n \in sending
  /\ sending' = sending \ {n}
  /\ UNCHANGED stored

Next == (\E n \in Id : Store(n)) \/ (\E n \in sending : Settle(n))

Spec == Init /\ [][Next]_vars
=============================================================================
