---------------------------- MODULE NotifiedUser -----------------------------
(***************************************************************************)
(* The whole way of a notification to one user, `me`: the jobs of module   *)
(* Notifications, which store and announce it, with the bell of module     *)
(* NotificationPanel in a tab of that user.  Nothing is assumed of what    *)
(* arrives any more: the rows the bell asks for (unread_count and          *)
(* list_by_user) are those the jobs have committed for the user, and an    *)
(* event is on its way to the tab when a job has published it on the       *)
(* user's channel.  The bell's own actions Arrive, Announce and            *)
(* AnnounceFails are what has to come of this.                             *)
(***************************************************************************)
EXTENDS Notifications, NotificationPanel

CONSTANT me

\* The notifications of the bell are those of the user; the theorems presume it.
MyNotes == Note = {n \in RowId : n[2][2] = me}

tab == <<read, open, fetch, ans, data, invalid, clicks>>

NotifiedInit == Init /\ BellInit

\* What the queries and the channel of the user see of the tables.
UserTable == inbox' = rows' \cap Note /\ sending' = Sending' \cap Note

Mine(j) == pc[j] = "publish" /\ \E d \in cur[j] : d[2] = me

\* A job publishes on the channel of its recipient.
PublishMine(j, d) ==
  /\ Mine(j) /\ Publish(j, d) /\ UserTable
  /\ wire' = wire + 1
  /\ UNCHANGED <<tab, missed, failures>>

\* The end of a job between commit and publish; nobody will tell the tab.
LoseMine(j) ==
  /\ Mine(j) /\ JobFails(j) /\ UserTable
  /\ MayFail /\ Unnoticed
  /\ UNCHANGED <<tab, wire>>

\* Everything else the server does, commits of the user's rows included.
ServerStep ==
  /\ \/ \E j \in Job : Begin(j)
     \/ \E j \in Job : ~ Mine(j) /\ (JobStep(j) \/ JobFails(j))
     \/ Elsewhere
  /\ UserTable
  /\ UNCHANGED <<tab, wire, missed, failures>>

NotifiedNext ==
  \/ \E j \in Job : LoseMine(j) \/ \E d \in Dispatch : PublishMine(j, d)
  \/ ServerStep
  \/ TabStep /\ UNCHANGED vars

NotifiedSpec == NotifiedInit /\ [][NotifiedNext]_<<vars, bell>>

-----------------------------------------------------------------------------
(* Properties.                                                             *)

\* To the bell the jobs are what NotificationPanel takes them for: each row of
\* the user arrives once, and is announced after that, once, or lost.  A job
\* that did otherwise would show the bell a step that is none of its own.
BellIsServed == BellSpec

\* From the comment to the badge: once an uninterrupted loop of a comment, an
\* invitation or the daily job has ended, and nothing is on its way to the tab,
\* what it has for the user is counted by the badge or was read, unless the tab
\* has missed something; whatever else ran, failed or was read meanwhile.
BadgeTells ==
  fetch["count"] = "idle" /\ "count" \notin missed /\ ~ Pending =>
    \A j \in Job : pc[j] = "done" =>
      \A d \in wanted[j] : d[2] = me =>
        \/ <<j, d>> \in data["count"] \cup read
        \/ kind[j] = "comment" /\ (me = author[j] \/ me \notin base[j])
=============================================================================
