---------------------------- MODULE Notifications ----------------------------
(***************************************************************************)
(* Invitations, mentions and reminders of one project, and the             *)
(* notifications they cause (services/project_service.py,                  *)
(* comment_service.py, notification_service.py, workers/tasks.py).         *)
(*                                                                         *)
(* A job is one request, or one run of the daily job: after its own commit *)
(* a loop of dispatches, each of which commits a row, publishes an event   *)
(* and queues an e-mail.  Nothing in the loop catches an exception, so a   *)
(* job that fails leaves the rest undone.  A row is known by its job, task *)
(* and recipient; the order of a loop (the text of a comment, a query      *)
(* without ORDER BY) can be any.  Workspaces invite in the same way.       *)
(***************************************************************************)
EXTENDS Naturals, Sequences, FiniteSets

CONSTANTS
  User, Task, Job,
  NoUser,        \* nobody is to be reminded of a task
  NoTask,        \* task_id is NULL
  FirstMembers,  \* members of the project at the start
  FirstAdmins,   \* those of them who are admins or owners
  FirstDue,      \* whom tomorrow's reminder of each task is for, at the start
  MaxFailures    \* bound: jobs that fail for no reason of the project's

\* Owners can do what admins can.
Role == {"member", "admin"}
Entry == [actor : User, user : User, role : Role]

Dispatch == (Task \cup {NoTask}) \X User
RowId == Job \X Dispatch

ASSUME NoneAssumption == NoUser \notin User /\ NoTask \notin Task
ASSUME FirstAssumption ==
  /\ FirstAdmins \in SUBSET FirstMembers /\ FirstMembers \in SUBSET User
  /\ FirstDue \in [Task -> User \cup {NoUser}]

VARIABLES
  tasks,      \* ids of the tasks that exist
  due,        \* the assignee of a task that is due tomorrow and not done
  members,    \* project_memberships, unique by user
  admins,     \* those with a ROLE_RANK of admin or more
  log,        \* the entries MEMBER_INVITED of the activity log, as committed
  pc,         \* where each job stands
  kind, author, wanted, \* what it is, who asked for it, its dispatches
  base,       \* the members when it started
  todo, cur,  \* its remaining dispatches, and the one under way
  rows,       \* the table of notifications
  published,  \* rows whose event went out
  mail        \* the e-mail of each row

team == <<members, admins, log>>
project == <<tasks, due, team>>
asked == <<kind, author, wanted, base>>
sent == <<rows, published, mail>>
vars == <<project, pc, asked, todo, cur, sent>>

Init ==
  /\ tasks = Task /\ due = FirstDue
  /\ members = FirstMembers /\ admins = FirstAdmins /\ log = <<>>
  /\ pc = [j \in Job |-> "idle"]
  /\ kind = [j \in Job |-> "none"] /\ author = [j \in Job |-> NoUser]
  /\ wanted = [j \in Job |-> {}] /\ base = [j \in Job |-> {}]
  /\ todo = [j \in Job |-> {}] /\ cur = [j \in Job |-> {}]
  /\ rows = {} /\ published = {}
  /\ mail = [d \in RowId |-> "none"]

Goto(j, there) == pc' = [pc EXCEPT ![j] = there]

-----------------------------------------------------------------------------
(* What causes notifications.                                              *)

Start(j, k, a, dispatches, there) ==
  /\ pc[j] = "idle"
  /\ kind' = [kind EXCEPT ![j] = k] /\ author' = [author EXCEPT ![j] = a]
  /\ wanted' = [wanted EXCEPT ![j] = dispatches] /\ todo' = [todo EXCEPT ![j] = dispatches]
  /\ base' = [base EXCEPT ![j] = members]
  /\ Goto(j, there)
  /\ UNCHANGED <<project, cur, sent>>

\* Wrong version: require_project_role(Role.MEMBER).
StartInviteByAny(j, a, u) ==
  a \in members /\ u \notin members /\ Start(j, "invite", a, {<<NoTask, u>>}, "insert")

\* invite_project_member, whose caller has to be an admin or owner, up to the
\* check of invite_member for an existing membership.
StartInvite(j, a, u) ==
  a \in admins /\ u \notin members /\ Start(j, "invite", a, {<<NoTask, u>>}, "insert")

\* Wrong version: without uq_membership_project_user.
InsertMemberTwice(j, u, r) ==
  /\ pc[j] = "insert" /\ <<NoTask, u>> \in todo[j]
  /\ members' = members \cup {u} /\ Goto(j, "loop")
  /\ admins' = IF r = "admin" THEN admins \cup {u} ELSE admins
  /\ log' = Append(log, [actor |-> author[j], user |-> u, role |-> r])
  /\ UNCHANGED <<tasks, due, asked, todo, cur, sent>>

\* The INSERT of the membership, its entry in the log and the commit of both.
\* If another invitation was first, uq_membership_project_user refuses it and
\* the request ends.  The role asked for, which nothing reads before, is r.
InsertMember(j, u, r) ==
  /\ pc[j] = "insert" /\ <<NoTask, u>> \in todo[j]
  /\ IF u \in members
       THEN Goto(j, "stopped") /\ UNCHANGED team
       ELSE /\ Goto(j, "loop")
            /\ members' = members \cup {u}
            /\ admins' = IF r = "admin" THEN admins \cup {u} ELSE admins
            /\ log' = Append(log, [actor |-> author[j], user |-> u, role |-> r])
  /\ UNCHANGED <<tasks, due, asked, todo, cur, sent>>

\* create_comment, committed and published, with the accounts it mentions.
StartComment(j, t, a, mentioned) ==
  /\ t \in tasks /\ a \in members
  /\ Start(j, "comment", a, {t} \X mentioned, "loop")

\* The daily job loads the tasks that are due tomorrow, and goes by what it
\* loaded (expire_on_commit=False).
StartReminders(j) ==
  Start(j, "reminders", NoUser, {d \in tasks \X User : due[d[1]] = d[2]}, "loop")

\* Requests on tasks (module Tasks): an assignment, a new status or due date; a
\* deletion.
EditTask(t, u) ==
  /\ t \in tasks /\ due' = [due EXCEPT ![t] = u]
  /\ UNCHANGED <<tasks, team, pc, asked, todo, cur, sent>>

DeleteTask(t) ==
  /\ t \in tasks /\ tasks' = tasks \ {t}
  /\ due' = [due EXCEPT ![t] = NoUser]
  /\ UNCHANGED <<team, pc, asked, todo, cur, sent>>

-----------------------------------------------------------------------------
(* The loop.                                                               *)

\* The conditions of _notify_mentions, looked up when the turn comes.
Skipped(j, d) == kind[j] = "comment" /\ (d[2] = author[j] \/ d[2] \notin members)

\* Wrong version: return instead of continue.
SkipAll(j, d) ==
  /\ pc[j] = "loop" /\ d \in todo[j] /\ Skipped(j, d)
  /\ todo' = [todo EXCEPT ![j] = {}]
  /\ UNCHANGED <<project, pc, asked, cur, sent>>

Skip(j, d) ==
  /\ pc[j] = "loop" /\ d \in todo[j] /\ Skipped(j, d)
  /\ todo' = [todo EXCEPT ![j] = @ \ {d}]
  /\ UNCHANGED <<project, pc, asked, cur, sent>>

\* Wrong version: the event is published before the row is committed, which
\* happens only at the end.
CommitLate(j, d) ==
  /\ pc[j] = "loop" /\ d \in todo[j] /\ ~ Skipped(j, d)
  /\ Goto(j, "publish")
  /\ cur' = [cur EXCEPT ![j] = {d}]
  /\ UNCHANGED <<project, asked, todo, sent>>

\* create_and_dispatch: INSERT and commit.  The foreign key needs the task.
Commit(j, d) ==
  /\ pc[j] = "loop" /\ d \in todo[j] /\ ~ Skipped(j, d)
  /\ IF d[1] \in tasks \cup {NoTask}
       THEN rows' = rows \cup {<<j, d>>} /\ Goto(j, "publish")
       ELSE UNCHANGED rows /\ Goto(j, "stopped")
  /\ cur' = [cur EXCEPT ![j] = {d}]
  /\ UNCHANGED <<project, asked, todo, published, mail>>

\* publish_notification_event; module NotificationPanel has the rest of its way.
Publish(j, d) ==
  /\ pc[j] = "publish" /\ d \in cur[j]
  /\ published' = published \cup {<<j, d>>}
  /\ Goto(j, "email")
  /\ UNCHANGED <<project, asked, todo, cur, rows, mail>>

\* Wrong version: the event is thought to be enough.
QueueNoEmail(j, d) ==
  /\ pc[j] = "email" /\ d \in cur[j]
  /\ todo' = [todo EXCEPT ![j] = @ \ {d}]
  /\ cur' = [cur EXCEPT ![j] = {}]
  /\ Goto(j, "loop")
  /\ UNCHANGED <<project, asked, sent>>

\* send_notification_email.delay; the loop goes on.
QueueEmail(j, d) ==
  /\ pc[j] = "email" /\ d \in cur[j]
  /\ mail' = [mail EXCEPT ![<<j, d>>] = "queued"]
  /\ todo' = [todo EXCEPT ![j] = @ \ {d}]
  /\ cur' = [cur EXCEPT ![j] = {}]
  /\ Goto(j, "loop")
  /\ UNCHANGED <<project, asked, rows, published>>

EndJob(j) ==
  /\ pc[j] = "loop" /\ todo[j] = {}
  /\ Goto(j, "done")
  /\ UNCHANGED <<project, asked, todo, cur, sent>>

\* Redis or Postgres raises, or the process ends.
JobFails(j) ==
  /\ pc[j] \in {"insert", "loop", "publish", "email"}
  /\ Cardinality({i \in Job : pc[i] = "failed"}) < MaxFailures
  /\ Goto(j, "failed")
  /\ UNCHANGED <<project, asked, todo, cur, sent>>

\* The worker takes the e-mail off the queue; if SMTP refuses it, it is not
\* tried again.
SendEmail(d) ==
  /\ mail[d] = "queued"
  /\ mail' = [mail EXCEPT ![d] = "taken"]
  /\ UNCHANGED <<project, pc, asked, todo, cur, rows, published>>

-----------------------------------------------------------------------------
Begin(j) ==
  \/ \E a, u \in User : StartInvite(j, a, u)
  \/ \E t \in Task, a \in User, m \in SUBSET User : StartComment(j, t, a, m)
  \/ StartReminders(j)

JobStep(j) ==
  \/ \E u \in User, r \in Role : InsertMember(j, u, r)
  \/ \E d \in Dispatch : Skip(j, d) \/ Commit(j, d) \/ Publish(j, d) \/ QueueEmail(j, d)
  \/ EndJob(j)

Elsewhere ==
  \/ \E d \in RowId : SendEmail(d)
  \/ \E t \in Task : DeleteTask(t) \/ \E u \in User \cup {NoUser} : EditTask(t, u)

Next == (\E j \in Job : Begin(j) \/ JobStep(j) \/ JobFails(j)) \/ Elsewhere

Spec == Init /\ [][Next]_vars

-----------------------------------------------------------------------------
(* Properties.                                                             *)

\* Every variable has its type.
TypeOK ==
  /\ tasks \in SUBSET Task /\ due \in [Task -> User \cup {NoUser}]
  /\ members \in SUBSET User /\ admins \in SUBSET members
  /\ log \in Seq(Entry)
  /\ pc \in [Job -> {"idle", "insert", "loop", "publish", "email", "done", "stopped", "failed"}]
  /\ kind \in [Job -> {"none", "invite", "comment", "reminders"}]
  /\ author \in [Job -> User \cup {NoUser}]
  /\ wanted \in [Job -> SUBSET Dispatch] /\ base \in [Job -> SUBSET members]
  /\ todo \in [Job -> SUBSET Dispatch] /\ cur \in [Job -> SUBSET Dispatch]
  /\ rows \in SUBSET RowId /\ published \in SUBSET rows
  /\ mail \in [RowId -> {"none", "queued", "taken"}]

Complete(d) == d \in published /\ mail[d] # "none"
Untouched(d) == d \notin rows /\ mail[d] = "none"

\* A notification is all or nothing, row, event and e-mail, except for the one
\* at which its loop stands or was interrupted.
AllOrNothing ==
  \A j \in Job, d \in Dispatch :
    \/ Complete(<<j, d>>) \/ Untouched(<<j, d>>)
    \/ d \in cur[j] /\ pc[j] \in {"publish", "email", "failed"}

\* A loop that came to its end has notified everybody it was for: a comment all
\* members it mentions but its author, the daily job all assignees it loaded,
\* an invitation the new member.
EverybodyNotified ==
  \A j \in Job : pc[j] = "done" =>
    \A d \in wanted[j] :
      \/ Complete(<<j, d>>)
      \/ kind[j] = "comment" /\ (d[2] = author[j] \/ d[2] \notin base[j])

\* "A mention only notifies if that email belongs to an actual member of the
\* project" (README.md), and never its author.
OnlyMembersMentioned ==
  \A j \in Job, d \in Dispatch :
    <<j, d>> \in rows /\ kind[j] = "comment" => d[2] \in members /\ d[2] # author[j]

\* However invitations of one user race, one of them is told to the user.
InvitedOnce ==
  \A i, j \in Job, u \in User :
    <<i, <<NoTask, u>>>> \in rows /\ <<j, <<NoTask, u>>>> \in rows => i = j
\* Those invited, and those invited as admins, by the first n entries.
Admitted(n) == {log[i].user : i \in 1..n}
Promoted(n) == {log[i].user : i \in {k \in 1..n : log[k].role = "admin"}}

\* The log accounts for the members: whoever was not one from the start was
\* invited once, by somebody who was an admin from the start or had been invited
\* as one before; "the log entry only persists if the action it describes
\* actually commits" (activity_service.py).
InvitationsLogged ==
  /\ members = FirstMembers \cup Admitted(Len(log))
  /\ \A i \in DOMAIN log :
       /\ log[i].user \notin FirstMembers \cup Admitted(i - 1)
       /\ log[i].actor \in FirstAdmins \cup Promoted(i - 1)

\* Rows whose event is still to be published.
Sending == UNION {{j} \X cur[j] : j \in {i \in Job : pc[i] = "publish"}}

Feed == INSTANCE NotificationFeed WITH Id <- RowId, stored <- rows, sending <- Sending

\* Jobs that overlap, fail or start again store every notification once and
\* publish its event only then and not twice, which is what a bell
\* (NotificationPanel) is written for.
ImplementsFeed == Feed!Spec
=============================================================================
