------------------------------- MODULE Tasks --------------------------------
(***************************************************************************)
(* The tasks of one project and the requests that create, patch and delete *)
(* them (app/services/task_service.py, app/crud/task.py), with the         *)
(* activity log, the events and the notifications of assignments.  The     *)
(* requests run at the same time, on any number of backend processes.      *)
(*                                                                         *)
(* Each request reads first (the dependency that loads the task, or the    *)
(* MAX(position) of a new one), decides from what it read, and writes in   *)
(* the step of its commit: Postgres runs it at READ COMMITTED, nothing is  *)
(* locked by the reads, and row locks make the writes of one commit        *)
(* indivisible.  Afterwards it reads the row again, publishes, notifies.   *)
(*                                                                         *)
(* The columns are "status" and "assignee"; title, description, priority   *)
(* and due date go through the same loop as status.  A request is used     *)
(* once and keeps what it read, so the activity log is the requests with   *)
(* at[r] > 0 in that order: the log entry of r holds seen and patch.       *)
(***************************************************************************)
EXTENDS Naturals, FiniteSets

CONSTANTS
  Task, Req, Label,
  Status, Member,   \* the columns of the board; the members of the project
  NoUser,           \* assignee_id is NULL
  Unset,            \* a field the client did not send
  Existing,         \* the tasks at the start, in the column FirstStatus
  FirstStatus,
  MaxFailures,      \* bound: how many requests may fail
  Body              \* what clients send: columns and labels

Column == {"status", "assignee"}
Value  == Status \cup Member \cup {NoUser}

ASSUME NonEmptyAssumption == Task # {} /\ Member # {}
ASSUME NoUserAssumption == NoUser \notin Member \cup Status
ASSUME UnsetAssumption  == Unset \notin Value /\ \A l \in SUBSET Label : Unset # l
ASSUME ExistingAssumption == Existing \subseteq Task
ASSUME FirstStatusAssumption == FirstStatus \in Status
ASSUME BodyAssumption ==
  Body \subseteq [patch : [Column -> Value \cup {Unset}], relabel : {Unset} \cup SUBSET Label]

VARIABLES
  tasks,     \* the ids in the table
  row,       \* the columns of each task
  labels,    \* its rows in task_labels
  position,  \* its position
  made,      \* ids that were ever given to a task (uuids)
  pc,        \* where each request stands
  req,       \* what it is, and what it read when it started
  fresh,     \* the assignee it saw in db.refresh after its commit
  at,        \* when its log entry was committed; 0: never
  commits,   \* how many log entries there are
  unannounced, \* committed changes that no event has followed yet
  notified   \* who has been notified of each task's assignment since it was made

database == <<tasks, row, labels, position, made>>
vars == <<database, pc, req, fresh, at, commits, unannounced, notified>>

Kinds == {"none", "create", "patch", "delete"}
PCs == {"idle", "ready", "refresh", "publish", "notify", "done", "failed"}
UnderWay == {"ready", "refresh", "publish", "notify"}

Row == [Column -> Value]
Request ==
  [kind : Kinds, task : Task, actor : Member,
   patch : [Column -> Value \cup {Unset}], relabel : {Unset} \cup SUBSET Label,
   seen : Row, seenLabels : SUBSET Label, base : Nat, spot : Nat]

\* What a task that nobody has changed yet looks like, and no request.
EmptyRow == [c \in Column |-> IF c = "status" THEN FirstStatus ELSE NoUser]
NoRequest ==
  [kind |-> "none", task |-> CHOOSE t \in Task : TRUE, actor |-> CHOOSE u \in Member : TRUE,
   patch |-> [c \in Column |-> Unset], relabel |-> Unset,
   seen |-> EmptyRow, seenLabels |-> {}, base |-> 0, spot |-> 0]

Init ==
  /\ tasks = Existing /\ made = Existing
  /\ row = [t \in Task |-> EmptyRow]
  /\ labels = [t \in Task |-> {}]
  /\ position = [t \in Task |-> 1]
  /\ pc = [r \in Req |-> "idle"]
  /\ req = [r \in Req |-> NoRequest]
  /\ fresh = [r \in Req |-> NoUser]
  /\ at = [r \in Req |-> 0]
  /\ commits = 0
  /\ unannounced = {}
  /\ notified = [t \in Task |-> {}]

Goto(r, there) == pc' = [pc EXCEPT ![r] = there]

-----------------------------------------------------------------------------
(* Reading.                                                                *)

\* What every request keeps of its reading.
Start(r, kind, t, u, b, spot) ==
  /\ pc[r] = "idle"
  /\ req' = [req EXCEPT ![r] =
       [kind |-> kind, task |-> t, actor |-> u, patch |-> b.patch, relabel |-> b.relabel,
        seen |-> row[t], seenLabels |-> labels[t], base |-> commits, spot |-> spot]]
  /\ Goto(r, "ready")
  /\ UNCHANGED <<tasks, row, labels, position, fresh, at, commits, unannounced, notified>>

\* The result of the MAX query of task_crud.create, or 0 for an empty column.
IsMaxPosition(n, s) ==
  LET column == {t \in tasks : row[t]["status"] = s} IN
  /\ \A t \in column : position[t] <= n
  /\ n = 0 \/ \E t \in column : position[t] = n

\* Wrong version: the new task gets the last position instead of the next.
StartCreateOffByOne(r, t, u, b, n) ==
  /\ t \notin made
  /\ made' = made \cup {t}
  /\ \A c \in Column : b.patch[c] # Unset
  /\ IsMaxPosition(n, b.patch["status"])
  /\ Start(r, "create", t, u, b, n)

\* create_task up to the MAX query.
StartCreate(r, t, u, b, n) ==
  /\ t \notin made
  /\ made' = made \cup {t}
  /\ \A c \in Column : b.patch[c] # Unset
  /\ IsMaxPosition(n, b.patch["status"])
  /\ Start(r, "create", t, u, b, n + 1)

\* The task and its labels are loaded while the role is checked.
StartPatch(r, t, u, b) ==
  /\ t \in tasks
  /\ Start(r, "patch", t, u, b, 0)
  /\ UNCHANGED made

\* Nothing here depends on who deletes.
StartDelete(r, t) ==
  /\ t \in tasks
  /\ Start(r, "delete", t, NoRequest.actor, NoRequest, 0)
  /\ UNCHANGED made

-----------------------------------------------------------------------------
(* Deciding and writing.                                                   *)

\* The columns in `changes`: sent, and different from what was loaded.  Only
\* these are in the UPDATE.
Changed(q) == {c \in Column : q.patch[c] # Unset /\ q.patch[c] # q.seen[c]}
Relabels(q) == q.relabel # Unset /\ q.relabel # q.seenLabels
HasChanges(q) == Changed(q) # {} \/ Relabels(q)

\* The columns a request writes.
Written(q) ==
  CASE q.kind = "create" -> Column
    [] q.kind = "patch"  -> Changed(q)
    [] OTHER -> {}

Added(q)   == q.relabel \ q.seenLabels
Removed(q) == q.seenLabels \ q.relabel

\* Flush and commit of the log entry go with the change itself.
Log(r) ==
  /\ commits' = commits + 1
  /\ at' = [at EXCEPT ![r] = commits + 1]
  /\ unannounced' = unannounced \cup {r}

\* A new assignment makes the earlier notifications of the task old.
NewlyAssigned(t, columns) ==
  notified' = IF "assignee" \in columns THEN [notified EXCEPT ![t] = {}] ELSE notified

\* INSERT of the task and of the log entry.
CommitCreate(r) ==
  LET q == req[r] IN
  /\ pc[r] = "ready" /\ q.kind = "create"
  /\ tasks' = tasks \cup {q.task}
  /\ row' = [row EXCEPT ![q.task] = q.patch]
  /\ position' = [position EXCEPT ![q.task] = q.spot]
  /\ Log(r)
  /\ NewlyAssigned(q.task, Column)
  /\ Goto(r, "refresh")
  /\ UNCHANGED <<labels, made, req, fresh>>

\* Wrong version: the UPDATE has every column that was sent.
WriteAllSent(old, q) == [c \in Column |-> IF q.patch[c] = Unset THEN old[c] ELSE q.patch[c]]

\* The row after the UPDATE.
Write(old, q) == [c \in Column |-> IF c \in Changed(q) THEN q.patch[c] ELSE old[c]]

\* Wrong version: the labels sent are added to those of the task.
NewLabelsKeepsOld(old, q) == IF Relabels(q) THEN old \cup Added(q) ELSE old

\* Wrong version: the labels of the task are replaced by those sent.
NewLabelsReplaced(old, q) == IF Relabels(q) THEN q.relabel ELSE old

\* The rows of task_labels after the ORM has inserted what is new and deleted
\* what is gone, both relative to the loaded collection.
NewLabels(old, q) == IF Relabels(q) THEN (old \ Removed(q)) \cup Added(q) ELSE old

\* The UPDATE and the foreign keys need the row, and the primary key of
\* task_labels refuses a label twice.  Deleting a label that is gone already
\* is not noticed: asyncpg does not count the rows of such a DELETE.
CanWrite(q) ==
  /\ q.task \in tasks
  /\ Relabels(q) => Added(q) \cap labels[q.task] = {}

\* UPDATE of the changed columns, the rows of task_labels, the log entry.
CommitPatch(r) ==
  LET q == req[r] IN
  /\ pc[r] = "ready" /\ q.kind = "patch" /\ HasChanges(q) /\ CanWrite(q)
  /\ row' = [row EXCEPT ![q.task] = Write(row[q.task], q)]
  /\ labels' = [labels EXCEPT ![q.task] = NewLabels(labels[q.task], q)]
  /\ Log(r)
  /\ NewlyAssigned(q.task, Changed(q))
  /\ Goto(r, "refresh")
  /\ UNCHANGED <<tasks, position, made, req, fresh>>

\* Without changes nothing is written, logged or published.
CommitNothing(r) ==
  /\ pc[r] = "ready" /\ req[r].kind = "patch" /\ ~ HasChanges(req[r])
  /\ Goto(r, "done")
  /\ UNCHANGED <<database, req, fresh, at, commits, unannounced, notified>>

\* Wrong version: the event of a deletion is forgotten.
CommitDeleteSilently(r) ==
  LET q == req[r] IN
  /\ pc[r] = "ready" /\ q.kind = "delete" /\ labels[q.task] \subseteq q.seenLabels
  /\ tasks' = tasks \ {q.task}
  /\ labels' = [labels EXCEPT ![q.task] = {}]
  /\ Log(r)
  /\ Goto(r, "done")
  /\ UNCHANGED <<row, position, made, req, fresh, notified>>

\* A row that is already gone only earns a warning; a label that was added
\* since the task was loaded makes the foreign key of task_labels fail.
CommitDelete(r) ==
  LET q == req[r] IN
  /\ pc[r] = "ready" /\ q.kind = "delete" /\ labels[q.task] \subseteq q.seenLabels
  /\ tasks' = tasks \ {q.task}
  /\ labels' = [labels EXCEPT ![q.task] = {}]
  /\ Log(r)
  /\ Goto(r, "publish")
  /\ UNCHANGED <<row, position, made, req, fresh, notified>>

\* The transaction is rolled back; the client gets a 500.
Rollback(r) ==
  LET q == req[r] IN
  /\ pc[r] = "ready"
  /\ \/ q.kind = "patch" /\ HasChanges(q) /\ ~ CanWrite(q)
     \/ q.kind = "delete" /\ ~ (labels[q.task] \subseteq q.seenLabels)
  /\ Goto(r, "done")
  /\ UNCHANGED <<database, req, fresh, at, commits, unannounced, notified>>

-----------------------------------------------------------------------------
(* After the commit.                                                       *)

\* Wrong version: a patch answers without reading the row again.
RefreshSkipped(r) ==
  /\ pc[r] = "refresh"
  /\ fresh' = [fresh EXCEPT ![r] = req[r].seen["assignee"]]
  /\ Goto(r, "publish")
  /\ UNCHANGED <<database, req, at, commits, unannounced, notified>>

\* db.refresh reads what is committed by now, by whomever; it raises if the
\* task is gone, and then there is no event.
Refresh(r) ==
  /\ pc[r] = "refresh"
  /\ IF req[r].task \in tasks
       THEN fresh' = [fresh EXCEPT ![r] = row[req[r].task]["assignee"]] /\ Goto(r, "publish")
       ELSE UNCHANGED fresh /\ Goto(r, "done")
  /\ UNCHANGED <<database, req, at, commits, unannounced, notified>>

\* Whom create_and_dispatch is called for: a creation goes by its input, a
\* patch by the row it read after its commit.
Recipient(r) ==
  LET q == req[r]
      u == CASE q.kind = "create" -> q.patch["assignee"]
             [] q.kind = "patch" /\ "assignee" \in Changed(q) -> fresh[r]
             [] OTHER -> NoUser
  IN  IF u = q.actor THEN NoUser ELSE u

\* Clients that get an event fetch the tasks again, whatever the event says.
Publish(r) ==
  /\ pc[r] = "publish"
  /\ unannounced' = {q \in unannounced : req[q].task # req[r].task}
  /\ Goto(r, IF Recipient(r) = NoUser THEN "done" ELSE "notify")
  /\ UNCHANGED <<database, req, fresh, at, commits, notified>>

\* create_and_dispatch up to its commit.  The foreign key needs the task.
Notify(r) ==
  LET t == req[r].task IN
  /\ pc[r] = "notify"
  /\ notified' = IF t \in tasks THEN [notified EXCEPT ![t] = @ \cup {Recipient(r)}]
                                ELSE notified
  /\ Goto(r, "done")
  /\ UNCHANGED <<database, req, fresh, at, commits, unannounced>>

\* Invalid input, a lost connection to Postgres or Redis, a crash: the request
\* goes no further.
Fail(r) ==
  /\ pc[r] \in UnderWay
  /\ Cardinality({q \in Req : pc[q] = "failed"}) < MaxFailures
  /\ Goto(r, "failed")
  /\ UNCHANGED <<database, req, fresh, at, commits, unannounced, notified>>

-----------------------------------------------------------------------------
Begin(r) ==
  /\ pc[r] = "idle"
  /\ \E t \in Task :
       \/ \E u \in Member, b \in Body :
            \/ \E n \in {0} \cup {position[x] : x \in tasks} : StartCreate(r, t, u, b, n)
            \/ StartPatch(r, t, u, b)
       \/ StartDelete(r, t)

Step(r) ==
  \/ CommitCreate(r) \/ CommitPatch(r) \/ CommitNothing(r) \/ CommitDelete(r) \/ Rollback(r)
  \/ Refresh(r) \/ Publish(r) \/ Notify(r)

Next == \E r \in Req : Begin(r) \/ Step(r) \/ Fail(r)

Spec == Init /\ [][Next]_vars

-----------------------------------------------------------------------------
(* Properties.                                                             *)

\* Every variable has its type.
TypeOK ==
  /\ tasks \in SUBSET made /\ made \in SUBSET Task
  /\ row \in [Task -> Row]
  /\ labels \in [Task -> SUBSET Label]
  /\ position \in [Task -> Nat]
  /\ pc \in [Req -> PCs]
  /\ req \in [Req -> Request]
  /\ fresh \in [Req -> Value]
  /\ at \in [Req -> Nat] /\ commits \in Nat
  /\ unannounced \in SUBSET Req
  /\ notified \in [Task -> SUBSET Value]

Logged(r) == at[r] > 0

\* The requests that wrote a column of a task, and the last of them.  The log
\* entry of a patch names the column; that of a creation, which writes them all,
\* is a summary without columns.
Writers(t, c) == {r \in Req : Logged(r) /\ req[r].task = t /\ c \in Written(req[r])}
LastWriter(r, t, c) ==
  r \in Writers(t, c) /\ \A q \in Writers(t, c) : at[q] <= at[r]

\* No other request changed the task between r's reading it and r's commit.
Alone(r) ==
  \A q \in Req : req[q].task = req[r].task => ~ (req[r].base < at[q] /\ at[q] < at[r])

\* The activity log tells what the row holds: the value of a column is the
\* "new" of the last entry that names it (activity_service.log, in the
\* transaction of the change), or what the task was created with, whatever the
\* concurrent patches read.
LogExplainsRow ==
  \A t \in tasks, c \in Column :
    /\ \A r \in Req : LastWriter(r, t, c) => row[t][c] = req[r].patch[c]
    /\ Writers(t, c) = {} => row[t][c] = EmptyRow[c]

\* A patch that met no other one leaves the task as its body says, fields that
\* need no change included, and the labels are replaced as a whole.
PatchTakesEffect ==
  \A r \in Req :
    LET q == req[r] IN
    ( /\ Logged(r) /\ q.kind = "patch" /\ q.task \in tasks /\ Alone(r)
      /\ \A o \in Req : req[o].task = q.task => at[o] <= at[r] )
    => /\ \A c \in Column : q.patch[c] # Unset => row[q.task][c] = q.patch[c]
       /\ q.relabel # Unset => labels[q.task] = q.relabel

\* The requests that changed a label of a task, and the last of them.
Relabelers(t, l) ==
  {r \in Req : /\ Logged(r) /\ req[r].kind = "patch" /\ req[r].task = t
               /\ Relabels(req[r]) /\ l \in Added(req[r]) \cup Removed(req[r])}
LastRelabeler(r, t, l) ==
  r \in Relabelers(t, l) /\ \A q \in Relabelers(t, l) : at[q] <= at[r]

\* Two edits of a task's labels at once, which both send a whole list, merge: a
\* label is on the task exactly if the last committed edit that meant to change
\* it put it there, and no edit undoes what another has done to other labels.
LabelsMerge ==
  \A t \in tasks, l \in Label :
    /\ \A r \in Req : LastRelabeler(r, t, l) => (l \in labels[t] <=> l \in req[r].relabel)
    /\ Relabelers(t, l) = {} => l \notin labels[t]

\* Whoever has a task assigned gets to know of it, however assignments race:
\* once the request that made the assignment is through, its assignee has a
\* notification made since, unless the assignee made the assignment.
AssigneeNotified ==
  \A t \in tasks, r \in Req :
    LET u == row[t]["assignee"] IN
    LastWriter(r, t, "assignee") /\ u # NoUser /\ pc[r] = "done"
    => u \in notified[t] \/ u = req[r].actor

\* Every committed change is followed by an event on its task, so that boards
\* fetch it, also when the request that made it found the task gone before it
\* could publish: somebody is about to publish, or has failed.
ChangesAnnounced ==
  \A r \in unannounced : \E q \in unannounced :
    req[q].task = req[r].task /\ pc[q] \in {"refresh", "publish", "failed"}

\* "New tasks go to the end of their status column": a task that is not below
\* a newer one in its column has come there since the newer one read the
\* MAX(position).
NewTaskAtEnd ==
  \A r \in Req, u \in tasks :
    LET t == req[r].task IN
    ( /\ Logged(r) /\ req[r].kind = "create" /\ t \in tasks /\ t # u
      /\ Writers(t, "status") = {r}
      /\ row[u]["status"] = row[t]["status"] /\ position[u] >= position[t] )
    => \E q \in Writers(u, "status") : at[q] > req[r].base
=============================================================================
