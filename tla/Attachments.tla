---------------------------- MODULE Attachments -----------------------------
(***************************************************************************)
(* Files of tasks: rows of the attachments table in Postgres, objects in   *)
(* the MinIO bucket, and the requests that write both                      *)
(* (app/services/attachment_service.py, delete_task of task_service.py,    *)
(* create_comment of comment_service.py), each in its own transaction and  *)
(* possibly on different backend processes.                                *)
(*                                                                         *)
(* A step is one statement, one commit or one call to the bucket.  What a  *)
(* transaction flushes becomes visible, and its foreign keys are checked,  *)
(* in the step of its commit: row locks make the others wait until then.   *)
(* A request is used once; it names the object it uploads (a storage key   *)
(* has a fresh uuid) and the comment it writes.                            *)
(***************************************************************************)
EXTENDS Naturals, FiniteSets

CONSTANTS
  Task, NoTask,
  parentOf,   \* parent_task_id of each task
  Req,        \* requests
  Kinds,      \* the kinds of requests clients make, a subset of AllKinds
  Faults,     \* what may go wrong, a subset of {"storage", "crash"}
  MaxActive   \* how many requests may be under way at once

AllKinds == {"upload", "delete_attachment", "delete_task", "comment"}

ASSUME NoTaskAssumption == NoTask \notin Task
ASSUME ParentAssumption == parentOf \in [Task -> Task \cup {NoTask}]
ASSUME KindsAssumption  == Kinds \subseteq AllKinds
ASSUME FaultsAssumption == Faults \subseteq {"storage", "crash"}

VARIABLES
  made,       \* tasks that have been created
  tasks,      \* tasks in the database
  rows,       \* attachment rows: [key, task]
  comments,   \* comment rows: [by, task]
  objects,    \* keys of the objects in the bucket
  pc,         \* where each request stands
  on,         \* the task of its URL
  key,        \* the storage key it works on (uploads and attachment deletions)
  listed,     \* delete_task: the keys list_by_task returned
  pending,    \* delete_task: those whose object it has yet to delete
  loaded,     \* delete_task: the tasks the ORM cascade loaded
  loadedComments, \* delete_task: the comments it loaded
  failed,     \* requests that an exception or a crash ended
  events      \* what has been published: [type, id]

database == <<made, tasks, rows, comments>>
locals   == <<on, key, listed, pending, loaded, loadedComments>>
vars     == <<database, objects, pc, locals, failed, events>>

Row     == [key : Req, task : Task]
Comment == [by : Req, task : Task]
Event   == [type : {"added", "removed", "deleted", "commented"}, id : Req \cup Task]

\* The steps of the four services, in order.
UploadSteps == {"put_object", "insert_row", "publish_added"}
RemoveSteps == {"delete_row", "delete_object", "publish_removed"}
PurgeSteps  == {"list", "delete_objects", "load", "delete_rows", "publish_deleted"}
CommentSteps == {"insert_comment", "publish_comment"}
Steps == UploadSteps \cup RemoveSteps \cup PurgeSteps \cup CommentSteps

UnderWay(r) == pc[r] \in Steps /\ r \notin failed
AtRest == \A r \in Req : ~ UnderWay(r)

Init ==
  /\ made = {} /\ tasks = {} /\ rows = {} /\ comments = {} /\ objects = {}
  /\ pc = [r \in Req |-> "idle"]
  /\ on = [r \in Req |-> NoTask]
  /\ key = [r \in Req |-> r]
  /\ listed = [r \in Req |-> {}]
  /\ pending = [r \in Req |-> {}]
  /\ loaded = [r \in Req |-> {}]
  /\ loadedComments = [r \in Req |-> {}]
  /\ failed = {} /\ events = {}

-----------------------------------------------------------------------------
\* create_task with a parent of the same project; the foreign key holds the
\* parent.  A task id is a fresh uuid.
CreateTask(t) ==
  /\ t \notin made
  /\ parentOf[t] = NoTask \/ parentOf[t] \in tasks
  /\ made' = made \cup {t}
  /\ tasks' = tasks \cup {t}
  /\ UNCHANGED <<rows, comments, objects, pc, locals, failed, events>>

\* A request passes require_task_project_role: the task is there, now.
Accept(r, kind, t, step) ==
  /\ kind \in Kinds
  /\ pc[r] = "idle" /\ t \in tasks
  /\ Cardinality({q \in Req : UnderWay(q)}) < MaxActive
  /\ pc' = [pc EXCEPT ![r] = step]
  /\ on' = [on EXCEPT ![r] = t]

At(r, step) == pc[r] = step /\ r \notin failed
Goto(r, step) == pc' = [pc EXCEPT ![r] = step]
Fail(r) == failed' = failed \cup {r} /\ UNCHANGED pc
Publish(r, step, type, id) ==
  /\ At(r, step)
  /\ events' = events \cup {[type |-> type, id |-> id]}
  /\ Goto(r, "done")
  /\ UNCHANGED <<database, objects, locals, failed>>

-----------------------------------------------------------------------------
(* upload_attachment.                                                      *)

\* _validate refuses an empty or oversized file before anything is written.
StartUpload(r, t) ==
  /\ \/ Accept(r, "upload", t, "put_object")
     \/ Accept(r, "upload", t, "refused")
  /\ UNCHANGED <<database, objects, key, listed, pending, loaded, loadedComments, failed, events>>

\* Wrong version: the row is written before the object.
RowBeforeObject(r) ==
  /\ At(r, "put_object")
  /\ on[r] \in tasks
  /\ rows' = rows \cup {[key |-> key[r], task |-> on[r]]}
  /\ Goto(r, "publish_added")
  /\ UNCHANGED <<made, tasks, comments, objects, locals, failed, events>>

PutObject(r) ==
  /\ At(r, "put_object")
  /\ objects' = objects \cup {key[r]}
  /\ Goto(r, "insert_row")
  /\ UNCHANGED <<database, locals, failed, events>>

\* Flush and commit of the row and of its activity entry.  If the task is gone
\* the foreign key fails; nothing takes the object back.
InsertRow(r) ==
  /\ At(r, "insert_row")
  /\ IF on[r] \in tasks
       THEN /\ rows' = rows \cup {[key |-> key[r], task |-> on[r]]}
            /\ Goto(r, "publish_added")
            /\ UNCHANGED failed
       ELSE Fail(r) /\ UNCHANGED rows
  /\ UNCHANGED <<made, tasks, comments, objects, locals, events>>

PublishAdded(r) == Publish(r, "publish_added", "added", key[r])

-----------------------------------------------------------------------------
(* delete_attachment.                                                      *)

\* The router loads the row and checks that it belongs to the task.
StartRemove(r, row) ==
  /\ row \in rows
  /\ Accept(r, "delete_attachment", row.task, "delete_row")
  /\ key' = [key EXCEPT ![r] = row.key]
  /\ UNCHANGED <<database, objects, listed, pending, loaded, loadedComments, failed, events>>

\* The activity entry refers to the task, so the commit fails if the task is
\* gone.  A row that somebody else deleted meanwhile only earns a warning.
DeleteRow(r) ==
  /\ At(r, "delete_row")
  /\ IF on[r] \in tasks
       THEN /\ rows' = {row \in rows : row.key # key[r]}
            /\ Goto(r, "delete_object")
            /\ UNCHANGED failed
       ELSE Fail(r) /\ UNCHANGED rows
  /\ UNCHANGED <<made, tasks, comments, objects, locals, events>>

\* Wrong version: the object is forgotten.
DeleteObjectSkipped(r) ==
  /\ At(r, "delete_object")
  /\ Goto(r, "publish_removed")
  /\ UNCHANGED <<database, objects, locals, failed, events>>

\* delete_object: removing a key that is not there is not an error.
DeleteObject(r) ==
  /\ At(r, "delete_object")
  /\ objects' = objects \ {key[r]}
  /\ Goto(r, "publish_removed")
  /\ UNCHANGED <<database, locals, failed, events>>

PublishRemoved(r) == Publish(r, "publish_removed", "removed", key[r])

-----------------------------------------------------------------------------
(* delete_task.                                                            *)

StartPurge(r, t) ==
  /\ Accept(r, "delete_task", t, "list")
  /\ UNCHANGED <<database, objects, key, listed, pending, loaded, loadedComments, failed, events>>

\* attachment_crud.list_by_task: the rows of this task, not of its subtasks.
ListAttachments(r) ==
  /\ At(r, "list")
  /\ LET keys == {row.key : row \in {w \in rows : w.task = on[r]}}
     IN  /\ listed' = [listed EXCEPT ![r] = keys]
         /\ pending' = [pending EXCEPT ![r] = keys]
  /\ Goto(r, "delete_objects")
  /\ UNCHANGED <<database, objects, on, key, loaded, loadedComments, failed, events>>

\* One call of the loop over the attachments.
PurgeObject(r, k) ==
  /\ At(r, "delete_objects") /\ k \in pending[r]
  /\ objects' = objects \ {k}
  /\ pending' = [pending EXCEPT ![r] = @ \ {k}]
  /\ UNCHANGED <<database, pc, on, key, listed, loaded, loadedComments, failed, events>>

\* The loop is over (task_crud.delete comes next).
PurgedAll(r) ==
  /\ At(r, "delete_objects") /\ pending[r] = {}
  /\ Goto(r, "load")
  /\ UNCHANGED <<database, objects, locals, failed, events>>

\* The tasks below t, through any number of parents.
Below(t) ==
  {s \in Task : \A S \in SUBSET Task :
     (t \in S /\ \A x \in Task : parentOf[x] \in S => x \in S) => s \in S}

\* db.delete(task): the "all, delete-orphan" cascades of Task.subtasks and
\* Task.comments load what is there now.
LoadCascade(r) ==
  /\ At(r, "load")
  /\ LET gone == tasks \cap Below(on[r])
     IN  /\ loaded' = [loaded EXCEPT ![r] = gone]
         /\ loadedComments' = [loadedComments EXCEPT ![r] = {m \in comments : m.task \in gone}]
  /\ Goto(r, "delete_rows")
  /\ UNCHANGED <<database, objects, on, key, listed, pending, failed, events>>

\* Rows that refer to a task the transaction deletes but that it never loaded.
Blocked(r) ==
  LET gone == tasks \cap loaded[r]
  IN  \/ \E s \in tasks \ gone : parentOf[s] \in gone
      \/ \E m \in comments \ loadedComments[r] : m.task \in gone

\* Wrong version: the foreign key of attachments is not ON DELETE CASCADE and
\* nobody deletes the rows.
DeleteRowsKeepsAttachments(r) ==
  LET gone == tasks \cap loaded[r] IN
  /\ At(r, "delete_rows")
  /\ tasks' = tasks \ gone
  /\ comments' = comments \ loadedComments[r]
  /\ Goto(r, "publish_deleted")
  /\ UNCHANGED <<made, rows, failed, objects, locals, events>>

\* Wrong version: a failed commit does not keep the event from going out.
DeleteRowsSwallowsError(r) ==
  LET gone == tasks \cap loaded[r] IN
  /\ At(r, "delete_rows")
  /\ IF Blocked(r)
       THEN UNCHANGED <<tasks, rows, comments>>
       ELSE /\ tasks' = tasks \ gone
            /\ comments' = comments \ loadedComments[r]
            /\ rows' = {row \in rows : row.task \notin gone}
  /\ Goto(r, "publish_deleted")
  /\ UNCHANGED <<made, failed, objects, locals, events>>

\* Flush and commit.  Attachment rows follow their task (ON DELETE CASCADE);
\* a subtask or a comment that arrived since LoadCascade makes the foreign key
\* fail, and the whole transaction is rolled back.  A task that is already
\* gone only earns a warning.
DeleteRows(r) ==
  LET gone == tasks \cap loaded[r] IN
  /\ At(r, "delete_rows")
  /\ IF Blocked(r)
       THEN Fail(r) /\ UNCHANGED <<tasks, rows, comments>>
       ELSE /\ tasks' = tasks \ gone
            /\ comments' = comments \ loadedComments[r]
            /\ rows' = {row \in rows : row.task \notin gone}
            /\ Goto(r, "publish_deleted")
            /\ UNCHANGED failed
  /\ UNCHANGED <<made, objects, locals, events>>

PublishDeleted(r) == Publish(r, "publish_deleted", "deleted", on[r])

-----------------------------------------------------------------------------
(* create_comment, as far as it concerns the task it refers to.            *)

StartComment(r, t) ==
  /\ Accept(r, "comment", t, "insert_comment")
  /\ UNCHANGED <<database, objects, key, listed, pending, loaded, loadedComments, failed, events>>

InsertComment(r) ==
  /\ At(r, "insert_comment")
  /\ IF on[r] \in tasks
       THEN /\ comments' = comments \cup {[by |-> r, task |-> on[r]]}
            /\ Goto(r, "publish_comment")
            /\ UNCHANGED failed
       ELSE Fail(r) /\ UNCHANGED comments
  /\ UNCHANGED <<made, tasks, rows, objects, locals, events>>

PublishComment(r) == Publish(r, "publish_comment", "commented", r)

-----------------------------------------------------------------------------
(* Faults.  An exception is not handled anywhere: the session is closed,    *)
(* which rolls back what was not committed.  A call or a commit that took   *)
(* effect before it failed is its step followed by the fault.               *)

StorageError(r) ==
  /\ "storage" \in Faults
  /\ UnderWay(r) /\ pc[r] \in {"put_object", "delete_object", "delete_objects"}
  /\ Fail(r)
  /\ UNCHANGED <<database, objects, locals, events>>

\* The process dies, or Postgres or Redis does not answer.
Crash(r) ==
  /\ "crash" \in Faults
  /\ UnderWay(r)
  /\ Fail(r)
  /\ UNCHANGED <<database, objects, locals, events>>

-----------------------------------------------------------------------------
Start(r) ==
  \/ \E t \in Task : StartUpload(r, t) \/ StartPurge(r, t) \/ StartComment(r, t)
  \/ \E row \in rows : StartRemove(r, row)

RequestStep(r) ==
  \/ PutObject(r) \/ InsertRow(r) \/ PublishAdded(r)
  \/ DeleteRow(r) \/ DeleteObject(r) \/ PublishRemoved(r)
  \/ ListAttachments(r) \/ (\E k \in Req : PurgeObject(r, k)) \/ PurgedAll(r)
  \/ LoadCascade(r) \/ DeleteRows(r) \/ PublishDeleted(r)
  \/ InsertComment(r) \/ PublishComment(r)

Next ==
  \/ \E t \in Task : CreateTask(t)
  \/ \E r \in Req : Start(r) \/ RequestStep(r) \/ StorageError(r) \/ Crash(r)

Spec == Init /\ [][Next]_vars

-----------------------------------------------------------------------------
(* Properties.                                                             *)

\* Every variable has its type.
TypeOK ==
  /\ made \in SUBSET Task /\ tasks \in SUBSET made
  /\ rows \in SUBSET Row /\ comments \in SUBSET Comment
  /\ objects \in SUBSET Req
  /\ pc \in [Req -> Steps \cup {"idle", "refused", "done"}]
  /\ on \in [Req -> Task \cup {NoTask}]
  /\ \A r \in Req : pc[r] # "idle" => on[r] \in made
  /\ key \in [Req -> Req]
  /\ listed \in [Req -> SUBSET Req] /\ pending \in [Req -> SUBSET Req]
  /\ loaded \in [Req -> SUBSET Task] /\ loadedComments \in [Req -> SUBSET Comment]
  /\ failed \in SUBSET Req
  /\ events \in SUBSET Event

\* A row whose object is missing is the work of a delete_task on that row's
\* task that has listed the file and has not committed: it is under way, or it
\* failed.  Uploads write the object first and deletions the row first, so
\* neither leaves such a row at any point, whatever fails.
MissingFileBlame ==
  \A row \in rows : row.key \notin objects =>
    \E q \in Req : /\ on[q] = row.task /\ row.key \in listed[q]
                   /\ pc[q] \in {"delete_objects", "load", "delete_rows"}

\* An object without a row belongs to an upload that has not written its row
\* (or never will), to a deletion that has not reached the bucket (or never
\* will), or to a task that is gone.
OrphanBlame ==
  \A k \in objects : (\A row \in rows : row.key # k) =>
    \/ pc[k] = "insert_row"
    \/ \E q \in Req : key[q] = k /\ pc[q] = "delete_object"
    \/ on[k] \notin tasks

\* No row refers to a task that does not exist: the ORM cascades, the ON DELETE
\* CASCADE and the foreign keys together leave neither a subtask, a comment nor
\* an attachment behind, whatever arrives while a task is being deleted.
ReferencesIntact ==
  /\ \A t \in tasks : parentOf[t] = NoTask \/ parentOf[t] \in tasks
  /\ \A row \in rows : row.task \in tasks
  /\ \A m \in comments : m.task \in tasks

\* What has been announced has happened for good: no row of a file announced as
\* removed, no row of a task announced as deleted.
AnnouncedIsGone ==
  \A e \in events :
    /\ e.type = "removed" => \A row \in rows : row.key # e.id
    /\ e.type = "deleted" => e.id \notin tasks

\* models/attachment.py: "Deleting the task should take its files with it, not
\* orphan them."  With nothing under way, no object outlives its task.
FilesGoWithTask ==
  AtRest => \A k \in objects : on[k] \in tasks

=============================================================================
