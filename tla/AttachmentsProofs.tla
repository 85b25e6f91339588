-------------------------- MODULE AttachmentsProofs -------------------------
(***************************************************************************)
(* What holds of Attachments for any tasks, requests and faults.  The      *)
(* order of the writes (object before row on upload, row before object on  *)
(* deletion) is what the invariant records: which request may still touch  *)
(* which key.                                                              *)
(***************************************************************************)
EXTENDS Attachments, TLAPS

\* The upload k has committed its row (which may be gone again).
Written(k) == pc[k] \in {"publish_added", "done"}

\* An upload works on its own key, and its object precedes its row.
UploadOrder ==
  /\ \A r \in Req : pc[r] \in UploadSteps \cup {"idle"} => key[r] = r
  /\ \A r \in Req : pc[r] = "insert_row" => r \in objects
  /\ \A k \in objects : pc[k] \in {"insert_row", "publish_added", "done"}

\* A row is the row of the upload that its key names.
RowsOfUploads ==
  \A row \in rows : row.task = on[row.key] /\ Written(row.key)

\* A deletion that has passed its commit leaves no row to the key.
RemoveOrder ==
  \A r \in Req : pc[r] \in RemoveSteps =>
    /\ Written(key[r])
    /\ pc[r] # "delete_row" => \A row \in rows : row.key # key[r]

\* What delete_task lists are files of its own task, and what it deletes
\* includes that task.
PurgeOrder ==
  /\ \A q \in Req : pending[q] \subseteq listed[q] /\ (pc[q] = "idle" => listed[q] = {})
  /\ \A q \in Req : \A k \in listed[q] : on[k] = on[q] /\ Written(k)
  /\ \A q \in Req : pc[q] = "delete_rows" => on[q] \in loaded[q] \/ on[q] \notin tasks
  /\ \A q \in Req : pc[q] = "publish_deleted" => on[q] \notin tasks

EventsOrder ==
  \A e \in events :
    /\ e.type = "removed" => /\ e.id \in Req /\ Written(e.id)
                             /\ \A row \in rows : row.key # e.id
    /\ e.type = "deleted" => e.id \in made /\ e.id \notin tasks

IInv ==
  /\ TypeOK
  /\ UploadOrder
  /\ RowsOfUploads
  /\ RemoveOrder
  /\ PurgeOrder
  /\ EventsOrder
  /\ MissingFileBlame
  /\ OrphanBlame
  /\ ReferencesIntact
-----------------------------------------------------------------------------
\* Every step of every request keeps the variables in their types.
LEMMA StepsTyped ==
  ASSUME TypeOK, [Next]_vars
  PROVE  TypeOK'
<1> USE NoTaskAssumption, ParentAssumption
    DEF TypeOK, Row, Comment, Event, Steps, UploadSteps, RemoveSteps, PurgeSteps,
        CommentSteps, At, Goto, Fail, UnderWay, database, locals
<1>1. ASSUME NEW t \in Task, CreateTask(t) PROVE TypeOK'
  BY <1>1 DEF CreateTask
<1>2. ASSUME NEW r \in Req, NEW t \in Task, StartUpload(r, t) PROVE TypeOK'
  BY <1>2 DEF StartUpload, Accept
<1>3. ASSUME NEW r \in Req, NEW t \in Task, StartPurge(r, t) PROVE TypeOK'
  BY <1>3 DEF StartPurge, Accept
<1>4. ASSUME NEW r \in Req, NEW t \in Task, StartComment(r, t) PROVE TypeOK'
  BY <1>4 DEF StartComment, Accept
<1>5. ASSUME NEW r \in Req, NEW row \in rows, StartRemove(r, row) PROVE TypeOK'
  BY <1>5 DEF StartRemove, Accept
<1>6. ASSUME NEW r \in Req, PutObject(r) PROVE TypeOK'
  BY <1>6 DEF PutObject
<1>7. ASSUME NEW r \in Req, InsertRow(r) PROVE TypeOK'
  BY <1>7 DEF InsertRow
<1>8. ASSUME NEW r \in Req, PublishAdded(r) PROVE TypeOK'
  BY <1>8 DEF PublishAdded, Publish
<1>9. ASSUME NEW r \in Req, DeleteRow(r) PROVE TypeOK'
  BY <1>9 DEF DeleteRow
<1>10. ASSUME NEW r \in Req, DeleteObject(r) PROVE TypeOK'
  BY <1>10 DEF DeleteObject
<1>11. ASSUME NEW r \in Req, PublishRemoved(r) PROVE TypeOK'
  BY <1>11 DEF PublishRemoved, Publish
<1>12. ASSUME NEW r \in Req, ListAttachments(r) PROVE TypeOK'
  BY <1>12 DEF ListAttachments
<1>13. ASSUME NEW r \in Req, NEW k \in Req, PurgeObject(r, k) PROVE TypeOK'
  BY <1>13 DEF PurgeObject
<1>14. ASSUME NEW r \in Req, PurgedAll(r) PROVE TypeOK'
  BY <1>14 DEF PurgedAll
<1>15. ASSUME NEW r \in Req, LoadCascade(r) PROVE TypeOK'
  BY <1>15 DEF LoadCascade
<1>16. ASSUME NEW r \in Req, DeleteRows(r) PROVE TypeOK'
  BY <1>16 DEF DeleteRows, Blocked
<1>17. ASSUME NEW r \in Req, PublishDeleted(r) PROVE TypeOK'
  BY <1>17 DEF PublishDeleted, Publish
<1>18. ASSUME NEW r \in Req, InsertComment(r) PROVE TypeOK'
  BY <1>18 DEF InsertComment
<1>19. ASSUME NEW r \in Req, PublishComment(r) PROVE TypeOK'
  BY <1>19 DEF PublishComment, Publish
<1>20. ASSUME NEW r \in Req, StorageError(r) PROVE TypeOK'
  BY <1>20 DEF StorageError
<1>21. ASSUME NEW r \in Req, Crash(r) PROVE TypeOK'
  BY <1>21 DEF Crash
<1>22. CASE UNCHANGED vars
  BY <1>22 DEF vars
<1> QED
  BY <1>1, <1>2, <1>3, <1>4, <1>5, <1>6, <1>7, <1>8, <1>9, <1>10, <1>11,
     <1>12, <1>13, <1>14, <1>15, <1>16, <1>17, <1>18, <1>19, <1>20, <1>21,
     <1>22
     DEF Next, Start, RequestStep

\* The inductive invariant is kept by every step.
LEMMA InvariantKept ==
  ASSUME IInv, [Next]_vars
  PROVE  IInv'
<1> USE NoTaskAssumption, ParentAssumption
    DEF Row, Comment, Event, Steps, UploadSteps, RemoveSteps, PurgeSteps,
        CommentSteps, At, Goto, Fail, UnderWay, database, locals
<1>0. TypeOK'
  BY StepsTyped DEF IInv
<1>1. ASSUME NEW t \in Task, CreateTask(t) PROVE IInv'
  <2>1. PurgeOrder'
    BY <1>1 DEF CreateTask, IInv, TypeOK, Written, PurgeOrder
  <2>2. EventsOrder'
    BY <1>1 DEF CreateTask, IInv, TypeOK, Written, EventsOrder
  <2>3. OrphanBlame'
    BY <1>1 DEF CreateTask, IInv, TypeOK, Written, OrphanBlame, UploadOrder
  <2>4. ReferencesIntact'
    BY <1>1 DEF CreateTask, IInv, TypeOK, Written, ReferencesIntact
  <2>5. UploadOrder' /\ RowsOfUploads' /\ RemoveOrder' /\ MissingFileBlame'
    BY <1>1 DEF CreateTask, IInv, TypeOK, Written,
                 UploadOrder, RowsOfUploads, RemoveOrder, MissingFileBlame
  <2> QED
    BY <2>1, <2>2, <2>3, <2>4, <2>5, <1>0 DEF IInv
<1>2. ASSUME NEW r \in Req, NEW t \in Task,
             NEW s \in {"put_object", "refused", "list", "insert_comment"},
             Accept(r, "upload", t, s) \/ Accept(r, "delete_task", t, s)
               \/ Accept(r, "comment", t, s),
             UNCHANGED <<database, objects, key, listed, pending, loaded,
                         loadedComments, failed, events>>
      PROVE  IInv'
  <2>1. pc[r] = "idle" /\ pc'[r] = s /\ on'[r] = t
    BY <1>2 DEF Accept, IInv, TypeOK
  <2>2. \A q \in Req : q # r => pc'[q] = pc[q] /\ on'[q] = on[q]
    BY <1>2 DEF Accept, IInv, TypeOK
  \* A request that has not started owns no object, row or listed key.
  <2>3. /\ r \notin objects
        /\ \A row \in rows : row.key # r
        /\ \A q \in Req : r \notin listed[q]
        /\ listed[r] = {}
    BY <2>1 DEF IInv, Written, UploadOrder, RowsOfUploads, PurgeOrder
  <2>4. UploadOrder'
    BY <1>2, <2>1, <2>2, <2>3 DEF IInv, TypeOK, UploadOrder
  <2>5. RowsOfUploads'
    BY <1>2, <2>1, <2>2, <2>3 DEF IInv, TypeOK, Written, RowsOfUploads
  <2>6. RemoveOrder'
    BY <1>2, <2>1, <2>2, <2>3 DEF IInv, TypeOK, Written, RemoveOrder
  <2>7. PurgeOrder'
    <3>1. \A q \in Req : \A k \in listed[q] : on'[k] = on'[q] /\ Written(k)'
      BY <2>1, <2>2, <2>3 DEF IInv, TypeOK, Written, PurgeOrder
    <3> QED
      BY <1>2, <2>1, <2>2, <2>3, <3>1 DEF IInv, PurgeOrder
  <2>8. EventsOrder'
    BY <1>2, <2>1, <2>2 DEF IInv, TypeOK, Written, EventsOrder
  <2>9. MissingFileBlame'
    BY <1>2, <2>1, <2>2, <2>3 DEF IInv, TypeOK, MissingFileBlame
  <2>10. OrphanBlame'
    BY <1>2, <2>1, <2>2, <2>3 DEF IInv, TypeOK, OrphanBlame
  <2>11. ReferencesIntact'
    BY <1>2 DEF IInv, ReferencesIntact
  <2> QED
    BY <2>4, <2>5, <2>6, <2>7, <2>8, <2>9, <2>10, <2>11, <1>0 DEF IInv
<1>3. ASSUME NEW r \in Req, NEW t \in Task,
             StartUpload(r, t) \/ StartPurge(r, t) \/ StartComment(r, t)
      PROVE  IInv'
  BY <1>2, <1>3 DEF StartUpload, StartPurge, StartComment
<1>5. ASSUME NEW r \in Req, NEW row \in rows, StartRemove(r, row) PROVE IInv'
  <2>1. UploadOrder'
    BY <1>5 DEF StartRemove, Accept, IInv, TypeOK, Written, UploadOrder
  <2>2. RowsOfUploads'
    BY <1>5 DEF StartRemove, Accept, IInv, TypeOK, Written, RowsOfUploads
  <2>3. RemoveOrder'
    BY <1>5 DEF StartRemove, Accept, IInv, TypeOK, Written, RemoveOrder, RowsOfUploads
  <2>4. PurgeOrder'
    BY <1>5 DEF StartRemove, Accept, IInv, TypeOK, Written, PurgeOrder
  <2>5. EventsOrder'
    BY <1>5 DEF StartRemove, Accept, IInv, TypeOK, Written, EventsOrder
  <2>6. MissingFileBlame'
    BY <1>5 DEF StartRemove, Accept, IInv, TypeOK, Written, MissingFileBlame
  <2>7. OrphanBlame'
    BY <1>5 DEF StartRemove, Accept, IInv, TypeOK, Written, OrphanBlame, UploadOrder
  <2>8. ReferencesIntact'
    BY <1>5 DEF StartRemove, Accept, IInv, TypeOK, Written,
                 ReferencesIntact
  <2> QED
    BY <2>1, <2>2, <2>3, <2>4, <2>5, <2>6, <2>7, <2>8, <1>0 DEF IInv
<1>6. ASSUME NEW r \in Req, PutObject(r) PROVE IInv'
  <2>1. UploadOrder'
    BY <1>6 DEF PutObject, IInv, TypeOK, Written, UploadOrder
  <2>2. MissingFileBlame'
    BY <1>6 DEF PutObject, IInv, TypeOK, Written, MissingFileBlame
  <2>3. OrphanBlame'
    BY <1>6 DEF PutObject, IInv, TypeOK, Written, OrphanBlame, UploadOrder
  <2>4. RowsOfUploads' /\ RemoveOrder' /\ PurgeOrder' /\ EventsOrder' /\ ReferencesIntact'
    BY <1>6 DEF PutObject, IInv, TypeOK, Written,
                 RowsOfUploads, RemoveOrder, PurgeOrder, EventsOrder, ReferencesIntact
  <2> QED
    BY <2>1, <2>2, <2>3, <2>4, <1>0 DEF IInv
<1>7. ASSUME NEW r \in Req, InsertRow(r) PROVE IInv'
  <2>1. UploadOrder'
    BY <1>7 DEF InsertRow, IInv, TypeOK, Written, UploadOrder
  <2>2. RowsOfUploads'
    BY <1>7 DEF InsertRow, IInv, TypeOK, Written, RowsOfUploads, UploadOrder
  <2>3. RemoveOrder'
    BY <1>7 DEF InsertRow, IInv, TypeOK, Written, RemoveOrder, UploadOrder
  <2>4. PurgeOrder'
    BY <1>7 DEF InsertRow, IInv, TypeOK, Written, PurgeOrder
  <2>5. EventsOrder'
    BY <1>7 DEF InsertRow, IInv, TypeOK, Written, EventsOrder, UploadOrder
  <2>6. MissingFileBlame'
    BY <1>7 DEF InsertRow, IInv, TypeOK, Written, MissingFileBlame, UploadOrder
  <2>7. OrphanBlame'
    <3> SUFFICES ASSUME NEW k \in objects, \A row \in rows' : row.key # k
                 PROVE  \/ pc'[k] = "insert_row"
                        \/ \E q \in Req : key[q] = k /\ pc'[q] = "delete_object"
                        \/ on[k] \notin tasks
      BY <1>7 DEF InsertRow, OrphanBlame
    <3>1. \A row \in rows : row.key # k
      BY <1>7 DEF InsertRow
    <3>2. CASE on[r] \in tasks
      <4>1. key[r] # k /\ key[r] = r
        <5>1. [key |-> key[r], task |-> on[r]] \in rows'
          BY <1>7, <3>2 DEF InsertRow
        <5>2. key[r] = r
          BY <1>7 DEF InsertRow, IInv, UploadOrder
        <5> QED
          BY <5>1, <5>2
      <4>2. \A q \in Req : q # r => pc'[q] = pc[q]
        BY <1>7 DEF InsertRow, IInv, TypeOK
      <4> QED
        BY <1>7, <3>1, <4>1, <4>2 DEF InsertRow, IInv, TypeOK, OrphanBlame
    <3>3. CASE on[r] \notin tasks
      BY <1>7, <3>1, <3>3 DEF InsertRow, IInv, OrphanBlame
    <3> QED
      BY <3>2, <3>3
  <2>8. ReferencesIntact'
    BY <1>7 DEF InsertRow, IInv, TypeOK, Written, ReferencesIntact
  <2> QED
    BY <2>1, <2>2, <2>3, <2>4, <2>5, <2>6, <2>7, <2>8, <1>0 DEF IInv
<1>8. ASSUME NEW r \in Req, PublishAdded(r) PROVE IInv'
  <2>1. EventsOrder'
    BY <1>8 DEF PublishAdded, Publish, IInv, TypeOK, Written, EventsOrder
  <2>2. MissingFileBlame'
    BY <1>8 DEF PublishAdded, Publish, IInv, TypeOK, Written, MissingFileBlame
  <2>3. OrphanBlame'
    BY <1>8 DEF PublishAdded, Publish, IInv, TypeOK, Written, OrphanBlame
  <2>4. UploadOrder' /\ RowsOfUploads' /\ RemoveOrder' /\ PurgeOrder' /\ ReferencesIntact'
    BY <1>8 DEF PublishAdded, Publish, IInv, TypeOK, Written,
                 UploadOrder, RowsOfUploads, RemoveOrder, PurgeOrder, ReferencesIntact
  <2> QED
    BY <2>1, <2>2, <2>3, <2>4, <1>0 DEF IInv
<1>9. ASSUME NEW r \in Req, DeleteRow(r) PROVE IInv'
  <2>1. RowsOfUploads'
    BY <1>9 DEF DeleteRow, IInv, TypeOK, Written, RowsOfUploads
  <2>2. RemoveOrder'
    BY <1>9 DEF DeleteRow, IInv, TypeOK, Written, RemoveOrder
  <2>3. EventsOrder'
    BY <1>9 DEF DeleteRow, IInv, TypeOK, Written, EventsOrder
  <2>4. MissingFileBlame'
    BY <1>9 DEF DeleteRow, IInv, TypeOK, Written, MissingFileBlame
  <2>5. OrphanBlame'
    BY <1>9 DEF DeleteRow, IInv, TypeOK, Written, OrphanBlame
  <2>6. ReferencesIntact'
    BY <1>9 DEF DeleteRow, IInv, TypeOK, Written, ReferencesIntact
  <2>7. UploadOrder'
    BY <1>9 DEF DeleteRow, IInv, TypeOK, Written, UploadOrder
  <2>8. PurgeOrder'
    BY SMTT(60), <1>9 DEF DeleteRow, IInv, TypeOK, Written, PurgeOrder
  <2> QED
    BY <2>1, <2>2, <2>3, <2>4, <2>5, <2>6, <2>7, <2>8, <1>0 DEF IInv
<1>10. ASSUME NEW r \in Req, DeleteObject(r) PROVE IInv'
  <2>1. UploadOrder'
    BY <1>10 DEF DeleteObject, IInv, TypeOK, Written, UploadOrder, RemoveOrder
  <2>2. RemoveOrder'
    BY <1>10 DEF DeleteObject, IInv, TypeOK, Written, RemoveOrder
  <2>3. MissingFileBlame'
    BY <1>10 DEF DeleteObject, IInv, TypeOK, Written, MissingFileBlame, RemoveOrder
  <2>4. OrphanBlame'
    BY <1>10 DEF DeleteObject, IInv, TypeOK, Written, OrphanBlame
  <2>5. RowsOfUploads' /\ PurgeOrder' /\ EventsOrder' /\ ReferencesIntact'
    BY <1>10 DEF DeleteObject, IInv, TypeOK, Written,
                 RowsOfUploads, PurgeOrder, EventsOrder, ReferencesIntact
  <2> QED
    BY <2>1, <2>2, <2>3, <2>4, <2>5, <1>0 DEF IInv
<1>11. ASSUME NEW r \in Req, PublishRemoved(r) PROVE IInv'
  <2>1. EventsOrder'
    BY <1>11 DEF PublishRemoved, Publish, IInv, TypeOK, Written, EventsOrder, RemoveOrder
  <2>2. MissingFileBlame'
    BY <1>11 DEF PublishRemoved, Publish, IInv, TypeOK, Written, MissingFileBlame
  <2>3. OrphanBlame'
    BY <1>11 DEF PublishRemoved, Publish, IInv, TypeOK, Written, OrphanBlame
  <2>4. UploadOrder' /\ RowsOfUploads' /\ RemoveOrder' /\ PurgeOrder' /\ ReferencesIntact'
    BY <1>11 DEF PublishRemoved, Publish, IInv, TypeOK, Written,
                 UploadOrder, RowsOfUploads, RemoveOrder, PurgeOrder, ReferencesIntact
  <2> QED
    BY <2>1, <2>2, <2>3, <2>4, <1>0 DEF IInv
<1>12. ASSUME NEW r \in Req, ListAttachments(r) PROVE IInv'
  <2>1. PurgeOrder'
    BY <1>12 DEF ListAttachments, IInv, TypeOK, Written, PurgeOrder, RowsOfUploads
  <2>2. MissingFileBlame'
    BY <1>12 DEF ListAttachments, IInv, TypeOK, Written, MissingFileBlame
  <2>3. OrphanBlame'
    BY <1>12 DEF ListAttachments, IInv, TypeOK, Written, OrphanBlame
  <2>4. UploadOrder' /\ RowsOfUploads' /\ RemoveOrder' /\ EventsOrder' /\ ReferencesIntact'
    BY <1>12 DEF ListAttachments, IInv, TypeOK, Written,
                 UploadOrder, RowsOfUploads, RemoveOrder, EventsOrder, ReferencesIntact
  <2> QED
    BY <2>1, <2>2, <2>3, <2>4, <1>0 DEF IInv
<1>13. ASSUME NEW r \in Req, NEW k \in Req, PurgeObject(r, k) PROVE IInv'
  <2>1. UploadOrder'
    BY <1>13 DEF PurgeObject, IInv, TypeOK, Written, UploadOrder, PurgeOrder
  <2>2. PurgeOrder'
    BY <1>13 DEF PurgeObject, IInv, TypeOK, Written, PurgeOrder
  <2>3. MissingFileBlame'
    BY <1>13 DEF PurgeObject, IInv, TypeOK, Written, MissingFileBlame, PurgeOrder, RowsOfUploads
  <2>4. OrphanBlame'
    BY <1>13 DEF PurgeObject, IInv, TypeOK, Written, OrphanBlame
  <2>5. RowsOfUploads' /\ RemoveOrder' /\ EventsOrder' /\ ReferencesIntact'
    BY <1>13 DEF PurgeObject, IInv, TypeOK, Written,
                 RowsOfUploads, RemoveOrder, EventsOrder, ReferencesIntact
  <2> QED
    BY <2>1, <2>2, <2>3, <2>4, <2>5, <1>0 DEF IInv
<1>14. ASSUME NEW r \in Req, PurgedAll(r) PROVE IInv'
  <2>1. PurgeOrder'
    BY <1>14 DEF PurgedAll, IInv, TypeOK, Written, PurgeOrder
  <2>2. MissingFileBlame'
    BY <1>14 DEF PurgedAll, IInv, TypeOK, Written, MissingFileBlame
  <2>3. OrphanBlame'
    BY <1>14 DEF PurgedAll, IInv, TypeOK, Written, OrphanBlame
  <2>4. UploadOrder' /\ RowsOfUploads' /\ RemoveOrder' /\ EventsOrder' /\ ReferencesIntact'
    BY <1>14 DEF PurgedAll, IInv, TypeOK, Written,
                 UploadOrder, RowsOfUploads, RemoveOrder, EventsOrder, ReferencesIntact
  <2> QED
    BY <2>1, <2>2, <2>3, <2>4, <1>0 DEF IInv
<1>15. ASSUME NEW r \in Req, LoadCascade(r) PROVE IInv'
  <2>1. PurgeOrder'
    <3>1. on[r] \in Below(on[r]) \/ on[r] \notin tasks
      BY <1>15 DEF LoadCascade, Below, IInv, TypeOK
    <3> QED
      BY <1>15, <3>1 DEF LoadCascade, IInv, TypeOK, Written, PurgeOrder
  <2>2. MissingFileBlame'
    BY <1>15 DEF LoadCascade, IInv, TypeOK, Written, MissingFileBlame
  <2>3. OrphanBlame'
    BY <1>15 DEF LoadCascade, IInv, TypeOK, Written, OrphanBlame
  <2>4. UploadOrder' /\ RowsOfUploads' /\ RemoveOrder' /\ EventsOrder' /\ ReferencesIntact'
    BY <1>15 DEF LoadCascade, IInv, TypeOK, Written,
                 UploadOrder, RowsOfUploads, RemoveOrder, EventsOrder, ReferencesIntact
  <2> QED
    BY <2>1, <2>2, <2>3, <2>4, <1>0 DEF IInv
<1>16. ASSUME NEW r \in Req, DeleteRows(r) PROVE IInv'
  <2>1. RowsOfUploads'
    BY <1>16 DEF DeleteRows, Blocked, IInv, TypeOK, Written, RowsOfUploads
  <2>2. RemoveOrder'
    BY <1>16 DEF DeleteRows, Blocked, IInv, TypeOK, Written, RemoveOrder
  <2>3. PurgeOrder'
    BY <1>16 DEF DeleteRows, Blocked, IInv, TypeOK, Written, PurgeOrder
  <2>4. EventsOrder'
    BY <1>16 DEF DeleteRows, Blocked, IInv, TypeOK, Written, EventsOrder
  <2>5. MissingFileBlame'
    BY <1>16 DEF DeleteRows, Blocked, IInv, TypeOK, Written, MissingFileBlame, PurgeOrder, ReferencesIntact
  <2>6. OrphanBlame'
    BY <1>16 DEF DeleteRows, Blocked, IInv, TypeOK, Written, OrphanBlame, RowsOfUploads
  <2>7. ReferencesIntact'
    BY <1>16 DEF DeleteRows, Blocked, IInv, TypeOK, Written, ReferencesIntact
  <2>8. UploadOrder'
    BY <1>16 DEF DeleteRows, Blocked, IInv, TypeOK, Written,
                 UploadOrder
  <2> QED
    BY <2>1, <2>2, <2>3, <2>4, <2>5, <2>6, <2>7, <2>8, <1>0 DEF IInv
<1>17. ASSUME NEW r \in Req, PublishDeleted(r) PROVE IInv'
  <2>1. EventsOrder'
    BY <1>17 DEF PublishDeleted, Publish, IInv, TypeOK, Written, EventsOrder, PurgeOrder
  <2>2. MissingFileBlame'
    BY <1>17 DEF PublishDeleted, Publish, IInv, TypeOK, Written, MissingFileBlame
  <2>3. OrphanBlame'
    BY <1>17 DEF PublishDeleted, Publish, IInv, TypeOK, Written, OrphanBlame
  <2>4. UploadOrder' /\ RowsOfUploads' /\ RemoveOrder' /\ PurgeOrder' /\ ReferencesIntact'
    BY <1>17 DEF PublishDeleted, Publish, IInv, TypeOK, Written,
                 UploadOrder, RowsOfUploads, RemoveOrder, PurgeOrder, ReferencesIntact
  <2> QED
    BY <2>1, <2>2, <2>3, <2>4, <1>0 DEF IInv
<1>18. ASSUME NEW r \in Req, InsertComment(r) PROVE IInv'
  <2>1. RemoveOrder'
    BY <1>18 DEF InsertComment, IInv, TypeOK, Written, RemoveOrder
  <2>2. PurgeOrder'
    BY <1>18 DEF InsertComment, IInv, TypeOK, Written, PurgeOrder
  <2>3. MissingFileBlame'
    BY <1>18 DEF InsertComment, IInv, TypeOK, Written, MissingFileBlame
  <2>4. OrphanBlame'
    BY <1>18 DEF InsertComment, IInv, TypeOK, Written, OrphanBlame
  <2>5. ReferencesIntact'
    BY <1>18 DEF InsertComment, IInv, TypeOK, Written, ReferencesIntact
  <2>6. UploadOrder' /\ RowsOfUploads' /\ EventsOrder'
    BY <1>18 DEF InsertComment, IInv, TypeOK, Written,
                 UploadOrder, RowsOfUploads, EventsOrder
  <2> QED
    BY <2>1, <2>2, <2>3, <2>4, <2>5, <2>6, <1>0 DEF IInv
<1>19. ASSUME NEW r \in Req, PublishComment(r) PROVE IInv'
  <2>1. EventsOrder'
    BY <1>19 DEF PublishComment, Publish, IInv, TypeOK, Written, EventsOrder
  <2>2. MissingFileBlame'
    BY <1>19 DEF PublishComment, Publish, IInv, TypeOK, Written, MissingFileBlame
  <2>3. OrphanBlame'
    BY <1>19 DEF PublishComment, Publish, IInv, TypeOK, Written, OrphanBlame
  <2>4. UploadOrder' /\ RowsOfUploads' /\ RemoveOrder' /\ PurgeOrder' /\ ReferencesIntact'
    BY <1>19 DEF PublishComment, Publish, IInv, TypeOK, Written,
                 UploadOrder, RowsOfUploads, RemoveOrder, PurgeOrder, ReferencesIntact
  <2> QED
    BY <2>1, <2>2, <2>3, <2>4, <1>0 DEF IInv
<1>20. ASSUME NEW r \in Req, StorageError(r) PROVE IInv'
  BY <1>20, <1>0 DEF StorageError, IInv, TypeOK, Written, UploadOrder, RowsOfUploads, RemoveOrder, PurgeOrder,
               EventsOrder, MissingFileBlame, OrphanBlame, ReferencesIntact
<1>21. ASSUME NEW r \in Req, Crash(r) PROVE IInv'
  BY <1>21, <1>0 DEF Crash, IInv, TypeOK, Written, UploadOrder, RowsOfUploads, RemoveOrder, PurgeOrder,
               EventsOrder, MissingFileBlame, OrphanBlame, ReferencesIntact
<1>22. CASE UNCHANGED vars
  BY <1>22, <1>0 DEF vars, IInv, TypeOK, Written, UploadOrder, RowsOfUploads, RemoveOrder, PurgeOrder,
     EventsOrder, MissingFileBlame, OrphanBlame, ReferencesIntact
<1> QED
  BY <1>1, <1>3, <1>5, <1>6, <1>7, <1>8, <1>9, <1>10, <1>11,
     <1>12, <1>13, <1>14, <1>15, <1>16, <1>17, <1>18, <1>19, <1>20, <1>21,
     <1>22
     DEF Next, Start, RequestStep

LEMMA InvariantHolds == Spec => []IInv
<1>1. Init => IInv
  BY DEF Init, IInv, TypeOK, UploadOrder, UploadSteps, RowsOfUploads, RemoveOrder,
         RemoveSteps, PurgeOrder, EventsOrder, MissingFileBlame, OrphanBlame,
         ReferencesIntact
<1>2. IInv /\ [Next]_vars => IInv'
  <2>1. CASE IInv /\ [Next]_vars
    BY <2>1, InvariantKept
  <2> QED
    BY <2>1
<1> QED
  BY <1>1, <1>2, PTL DEF Spec

\* Type correctness of uploads, deletions and comments in every interleaving.
THEOREM TypeCorrect == Spec => []TypeOK
  BY InvariantHolds, PTL DEF IInv

\* Neither upload_attachment nor delete_attachment can leave a row without its
\* file, whatever fails at whatever point: only a delete_task that has not
\* committed does.
THEOREM MissingFilesAreDeleteTasks == Spec => []MissingFileBlame
  BY InvariantHolds, PTL DEF IInv

\* A file without a row has a request to blame, or its task is gone.
THEOREM OrphansAccounted == Spec => []OrphanBlame
  BY InvariantHolds, PTL DEF IInv

\* Deleting a task leaves no subtask, comment or attachment row behind.
THEOREM ReferencesKept == Spec => []ReferencesIntact
  BY InvariantHolds, PTL DEF IInv

\* The events of removals and deletions are true once and for all.
THEOREM AnnouncementsTrue == Spec => []AnnouncedIsGone
<1>1. IInv => AnnouncedIsGone
  BY DEF IInv, EventsOrder, AnnouncedIsGone
<1> QED
  BY <1>1, InvariantHolds, PTL

=============================================================================
