----------------------------- MODULE TasksProofs ----------------------------
(* Proofs about Tasks: every invariant of the run, for any number of tasks, *)
(* members, labels and concurrent requests.                                 *)
EXTENDS Tasks, TLAPS

AfterCommit == {"refresh", "publish", "notify"}

(***************************************************************************)
(* The inductive invariant.                                                *)
(***************************************************************************)

\* Log entries have different places in the log, after what their request
\* read; requests past their commit have an entry, requests before it do not.
Bookkeeping ==
  \A r \in Req :
    /\ at[r] <= commits /\ req[r].base <= commits
    /\ Logged(r) => req[r].base < at[r] /\ req[r].kind # "none"
    /\ Logged(r) => pc[r] \in AfterCommit \cup {"done", "failed"}
    /\ pc[r] \in AfterCommit => Logged(r)
    /\ r \in unannounced => Logged(r)
    /\ pc[r] = "idle" => req[r].kind = "none"
    /\ pc[r] # "idle" => req[r].kind # "none"
    /\ req[r].kind # "none" => req[r].task \in made

Distinct == \A r, q \in Req : Logged(r) /\ at[q] = at[r] => q = r

\* The task of a creation exists for nobody else until it is committed.
Creations ==
  \A r \in Req :
    req[r].kind = "create" =>
      /\ req[r].patch \in Row
      /\ ~ Logged(r) => /\ req[r].task \notin tasks
                        /\ \A q \in Req : q # r /\ req[q].kind # "none" => req[q].task # req[r].task
      /\ Logged(r) => position[req[r].task] = req[r].spot

\* What a request read is still there if nobody has committed since.
ReadsHold ==
  \A r \in Req :
    ( /\ pc[r] = "ready" /\ req[r].kind = "patch" /\ req[r].task \in tasks
      /\ \A q \in Req : req[q].task = req[r].task => at[q] <= req[r].base )
    => /\ req[r].seen = row[req[r].task]
       /\ req[r].seenLabels = labels[req[r].task]

\* The last request to assign a task has read its own assignment back.
FreshAssignee ==
  \A t \in tasks, r \in Req :
    LastWriter(r, t, "assignee") /\ pc[r] \in {"publish", "notify"}
    => fresh[r] = row[t]["assignee"]

\* A request that notifies has somebody to notify.
HasRecipient ==
  \A r \in Req : pc[r] = "notify" => Recipient(r) # NoUser

\* A task that is gone has a deletion to announce it.
GoneAnnounced ==
  \A r \in unannounced :
    req[r].task \notin tasks =>
      \E q \in unannounced : /\ req[q].task = req[r].task
                             /\ pc[q] \in {"publish", "failed"}
                             /\ req[q].kind = "delete"

\* A task that is level with or below a new one came after its MAX query.
Positions ==
  \A r \in Req, u \in tasks :
    ( /\ req[r].kind = "create" /\ u # req[r].task
      /\ row[u]["status"] = req[r].patch["status"] /\ position[u] >= req[r].spot )
    => \E q \in Writers(u, "status") : at[q] > req[r].base

\* Only tasks in the table have labels.
LabelsOfTasks == \A t \in Task \ tasks : labels[t] = {}

IInv ==
  /\ Bookkeeping /\ Distinct /\ Creations
  /\ LabelsOfTasks /\ LabelsMerge
  /\ LogExplainsRow /\ ReadsHold /\ PatchTakesEffect
  /\ FreshAssignee /\ HasRecipient /\ AssigneeNotified
  /\ GoneAnnounced /\ ChangesAnnounced
  /\ Positions
-----------------------------------------------------------------------------
(* The three classes of steps, as seen by the invariant.                   *)

\* r has read what it needs and nothing else has changed.
Started(r) ==
  LET q == req'[r] IN
  /\ pc[r] = "idle" /\ pc'[r] = "ready"
  /\ \A o \in Req \ {r} : pc'[o] = pc[o] /\ req'[o] = req[o]
  /\ q \in Request
  /\ q.seen = row[q.task] /\ q.seenLabels = labels[q.task] /\ q.base = commits
  /\ q.kind \in {"create", "patch", "delete"}
  /\ q.kind = "create" =>
       /\ q.task \notin made /\ q.patch \in Row
       /\ \A u \in tasks : row[u]["status"] = q.patch["status"] => position[u] < q.spot
  /\ q.kind # "create" => q.task \in tasks
  /\ q.task \in made' /\ made \subseteq made'
  /\ UNCHANGED <<tasks, row, labels, position, fresh, at, commits, unannounced, notified>>

\* r moves on without touching the database's tasks or the log.
Quiet(r) ==
  /\ pc[r] \in UnderWay
  /\ pc'[r] \in PCs \ {"idle", "ready", "refresh"}
  /\ pc[r] = "ready" => pc'[r] \in {"done", "failed"}
  /\ \A o \in Req \ {r} : pc'[o] = pc[o]
  /\ unannounced' \subseteq unannounced
  /\ UNCHANGED <<tasks, row, labels, position, made, req, at, commits>>

\* A request that has not committed commits, with the log entry.
Commits(r) ==
  /\ pc[r] = "ready" /\ pc'[r] \in {"refresh", "publish"}
  /\ \A o \in Req \ {r} : pc'[o] = pc[o] /\ at'[o] = at[o]
  /\ at'[r] = commits + 1 /\ commits' = commits + 1
  /\ unannounced' = unannounced \cup {r}
  /\ UNCHANGED <<made, req, fresh>>

\* Every step keeps the variables in their types.
LEMMA StepsTyped ==
  ASSUME TypeOK, Bookkeeping, Creations, [Next]_vars
  PROVE  TypeOK'
<1> USE NonEmptyAssumption DEF TypeOK, PCs, UnderWay, Goto, database
<1>0. Column = {"status", "assignee"} /\ NoUser \in Value
  BY DEF Column, Value
<1>a. ASSUME NEW r \in Req, NEW t \in Task, NEW u \in Member, NEW n \in Nat, NEW kind \in Kinds,
             NEW b, b.patch \in [Column -> Value \cup {Unset}], b.relabel \in {Unset} \cup SUBSET Label,
             Start(r, kind, t, u, b, n)
      PROVE  /\ req' \in [Req -> Request] /\ pc' \in [Req -> PCs]
             /\ UNCHANGED <<tasks, row, labels, position, fresh, at, commits, unannounced, notified>>
  BY <1>a DEF Start, Request, Kinds
<1>b. ASSUME NEW r \in Req, NEW t \in Task, NEW u \in Member, NEW b \in Body,
             NEW n \in {0} \cup {position[x] : x \in tasks}, StartCreate(r, t, u, b, n)
      PROVE  TypeOK'
  <2>1. n + 1 \in Nat
    OBVIOUS
  <2>2. b.patch \in [Column -> Value \cup {Unset}] /\ b.relabel \in {Unset} \cup SUBSET Label
    BY BodyAssumption
  <2>3. Start(r, "create", t, u, b, n + 1) /\ made' = made \cup {t}
    BY <1>b DEF StartCreate
  <2>4. /\ req' \in [Req -> Request] /\ pc' \in [Req -> PCs]
        /\ UNCHANGED <<tasks, row, labels, position, fresh, at, commits, unannounced, notified>>
    BY <1>a, <2>1, <2>2, <2>3 DEF Kinds
  <2> QED BY <2>3, <2>4
<1>c. ASSUME NEW r \in Req, NEW t \in Task, NEW u \in Member, NEW b \in Body, StartPatch(r, t, u, b)
      PROVE  TypeOK'
  <2>2. b.patch \in [Column -> Value \cup {Unset}] /\ b.relabel \in {Unset} \cup SUBSET Label
    BY BodyAssumption
  <2>3. Start(r, "patch", t, u, b, 0) /\ made' = made
    BY <1>c DEF StartPatch
  <2>4. /\ req' \in [Req -> Request] /\ pc' \in [Req -> PCs]
        /\ UNCHANGED <<tasks, row, labels, position, fresh, at, commits, unannounced, notified>>
    BY <1>a, <2>2, <2>3 DEF Kinds
  <2> QED BY <2>3, <2>4
<1>d. ASSUME NEW r \in Req, NEW t \in Task, StartDelete(r, t)
      PROVE  TypeOK'
  <2>2. /\ NoRequest.patch \in [Column -> Value \cup {Unset}]
        /\ NoRequest.relabel \in {Unset} \cup SUBSET Label /\ NoRequest.actor \in Member
    BY DEF NoRequest
  <2>3. Start(r, "delete", t, NoRequest.actor, NoRequest, 0) /\ made' = made
    BY <1>d DEF StartDelete
  <2>4. /\ req' \in [Req -> Request] /\ pc' \in [Req -> PCs]
        /\ UNCHANGED <<tasks, row, labels, position, fresh, at, commits, unannounced, notified>>
    BY <1>a, <2>2, <2>3 DEF Kinds
  <2> QED BY <2>3, <2>4
<1>e. ASSUME NEW r \in Req
      PROVE  /\ req[r].task \in Task /\ req[r].spot \in Nat /\ req[r].actor \in Member
             /\ req[r].patch \in [Column -> Value \cup {Unset}]
             /\ req[r].relabel \in {Unset} \cup SUBSET Label
             /\ req[r].seen \in Row /\ req[r].seenLabels \in SUBSET Label
             /\ req[r].base \in Nat /\ req[r].kind \in Kinds
  BY DEF Request
<1>f. ASSUME NEW r \in Req, CommitCreate(r) PROVE TypeOK'
  <2>1. req[r].patch \in Row /\ req[r].task \in made
    BY <1>f DEF CommitCreate, Creations, Bookkeeping
  <2> QED BY <1>e, <1>f, <2>1 DEF CommitCreate, Log, NewlyAssigned
<1>g. ASSUME NEW r \in Req, CommitPatch(r) PROVE TypeOK'
  <2> DEFINE q == req[r]
  <2>1. Write(row[q.task], q) \in Row
    BY <1>e DEF Write, Changed, Row
  <2>2. NewLabels(labels[q.task], q) \in SUBSET Label
    BY <1>e DEF NewLabels, Added, Removed, Relabels
  <2>3. /\ row' = [row EXCEPT ![q.task] = Write(row[q.task], q)]
        /\ labels' = [labels EXCEPT ![q.task] = NewLabels(labels[q.task], q)]
        /\ Log(r) /\ NewlyAssigned(q.task, Changed(q)) /\ Goto(r, "refresh")
        /\ UNCHANGED <<tasks, position, made, req, fresh>>
    BY <1>g DEF CommitPatch
  <2>4. q.task \in Task
    BY <1>e
  <2> HIDE DEF q
  <2> QED BY <2>1, <2>2, <2>3, <2>4 DEF Log, NewlyAssigned
<1>h. ASSUME NEW r \in Req, CommitDelete(r) PROVE TypeOK'
  BY <1>e, <1>h DEF CommitDelete, Log
<1>i. ASSUME NEW r \in Req, CommitNothing(r) \/ Rollback(r) \/ Fail(r) PROVE TypeOK'
  BY <1>i DEF CommitNothing, Rollback, Fail
<1>j. ASSUME NEW r \in Req, Refresh(r) PROVE TypeOK'
  <2>1. row[req[r].task]["assignee"] \in Value
    BY <1>0, <1>e DEF Row
  <2> QED BY <1>j, <2>1 DEF Refresh
<1>k. ASSUME NEW r \in Req PROVE Recipient(r) \in Value
  <2>1. CASE req[r].kind = "create"
    <3>1. req[r].patch["assignee"] \in Value
      BY <1>0, <2>1 DEF Creations, Row
    <3> QED BY <1>0, <2>1, <3>1 DEF Recipient
  <2>2. CASE req[r].kind # "create"
    BY <1>0, <2>2 DEF Recipient
  <2> QED BY <2>1, <2>2
<1>l. ASSUME NEW r \in Req, Publish(r) PROVE TypeOK'
  BY <1>l DEF Publish
<1>m. ASSUME NEW r \in Req, Notify(r) PROVE TypeOK'
  BY <1>e, <1>k, <1>m DEF Notify
<1>n. CASE UNCHANGED vars
  BY <1>n DEF vars
<1> QED
  BY <1>b, <1>c, <1>d, <1>f, <1>g, <1>h, <1>i, <1>j, <1>l, <1>m, <1>n DEF Next, Begin, Step

\* The steps that start a request.
LEMMA StartSteps ==
  ASSUME TypeOK, NEW r \in Req, Begin(r)
  PROVE  Started(r)
<1> USE NonEmptyAssumption DEF TypeOK, Goto
<1>0. Column = {"status", "assignee"}
  BY DEF Column
<1>a. ASSUME NEW t \in Task, NEW u \in Member, NEW n \in Nat, NEW kind \in Kinds,
             NEW b, b.patch \in [Column -> Value \cup {Unset}], b.relabel \in {Unset} \cup SUBSET Label,
             Start(r, kind, t, u, b, n)
      PROVE  /\ pc[r] = "idle" /\ pc'[r] = "ready"
             /\ \A o \in Req \ {r} : pc'[o] = pc[o] /\ req'[o] = req[o]
             /\ req'[r] \in Request
             /\ req'[r].kind = kind /\ req'[r].task = t /\ req'[r].patch = b.patch
             /\ req'[r].seen = row[t] /\ req'[r].seenLabels = labels[t]
             /\ req'[r].base = commits /\ req'[r].spot = n
             /\ UNCHANGED <<tasks, row, labels, position, fresh, at, commits, unannounced, notified>>
  BY <1>a DEF Start, Request, Kinds
<1>b. ASSUME NEW t \in Task, NEW u \in Member, NEW b \in Body,
             NEW n \in {0} \cup {position[x] : x \in tasks}, StartCreate(r, t, u, b, n)
      PROVE  Started(r)
  <2>1. n \in Nat /\ n + 1 \in Nat
    OBVIOUS
  <2>2. b.patch \in [Column -> Value \cup {Unset}] /\ b.relabel \in {Unset} \cup SUBSET Label
    BY BodyAssumption
  <2>3. /\ Start(r, "create", t, u, b, n + 1) /\ made' = made \cup {t} /\ t \notin made
        /\ \A c \in Column : b.patch[c] # Unset
        /\ IsMaxPosition(n, b.patch["status"])
    BY <1>b DEF StartCreate
  <2>4. b.patch \in Row
    BY <2>2, <2>3 DEF Row
  <2>5. \A x \in tasks : row[x]["status"] = b.patch["status"] => position[x] < n + 1
    BY <2>1, <2>3 DEF IsMaxPosition
  <2> QED BY <1>a, <2>1, <2>2, <2>3, <2>4, <2>5 DEF Started, Kinds
<1>c. ASSUME NEW t \in Task, NEW u \in Member, NEW b \in Body, StartPatch(r, t, u, b)
      PROVE  Started(r)
  <2>2. b.patch \in [Column -> Value \cup {Unset}] /\ b.relabel \in {Unset} \cup SUBSET Label
    BY BodyAssumption
  <2>3. Start(r, "patch", t, u, b, 0) /\ made' = made /\ t \in tasks
    BY <1>c DEF StartPatch
  <2> QED BY <1>a, <2>2, <2>3 DEF Started, Kinds
<1>d. ASSUME NEW t \in Task, StartDelete(r, t)
      PROVE  Started(r)
  <2>2. /\ NoRequest.patch \in [Column -> Value \cup {Unset}]
        /\ NoRequest.relabel \in {Unset} \cup SUBSET Label /\ NoRequest.actor \in Member
    BY DEF NoRequest
  <2>3. Start(r, "delete", t, NoRequest.actor, NoRequest, 0) /\ made' = made /\ t \in tasks
    BY <1>d DEF StartDelete
  <2> QED BY <1>a, <2>2, <2>3 DEF Started, Kinds
<1> QED BY <1>b, <1>c, <1>d DEF Begin

\* The steps that commit a change.
LEMMA CommitSteps ==
  ASSUME TypeOK, NEW r \in Req, CommitCreate(r) \/ CommitPatch(r) \/ CommitDelete(r)
  PROVE  Commits(r)
BY DEF TypeOK, CommitCreate, CommitPatch, CommitDelete, Commits, Log, Goto

\* The other steps.
LEMMA QuietSteps ==
  ASSUME TypeOK, NEW r \in Req,
         \/ CommitNothing(r) \/ Rollback(r) \/ Fail(r)
         \/ Refresh(r) \/ Publish(r) \/ Notify(r)
  PROVE  Quiet(r)
BY DEF TypeOK, CommitNothing, Rollback, Fail, Refresh, Publish, Notify, Quiet, Goto, PCs,
       UnderWay, database

\* Every step belongs to a class.
LEMMA StepClasses ==
  ASSUME TypeOK, [Next]_vars
  PROVE  \/ \E r \in Req : Started(r)
         \/ \E r \in Req : Commits(r) /\ (CommitCreate(r) \/ CommitPatch(r) \/ CommitDelete(r))
         \/ \E r \in Req : Quiet(r)
         \/ UNCHANGED vars
BY StartSteps, CommitSteps, QuietSteps DEF Next, Step
-----------------------------------------------------------------------------
(* Who wrote a column, after each class of steps.                          *)

\* A request that only starts changes nobody's writes.
LEMMA WritersAfterStart ==
  ASSUME TypeOK, Bookkeeping, NEW r \in Req, Started(r), NEW t, NEW c
  PROVE  /\ Writers(t, c)' = Writers(t, c)
         /\ \A q \in Req : LastWriter(q, t, c)' <=> LastWriter(q, t, c)
<1>1. at[r] = 0
  BY DEF TypeOK, Bookkeeping, Started, Logged, AfterCommit
<1>2. \A q \in Req : Logged(q) => req'[q] = req[q]
  BY <1>1 DEF Started, Logged
<1>3. at' = at
  BY DEF Started
<1>4. Writers(t, c)' = Writers(t, c)
  BY <1>2, <1>3 DEF Writers, Logged
<1> QED BY <1>3, <1>4 DEF LastWriter

\* A commit makes its request the last writer of the columns it writes, and of
\* no other.
LEMMA WritersAfterCommit ==
  ASSUME TypeOK, Bookkeeping, NEW r \in Req, Commits(r), NEW t, NEW c
  PROVE  /\ ~ Logged(r) /\ at'[r] > commits /\ \A q \in Req : at[q] <= at'[q]
         /\ t = req[r].task /\ c \in Written(req[r]) =>
              /\ Writers(t, c)' = Writers(t, c) \cup {r}
              /\ \A q \in Req : LastWriter(q, t, c)' => q = r
         /\ ~ (t = req[r].task /\ c \in Written(req[r])) =>
              /\ Writers(t, c)' = Writers(t, c)
              /\ \A q \in Req : LastWriter(q, t, c)' => LastWriter(q, t, c)
<1>1. at \in [Req -> Nat] /\ commits \in Nat
  BY DEF TypeOK
<1>2. at[r] = 0 /\ ~ Logged(r)
  BY <1>1 DEF Bookkeeping, Commits, Logged, AfterCommit
<1>3. at'[r] = commits + 1 /\ req' = req /\ \A o \in Req \ {r} : at'[o] = at[o]
  BY DEF Commits
<1>4. \A q \in Req : at[q] <= commits
  BY DEF Bookkeeping
<1>5. \A q \in Req : at[q] <= at'[q]
  BY <1>1, <1>2, <1>3
<1>6. Writers(t, c)' = {q \in Req : at'[q] > 0 /\ req[q].task = t /\ c \in Written(req[q])}
  BY <1>3 DEF Writers, Logged
<1>7. ASSUME t = req[r].task /\ c \in Written(req[r])
      PROVE  /\ Writers(t, c)' = Writers(t, c) \cup {r}
             /\ \A q \in Req : LastWriter(q, t, c)' => q = r
  <2>1. Writers(t, c)' = Writers(t, c) \cup {r}
    BY <1>1, <1>2, <1>3, <1>6, <1>7 DEF Writers, Logged
  <2>2. ASSUME NEW q \in Req, LastWriter(q, t, c)', q # r PROVE FALSE
    <3>1. at'[r] <= at'[q]
      BY <2>1, <2>2 DEF LastWriter
    <3> QED BY <1>1, <1>3, <1>4, <2>2, <3>1
  <2> QED BY <2>1, <2>2
<1>8. ASSUME ~ (t = req[r].task /\ c \in Written(req[r]))
      PROVE  /\ Writers(t, c)' = Writers(t, c)
             /\ \A q \in Req : LastWriter(q, t, c)' => LastWriter(q, t, c)
  <2>1. Writers(t, c)' = Writers(t, c)
    BY <1>1, <1>2, <1>3, <1>6, <1>8 DEF Writers, Logged
  <2>2. \A q \in Writers(t, c) : q \in Req /\ at'[q] = at[q]
    BY <1>2, <1>3 DEF Writers
  <2> QED BY <2>1, <2>2 DEF LastWriter
<1> QED BY <1>1, <1>2, <1>3, <1>5, <1>7, <1>8

\* Writers depend on the requests and the log only.
LEMMA WritersAfterQuiet ==
  ASSUME UNCHANGED <<req, at>>, NEW t, NEW c
  PROVE  /\ Writers(t, c)' = Writers(t, c)
         /\ \A q \in Req : LastWriter(q, t, c)' <=> LastWriter(q, t, c)
BY DEF Writers, LastWriter, Logged

-----------------------------------------------------------------------------
(* Each part of the invariant is kept by every step.                       *)

\* Log entries come with commits, after what their request read.
LEMMA BookkeepingKept ==
  ASSUME TypeOK, Bookkeeping, [Next]_vars
  PROVE  Bookkeeping'
<1> USE DEF TypeOK, AfterCommit, PCs, UnderWay, Logged
<1>0. \A r \in Req : at[r] \in Nat /\ req[r].base \in Nat
  BY DEF Request
<1>1. ASSUME NEW r \in Req, Started(r) PROVE Bookkeeping'
  <2>1. at[r] = 0 /\ at' = at /\ commits' = commits /\ unannounced' = unannounced
    BY <1>0, <1>1 DEF Bookkeeping, Started
  <2>2. r \notin unannounced
    BY <1>0, <2>1 DEF Bookkeeping
  <2> SUFFICES ASSUME NEW q \in Req
               PROVE  /\ at'[q] <= commits' /\ req'[q].base <= commits'
                      /\ Logged(q)' => req'[q].base < at'[q] /\ req'[q].kind # "none"
                      /\ Logged(q)' => pc'[q] \in AfterCommit \cup {"done", "failed"}
                      /\ pc'[q] \in AfterCommit => Logged(q)'
                      /\ q \in unannounced' => Logged(q)'
                      /\ pc'[q] = "idle" => req'[q].kind = "none"
                      /\ pc'[q] # "idle" => req'[q].kind # "none"
                      /\ req'[q].kind # "none" => req'[q].task \in made'
    BY DEF Bookkeeping
  <2>3. CASE q = r
    BY <1>0, <1>1, <2>1, <2>2, <2>3 DEF Started
  <2>4. CASE q # r
    <3>1. req'[q] = req[q] /\ pc'[q] = pc[q] /\ made \subseteq made'
      BY <1>1, <2>4 DEF Started
    <3> QED BY <2>1, <3>1 DEF Bookkeeping
  <2> QED BY <2>3, <2>4
<1>2. ASSUME NEW r \in Req, Commits(r) PROVE Bookkeeping'
  BY <1>0, <1>2 DEF Bookkeeping, Commits
<1>3. ASSUME NEW r \in Req, Quiet(r) PROVE Bookkeeping'
  BY <1>0, <1>3 DEF Bookkeeping, Quiet
<1>4. CASE UNCHANGED vars
  BY <1>4 DEF Bookkeeping, vars, database
<1> QED BY <1>1, <1>2, <1>3, <1>4, StepClasses

\* No two commits get the same place in the log.
LEMMA DistinctKept ==
  ASSUME TypeOK, Bookkeeping, Distinct, [Next]_vars
  PROVE  Distinct'
<1> USE DEF TypeOK, Logged
<1>1. ASSUME NEW r \in Req, Commits(r) PROVE Distinct'
  BY <1>1 DEF Distinct, Bookkeeping, Commits
<1>2. CASE at' = at
  BY <1>2 DEF Distinct
<1> QED BY <1>1, <1>2, StepClasses DEF Started, Quiet, vars

\* Ids are fresh, and nobody can load a task before its creation commits.
LEMMA CreationsKept ==
  ASSUME TypeOK, Bookkeeping, Creations, [Next]_vars
  PROVE  Creations'
<1>0. \A r \in Req : at[r] \in Nat /\ req[r].task \in Task
  BY DEF TypeOK, Request
<1>1. ASSUME NEW r \in Req, Started(r) PROVE Creations'
  <2>1. UNCHANGED <<tasks, position, at>> /\ at[r] = 0
    BY <1>0, <1>1 DEF Bookkeeping, Started, Logged, AfterCommit
  <2> SUFFICES ASSUME NEW q \in Req, req'[q].kind = "create"
               PROVE  /\ req'[q].patch \in Row
                      /\ at[q] = 0 => /\ req'[q].task \notin tasks
                                      /\ \A o \in Req : o # q /\ req'[o].kind # "none"
                                                          => req'[o].task # req'[q].task
                      /\ at[q] > 0 => position[req'[q].task] = req'[q].spot
    BY <1>0, <2>1 DEF Creations, Logged
  <2>2. CASE q = r
    <3>1. req'[q].task \notin made /\ req'[q].patch \in Row
      BY <1>1, <2>2 DEF Started
    <3>2. \A o \in Req : o # q /\ req'[o].kind # "none" => req'[o].task \in made
      BY <1>1, <2>2 DEF Started, Bookkeeping
    <3> QED BY <2>1, <2>2, <3>1, <3>2 DEF TypeOK
  <2>3. CASE q # r
    <3>1. req'[q] = req[q]
      BY <1>1, <2>3 DEF Started
    <3>2. at[q] = 0 => req'[r].task # req[q].task
      <4>1. req[q].task \in made
        BY <2>3, <3>1 DEF Bookkeeping
      <4>2. at[q] = 0 => req[q].task \notin tasks
        BY <3>1 DEF Creations, Logged
      <4> QED BY <1>1, <4>1, <4>2 DEF Started
    <3>3. \A o \in Req \ {r} : req'[o] = req[o]
      BY <1>1 DEF Started
    <3> QED BY <3>1, <3>2, <3>3 DEF Creations, Logged
  <2> QED BY <2>2, <2>3
<1>2. ASSUME NEW r \in Req, Commits(r), CommitCreate(r) PROVE Creations'
  <2>1. /\ req' = req /\ at[r] = 0 /\ at'[r] > 0 /\ \A o \in Req \ {r} : at'[o] = at[o]
        /\ tasks' = tasks \cup {req[r].task} /\ req[r].kind = "create"
        /\ position' = [position EXCEPT ![req[r].task] = req[r].spot]
    BY <1>0, <1>2 DEF TypeOK, Bookkeeping, Commits, CommitCreate, Logged, AfterCommit
  <2>2. \A o \in Req : o # r /\ req[o].kind # "none" => req[o].task # req[r].task
    BY <2>1 DEF Creations, Logged
  <2> QED BY <1>0, <2>1, <2>2 DEF Creations, Logged, TypeOK
<1>3. ASSUME NEW r \in Req, Commits(r), CommitPatch(r) \/ CommitDelete(r) PROVE Creations'
  <2>1. /\ req' = req /\ \A o \in Req \ {r} : at'[o] = at[o]
        /\ tasks' \subseteq tasks /\ req[r].kind # "create" /\ position' = position
    BY <1>3 DEF Commits, CommitPatch, CommitDelete
  <2> QED BY <2>1 DEF Creations, Logged
<1>4. ASSUME NEW r \in Req, Quiet(r) PROVE Creations'
  BY <1>4 DEF Creations, Quiet, Logged
<1>5. CASE UNCHANGED vars
  BY <1>5 DEF Creations, vars, database, Logged
<1> QED BY <1>1, <1>2, <1>3, <1>4, <1>5, StepClasses

\* UPDATE and log entry mention the same columns.
LEMMA LogKept ==
  ASSUME TypeOK, Bookkeeping, Creations, LogExplainsRow, [Next]_vars
  PROVE  LogExplainsRow'
<1>0. /\ row \in [Task -> Row] /\ tasks \subseteq Task
      /\ \A r \in Req : req[r].task \in Task
  BY DEF TypeOK, Request
<1>1. ASSUME NEW r \in Req, Started(r) PROVE LogExplainsRow'
  <2>1. UNCHANGED <<tasks, row>>
    BY <1>1 DEF Started
  <2>2. \A q \in Req : Logged(q) => req'[q] = req[q]
    BY <1>1 DEF TypeOK, Bookkeeping, Started, Logged, AfterCommit
  <2> SUFFICES ASSUME NEW t \in tasks, NEW c \in Column
               PROVE  /\ \A q \in Req : LastWriter(q, t, c)' => row[t][c] = req'[q].patch[c]
                      /\ Writers(t, c)' = {} => row[t][c] = EmptyRow[c]
    BY <2>1 DEF LogExplainsRow, EmptyRow
  <2>3. /\ Writers(t, c)' = Writers(t, c)
        /\ \A q \in Req : LastWriter(q, t, c)' <=> LastWriter(q, t, c)
    BY <1>1, WritersAfterStart
  <2>4. \A q \in Req : LastWriter(q, t, c) => Logged(q)
    BY DEF LastWriter, Writers
  <2> QED BY <2>2, <2>3, <2>4 DEF LogExplainsRow
<1>2. ASSUME NEW r \in Req, Commits(r), CommitCreate(r) \/ CommitPatch(r) \/ CommitDelete(r)
      PROVE  LogExplainsRow'
  <2>1. req' = req
    BY <1>2 DEF Commits
  <2> SUFFICES ASSUME NEW t \in tasks', NEW c \in Column
               PROVE  /\ \A q \in Req : LastWriter(q, t, c)' => row'[t][c] = req[q].patch[c]
                      /\ Writers(t, c)' = {} => row'[t][c] = EmptyRow[c]
    BY <2>1 DEF LogExplainsRow, EmptyRow
  <2>2. CASE t = req[r].task /\ c \in Written(req[r])
    <3>1. Writers(t, c)' # {} /\ \A q \in Req : LastWriter(q, t, c)' => q = r
      BY <1>2, <2>2, WritersAfterCommit
    <3>2. row'[t][c] = req[r].patch[c]
      <4>1. CASE CommitCreate(r)
        BY <1>0, <2>2, <4>1 DEF CommitCreate
      <4>2. CASE CommitPatch(r)
        <5>1. c \in Changed(req[r])
          BY <2>2, <4>2 DEF CommitPatch, Written
        <5> QED BY <1>0, <2>2, <4>2, <5>1 DEF CommitPatch, Write
      <4>3. CASE CommitDelete(r)
        BY <2>2, <4>3 DEF CommitDelete, Written
      <4> QED BY <1>2, <4>1, <4>2, <4>3
    <3> QED BY <3>1, <3>2
  <2>3. CASE ~ (t = req[r].task /\ c \in Written(req[r]))
    <3>1. /\ Writers(t, c)' = Writers(t, c)
          /\ \A q \in Req : LastWriter(q, t, c)' => LastWriter(q, t, c)
      BY <1>2, <2>3, WritersAfterCommit
    <3>2. t \in tasks /\ row'[t][c] = row[t][c]
      <4>1. CASE CommitCreate(r)
        BY <1>0, <2>3, <4>1 DEF CommitCreate, Written
      <4>2. CASE CommitPatch(r)
        <5>1. t \in tasks /\ row' = [row EXCEPT ![req[r].task] = Write(row[req[r].task], req[r])]
          BY <4>2 DEF CommitPatch
        <5>2. CASE t = req[r].task
          <6>1. c \notin Changed(req[r])
            BY <2>3, <4>2, <5>2 DEF CommitPatch, Written
          <6> QED BY <1>0, <5>1, <5>2, <6>1 DEF Write
        <5>3. CASE t # req[r].task
          BY <1>0, <5>1, <5>3
        <5> QED BY <5>2, <5>3
      <4>3. CASE CommitDelete(r)
        BY <4>3 DEF CommitDelete
      <4> QED BY <1>2, <4>1, <4>2, <4>3
    <3> QED BY <3>1, <3>2 DEF LogExplainsRow
  <2> QED BY <2>2, <2>3
<1>3. ASSUME UNCHANGED <<tasks, row, req, at>> PROVE LogExplainsRow'
  <2> SUFFICES ASSUME NEW t \in tasks, NEW c \in Column
               PROVE  /\ \A q \in Req : LastWriter(q, t, c)' => row[t][c] = req[q].patch[c]
                      /\ Writers(t, c)' = {} => row[t][c] = EmptyRow[c]
    BY <1>3 DEF LogExplainsRow, EmptyRow
  <2> QED BY <1>3, WritersAfterQuiet DEF LogExplainsRow
<1> QED BY <1>1, <1>2, <1>3, StepClasses DEF Quiet, vars, database

\* Rows of task_labels come and go with those of the tasks.
LEMMA LabelsOfTasksKept ==
  ASSUME TypeOK, LabelsOfTasks, [Next]_vars
  PROVE  LabelsOfTasks'
<1>0. labels \in [Task -> SUBSET Label] /\ \A r \in Req : req[r].task \in Task
  BY DEF TypeOK, Request
<1>1. ASSUME NEW r \in Req, CommitCreate(r) \/ CommitPatch(r) \/ CommitDelete(r)
      PROVE  LabelsOfTasks'
  BY <1>0, <1>1 DEF LabelsOfTasks, CommitCreate, CommitPatch, CommitDelete, CanWrite
<1>2. CASE UNCHANGED <<tasks, labels>>
  BY <1>2 DEF LabelsOfTasks
<1> QED BY <1>1, <1>2, StepClasses DEF Started, Quiet, vars, database

\* A request that only starts, or goes on without a commit, changes nobody's
\* labels.
LEMMA RelabelersStay ==
  ASSUME at' = at, \A q \in Req : Logged(q) => req'[q] = req[q], NEW t, NEW l
  PROVE  /\ Relabelers(t, l)' = Relabelers(t, l)
         /\ \A q \in Req : LastRelabeler(q, t, l)' <=> LastRelabeler(q, t, l)
<1>1. Relabelers(t, l)' = Relabelers(t, l)
  BY DEF Relabelers, Logged, Relabels, Added, Removed
<1> QED BY <1>1 DEF LastRelabeler

\* A commit makes its request the last one of the labels it changes, and of no
\* other.
LEMMA RelabelersAfterCommit ==
  ASSUME TypeOK, Bookkeeping, NEW r \in Req, Commits(r), NEW t, NEW l
  PROVE  LET mine == /\ req[r].kind = "patch" /\ t = req[r].task /\ Relabels(req[r])
                     /\ l \in Added(req[r]) \cup Removed(req[r]) IN
         /\ mine => r \in Relabelers(t, l)' /\ \A q \in Req : LastRelabeler(q, t, l)' => q = r
         /\ ~ mine => /\ Relabelers(t, l)' = Relabelers(t, l)
                      /\ \A q \in Req : LastRelabeler(q, t, l)' => LastRelabeler(q, t, l)
<1> DEFINE Changes(q) == /\ req[q].kind = "patch" /\ req[q].task = t /\ Relabels(req[q])
                         /\ l \in Added(req[q]) \cup Removed(req[q])
<1>1. at \in [Req -> Nat] /\ commits \in Nat
  BY DEF TypeOK
<1>2. at[r] = 0 /\ at'[r] = commits + 1 /\ req' = req /\ \A o \in Req \ {r} : at'[o] = at[o]
  BY <1>1 DEF Bookkeeping, Commits, Logged, AfterCommit
<1>3. \A q \in Req : at[q] <= commits
  BY DEF Bookkeeping
<1>4. /\ Relabelers(t, l)' = {q \in Req : at'[q] > 0 /\ Changes(q)}
      /\ Relabelers(t, l) = {q \in Req : at[q] > 0 /\ Changes(q)}
  BY <1>2 DEF Relabelers, Logged
<1> HIDE DEF Changes
<1>5. ASSUME Changes(r)
      PROVE  r \in Relabelers(t, l)' /\ \A q \in Req : LastRelabeler(q, t, l)' => q = r
  <2>1. r \in Relabelers(t, l)'
    BY <1>1, <1>2, <1>4, <1>5
  <2>2. ASSUME NEW q \in Req, LastRelabeler(q, t, l)', q # r PROVE FALSE
    <3>1. at'[r] <= at'[q]
      BY <2>1, <2>2 DEF LastRelabeler
    <3> QED BY <1>1, <1>2, <1>3, <2>2, <3>1
  <2> QED BY <2>1, <2>2
<1>6. ASSUME ~ Changes(r)
      PROVE  /\ Relabelers(t, l)' = Relabelers(t, l)
             /\ \A q \in Req : LastRelabeler(q, t, l)' => LastRelabeler(q, t, l)
  <2>1. Relabelers(t, l)' = Relabelers(t, l)
    BY <1>1, <1>2, <1>4, <1>6
  <2>2. \A q \in Relabelers(t, l) : q \in Req /\ at'[q] = at[q]
    BY <1>1, <1>2, <1>4
  <2> QED BY <2>1, <2>2 DEF LastRelabeler
<1> QED BY <1>5, <1>6 DEF Changes

\* The rows a patch inserts and deletes are those of the labels it changes.
LEMMA LabelsMergeKept ==
  ASSUME TypeOK, Bookkeeping, Creations, LabelsOfTasks, LabelsMerge, [Next]_vars
  PROVE  LabelsMerge'
<1>0. /\ labels \in [Task -> SUBSET Label] /\ tasks \subseteq Task
      /\ \A r \in Req : req[r].task \in Task
  BY DEF TypeOK, Request
<1>1. ASSUME UNCHANGED <<tasks, labels, at>>, \A q \in Req : Logged(q) => req'[q] = req[q]
      PROVE  LabelsMerge'
  <2> SUFFICES ASSUME NEW t \in tasks, NEW l \in Label
               PROVE  /\ \A q \in Req : LastRelabeler(q, t, l)'
                                          => (l \in labels[t] <=> l \in req'[q].relabel)
                      /\ Relabelers(t, l)' = {} => l \notin labels[t]
    BY <1>1 DEF LabelsMerge
  <2>1. /\ Relabelers(t, l)' = Relabelers(t, l)
        /\ \A q \in Req : LastRelabeler(q, t, l)' <=> LastRelabeler(q, t, l)
    BY <1>1, RelabelersStay
  <2>2. \A q \in Req : LastRelabeler(q, t, l) => Logged(q)
    BY DEF LastRelabeler, Relabelers
  <2> QED BY <1>1, <2>1, <2>2 DEF LabelsMerge
<1>2. ASSUME NEW r \in Req, Commits(r), CommitCreate(r) \/ CommitPatch(r) \/ CommitDelete(r)
      PROVE  LabelsMerge'
  <2>1. req' = req
    BY <1>2 DEF Commits
  <2> SUFFICES ASSUME NEW t \in tasks', NEW l \in Label
               PROVE  /\ \A q \in Req : LastRelabeler(q, t, l)'
                                          => (l \in labels'[t] <=> l \in req[q].relabel)
                      /\ Relabelers(t, l)' = {} => l \notin labels'[t]
    BY <2>1 DEF LabelsMerge
  <2> DEFINE mine == /\ req[r].kind = "patch" /\ t = req[r].task /\ Relabels(req[r])
                     /\ l \in Added(req[r]) \cup Removed(req[r])
  <2>2. CASE mine
    <3>1. r \in Relabelers(t, l)' /\ \A q \in Req : LastRelabeler(q, t, l)' => q = r
      BY <1>2, <2>2, RelabelersAfterCommit
    <3>2. labels' = [labels EXCEPT ![t] = (@ \ Removed(req[r])) \cup Added(req[r])]
      BY <1>2, <2>2 DEF CommitCreate, CommitPatch, CommitDelete, NewLabels
    <3>3. l \in labels'[t] <=> l \in req[r].relabel
      BY <1>0, <2>2, <3>2 DEF Added, Removed
    <3> QED BY <3>1, <3>3
  <2>3. CASE ~ mine
    <3>1. /\ Relabelers(t, l)' = Relabelers(t, l)
          /\ \A q \in Req : LastRelabeler(q, t, l)' => LastRelabeler(q, t, l)
      BY <1>2, <2>3, RelabelersAfterCommit
    <3>2. CASE t \in tasks
      <4>1. l \in labels'[t] <=> l \in labels[t]
        <5>1. CASE CommitCreate(r)
          BY <5>1 DEF CommitCreate
        <5>2. CASE CommitPatch(r)
          <6>1. labels' = [labels EXCEPT ![req[r].task] = NewLabels(@, req[r])] /\ req[r].kind = "patch"
            BY <5>2 DEF CommitPatch
          <6> QED BY <1>0, <2>3, <3>2, <6>1 DEF NewLabels
        <5>3. CASE CommitDelete(r)
          BY <1>0, <3>2, <5>3 DEF CommitDelete
        <5> QED BY <1>2, <5>1, <5>2, <5>3
      <4> QED BY <3>1, <3>2, <4>1 DEF LabelsMerge
    <3>3. CASE t \notin tasks
      <4>1. CommitCreate(r) /\ t = req[r].task
        BY <1>2, <3>3 DEF CommitCreate, CommitPatch, CommitDelete
      <4>2. l \notin labels'[t]
        BY <1>0, <3>3, <4>1 DEF CommitCreate, LabelsOfTasks
      <4>3. Relabelers(t, l) = {}
        <5> SUFFICES ASSUME NEW q \in Relabelers(t, l) PROVE FALSE
          OBVIOUS
        <5>1. q \in Req /\ Logged(q) /\ req[q].kind = "patch" /\ req[q].task = t
          BY DEF Relabelers
        <5>2. req[r].kind = "create" /\ ~ Logged(r)
          BY <4>1 DEF CommitCreate, Bookkeeping, AfterCommit
        <5> QED BY <4>1, <5>1, <5>2 DEF Creations
      <4> QED BY <3>1, <4>2, <4>3 DEF LastRelabeler
    <3> QED BY <3>2, <3>3
  <2> QED BY <2>2, <2>3
<1>3. ASSUME NEW r \in Req, Started(r) PROVE LabelsMerge'
  <2>1. \A q \in Req : Logged(q) => req'[q] = req[q]
    BY <1>3 DEF TypeOK, Bookkeeping, Started, Logged, AfterCommit
  <2> QED BY <1>1, <1>3, <2>1 DEF Started
<1> QED BY <1>1, <1>2, <1>3, StepClasses DEF Quiet, vars, database

\* What a request has read can only be outdated by a commit on its task.
LEMMA ReadsKept ==
  ASSUME TypeOK, Bookkeeping, Creations, ReadsHold, [Next]_vars
  PROVE  ReadsHold'
<1>0. /\ \A r \in Req : at[r] \in Nat /\ req[r].base \in Nat /\ req[r].task \in Task
      /\ commits \in Nat /\ row \in [Task -> Row] /\ labels \in [Task -> SUBSET Label]
  BY DEF TypeOK, Request
<1>1. ASSUME NEW r \in Req, Started(r) PROVE ReadsHold'
  <2>1. /\ UNCHANGED <<tasks, row, labels, at>> /\ at[r] = 0
        /\ req'[r].seen = row[req'[r].task] /\ req'[r].seenLabels = labels[req'[r].task]
        /\ \A o \in Req \ {r} : pc'[o] = pc[o] /\ req'[o] = req[o]
    BY <1>0, <1>1 DEF Bookkeeping, Started, Logged, AfterCommit
  <2> SUFFICES ASSUME NEW q \in Req, pc'[q] = "ready", req'[q].kind = "patch", req'[q].task \in tasks,
                      \A o \in Req : req'[o].task = req'[q].task => at[o] <= req'[q].base
               PROVE  /\ req'[q].seen = row[req'[q].task]
                      /\ req'[q].seenLabels = labels[req'[q].task]
    BY <2>1 DEF ReadsHold
  <2>2. CASE q # r
    <3>1. req'[q] = req[q] /\ pc[q] = "ready"
      BY <2>1, <2>2
    <3>2. \A o \in Req : req[o].task = req[q].task => at[o] <= req[q].base
      BY <1>0, <2>1, <3>1
    <3> QED BY <3>1, <3>2 DEF ReadsHold
  <2> QED BY <2>1, <2>2
<1>2. ASSUME NEW r \in Req, Commits(r), CommitCreate(r) \/ CommitPatch(r) \/ CommitDelete(r)
      PROVE  ReadsHold'
  <2>1. /\ req' = req /\ at'[r] = commits + 1 /\ at[r] = 0 /\ pc'[r] # "ready"
        /\ \A o \in Req \ {r} : pc'[o] = pc[o] /\ at'[o] = at[o]
    BY <1>0, <1>2 DEF Bookkeeping, Commits, Logged, AfterCommit
  <2> SUFFICES ASSUME NEW q \in Req, pc'[q] = "ready", req[q].kind = "patch", req[q].task \in tasks',
                      \A o \in Req : req[o].task = req[q].task => at'[o] <= req[q].base
               PROVE  /\ req[q].seen = row'[req[q].task]
                      /\ req[q].seenLabels = labels'[req[q].task]
    BY <2>1 DEF ReadsHold
  <2>2. req[q].base <= commits
    BY DEF Bookkeeping
  <2>3. req[r].task # req[q].task
    BY <1>0, <2>1, <2>2
  <2>4. /\ req[q].task \in tasks /\ row'[req[q].task] = row[req[q].task]
        /\ labels'[req[q].task] = labels[req[q].task]
    BY <1>0, <1>2, <2>3 DEF CommitCreate, CommitPatch, CommitDelete
  <2>5. pc[q] = "ready" /\ \A o \in Req : req[o].task = req[q].task => at[o] <= req[q].base
    BY <1>0, <2>1
  <2> QED BY <2>4, <2>5 DEF ReadsHold
<1>3. ASSUME NEW r \in Req, Quiet(r) PROVE ReadsHold'
  BY <1>3 DEF ReadsHold, Quiet, UnderWay
<1>4. CASE UNCHANGED vars
  BY <1>4 DEF ReadsHold, vars, database
<1> QED BY <1>1, <1>2, <1>3, <1>4, StepClasses

\* Without a commit in between, what was read is what is written over.
LEMMA EffectKept ==
  ASSUME TypeOK, Bookkeeping, Creations, ReadsHold, PatchTakesEffect, [Next]_vars
  PROVE  PatchTakesEffect'
<1>0. /\ \A r \in Req : at[r] \in Nat /\ req[r].base \in Nat /\ req[r].task \in Task
      /\ commits \in Nat /\ row \in [Task -> Row] /\ labels \in [Task -> SUBSET Label]
  BY DEF TypeOK, Request
<1>1. ASSUME NEW r \in Req, Started(r) PROVE PatchTakesEffect'
  <2>1. /\ UNCHANGED <<tasks, row, labels, at>> /\ at[r] = 0
        /\ \A o \in Req \ {r} : req'[o] = req[o]
    BY <1>0, <1>1 DEF Bookkeeping, Started, Logged, AfterCommit
  <2> SUFFICES ASSUME NEW q \in Req, at[q] > 0, req'[q].kind = "patch", req'[q].task \in tasks, Alone(q)',
                      \A o \in Req : req'[o].task = req'[q].task => at[o] <= at[q]
               PROVE  /\ \A c \in Column : req'[q].patch[c] # Unset => row[req'[q].task][c] = req'[q].patch[c]
                      /\ req'[q].relabel # Unset => labels[req'[q].task] = req'[q].relabel
    BY <2>1 DEF PatchTakesEffect, Logged
  <2>2. q # r /\ req'[q] = req[q]
    BY <1>0, <2>1
  <2>3. Alone(q)
    BY <1>0, <2>1, <2>2 DEF Alone
  <2>4. \A o \in Req : req[o].task = req[q].task => at[o] <= at[q]
    BY <1>0, <2>1, <2>2
  <2> QED BY <2>2, <2>3, <2>4 DEF PatchTakesEffect, Logged
<1>2. ASSUME NEW r \in Req, Commits(r), CommitCreate(r) \/ CommitPatch(r) \/ CommitDelete(r)
      PROVE  PatchTakesEffect'
  <2>1. /\ req' = req /\ at'[r] = commits + 1 /\ at[r] = 0
        /\ \A o \in Req \ {r} : at'[o] = at[o]
    BY <1>0, <1>2 DEF Bookkeeping, Commits, Logged, AfterCommit
  <2>a. \A o \in Req : at[o] <= commits
    BY DEF Bookkeeping
  <2> SUFFICES ASSUME NEW q \in Req, at'[q] > 0, req[q].kind = "patch", req[q].task \in tasks', Alone(q)',
                      \A o \in Req : req[o].task = req[q].task => at'[o] <= at'[q]
               PROVE  /\ \A c \in Column : req[q].patch[c] # Unset => row'[req[q].task][c] = req[q].patch[c]
                      /\ req[q].relabel # Unset => labels'[req[q].task] = req[q].relabel
    BY <2>1 DEF PatchTakesEffect, Logged
  <2>2. CASE q = r
    <3> DEFINE b == req[r]
    <3>1. CommitPatch(r) /\ b.task \in tasks /\ pc[r] = "ready"
      BY <1>2, <2>2 DEF CommitCreate, CommitPatch, CommitDelete, CanWrite
    <3>2. \A o \in Req : req[o].task = b.task => at[o] <= b.base
      BY <1>0, <2>1, <2>a, <2>2 DEF Alone
    <3>3. b.seen = row[b.task] /\ b.seenLabels = labels[b.task]
      BY <2>2, <3>1, <3>2 DEF ReadsHold
    <3>4. /\ row'[b.task] = Write(row[b.task], b)
          /\ labels'[b.task] = NewLabels(labels[b.task], b)
      BY <1>0, <3>1 DEF CommitPatch
    <3>5. \A c \in Column : b.patch[c] # Unset => Write(row[b.task], b)[c] = b.patch[c]
      BY <3>3 DEF Write, Changed
    <3>6. b.relabel # Unset => NewLabels(labels[b.task], b) = b.relabel
      <4>1. b.relabel \in {Unset} \cup SUBSET Label
        BY DEF TypeOK, Request
      <4> QED BY <3>3, <4>1 DEF NewLabels, Relabels, Added, Removed
    <3> QED BY <2>2, <3>4, <3>5, <3>6
  <2>3. CASE q # r
    <3>1. req[r].task # req[q].task
      BY <1>0, <2>1, <2>a, <2>3
    <3>2. /\ req[q].task \in tasks /\ row'[req[q].task] = row[req[q].task]
          /\ labels'[req[q].task] = labels[req[q].task]
      BY <1>0, <1>2, <3>1 DEF CommitCreate, CommitPatch, CommitDelete
    <3>3. at'[q] = at[q] /\ \A o \in Req : req[o].task = req[q].task => at'[o] = at[o]
      BY <2>1, <2>3, <3>1
    <3>4. Alone(q)
      BY <1>0, <2>1, <3>3 DEF Alone
    <3> QED BY <3>2, <3>3, <3>4 DEF PatchTakesEffect, Logged
  <2> QED BY <2>2, <2>3
<1>3. ASSUME UNCHANGED <<tasks, row, labels, req, at>> PROVE PatchTakesEffect'
  BY <1>3 DEF PatchTakesEffect, Alone, Logged
<1> QED BY <1>1, <1>2, <1>3, StepClasses DEF Quiet, vars, database

\* Whoever enters a column after a MAX query does so with a log entry.
LEMMA PositionsKept ==
  ASSUME TypeOK, Bookkeeping, Creations, Positions, [Next]_vars
  PROVE  Positions'
<1>0. /\ \A r \in Req : at[r] \in Nat /\ req[r].base \in Nat /\ req[r].task \in Task /\ req[r].spot \in Nat
      /\ commits \in Nat /\ row \in [Task -> Row] /\ position \in [Task -> Nat] /\ tasks \subseteq Task
      /\ "status" \in Column
  BY DEF TypeOK, Request, Column
<1>1. ASSUME NEW r \in Req, Started(r) PROVE Positions'
  <2>1. /\ UNCHANGED <<tasks, row, position, at>>
        /\ \A o \in Req \ {r} : req'[o] = req[o]
        /\ req'[r].kind = "create" =>
             /\ req'[r].spot \in Nat
             /\ \A u \in tasks : row[u]["status"] = req'[r].patch["status"] => position[u] < req'[r].spot
    BY <1>1 DEF Started, Request
  <2> SUFFICES ASSUME NEW q \in Req, NEW u \in tasks, req'[q].kind = "create", u # req'[q].task,
                      row[u]["status"] = req'[q].patch["status"], position[u] >= req'[q].spot
               PROVE  \E w \in Writers(u, "status")' : at[w] > req'[q].base
    BY <2>1 DEF Positions
  <2>2. q # r /\ req'[q] = req[q]
    BY <1>0, <2>1
  <2>3. Writers(u, "status")' = Writers(u, "status")
    BY <1>1, WritersAfterStart
  <2> QED BY <2>2, <2>3 DEF Positions
<1>2. ASSUME NEW r \in Req, Commits(r), CommitCreate(r) \/ CommitPatch(r) \/ CommitDelete(r)
      PROVE  Positions'
  <2>1. req' = req
    BY <1>2 DEF Commits
  <2> SUFFICES ASSUME NEW q \in Req, NEW u \in tasks', req[q].kind = "create", u # req[q].task,
                      row'[u]["status"] = req[q].patch["status"], position'[u] >= req[q].spot
               PROVE  \E w \in Writers(u, "status")' : at'[w] > req[q].base
    BY <2>1 DEF Positions
  <2>a. req[q].base <= commits
    BY DEF Bookkeeping
  <2>2. CASE u = req[r].task /\ "status" \in Written(req[r])
    <3>1. r \in Writers(u, "status")' /\ at'[r] > commits
      BY <1>2, <2>2, WritersAfterCommit
    <3>2. at'[r] = commits + 1
      BY <1>2 DEF Commits
    <3> QED BY <1>0, <2>a, <3>1, <3>2
  <2>3. CASE ~ (u = req[r].task /\ "status" \in Written(req[r]))
    <3>1. /\ Writers(u, "status")' = Writers(u, "status")
          /\ \A o \in Req : at[o] <= at'[o]
      BY <1>2, <2>3, WritersAfterCommit
    <3>2. u \in tasks /\ position'[u] = position[u] /\ row'[u]["status"] = row[u]["status"]
      <4>1. CASE CommitCreate(r)
        BY <1>0, <2>3, <4>1 DEF CommitCreate, Written
      <4>2. CASE CommitPatch(r)
        <5>1. /\ u \in tasks /\ position' = position
              /\ row' = [row EXCEPT ![req[r].task] = Write(row[req[r].task], req[r])]
          BY <4>2 DEF CommitPatch
        <5>2. CASE u = req[r].task
          <6>1. "status" \notin Changed(req[r])
            BY <2>3, <4>2, <5>2 DEF CommitPatch, Written
          <6> QED BY <1>0, <5>1, <5>2, <6>1 DEF Write
        <5>3. CASE u # req[r].task
          BY <1>0, <5>1, <5>3
        <5> QED BY <5>2, <5>3
      <4>3. CASE CommitDelete(r)
        BY <4>3 DEF CommitDelete
      <4> QED BY <1>2, <4>1, <4>2, <4>3
    <3>3. PICK w \in Writers(u, "status") : at[w] > req[q].base
      BY <3>2 DEF Positions
    <3>4. w \in Req /\ at'[w] \in Nat
      BY <1>0, <1>2 DEF Writers, Commits
    <3> QED BY <1>0, <3>1, <3>3, <3>4
  <2> QED BY <2>2, <2>3
<1>3. ASSUME UNCHANGED <<tasks, row, position, req, at>> PROVE Positions'
  BY <1>3, WritersAfterQuiet DEF Positions
<1> QED BY <1>1, <1>2, <1>3, StepClasses DEF Quiet, vars, database

-----------------------------------------------------------------------------
(* Assignments.                                                            *)

\* The last request to assign a task notifies whoever has it now.
LEMMA RecipientIsAssignee ==
  ASSUME LogExplainsRow, FreshAssignee, NEW r \in Req, NEW t \in tasks,
         LastWriter(r, t, "assignee"), pc[r] \in {"publish", "notify"}
  PROVE  /\ t = req[r].task
         /\ Recipient(r) = IF row[t]["assignee"] = req[r].actor THEN NoUser ELSE row[t]["assignee"]
<1>1. t = req[r].task /\ "assignee" \in Written(req[r]) /\ fresh[r] = row[t]["assignee"]
  BY DEF LastWriter, Writers, FreshAssignee
<1>2. "assignee" \in Column
  BY DEF Column
<1>3. CASE req[r].kind = "create"
  BY <1>1, <1>2, <1>3 DEF LogExplainsRow, Recipient
<1>4. CASE req[r].kind = "patch"
  BY <1>1, <1>4 DEF Written, Recipient
<1> QED BY <1>1, <1>3, <1>4 DEF Written

\* What a commit does to the assignments it does not make.
LEMMA OtherAssignments ==
  ASSUME TypeOK, Bookkeeping, Creations, NEW r \in Req, Commits(r),
         CommitCreate(r) \/ CommitPatch(r) \/ CommitDelete(r),
         NEW t \in tasks', NEW q \in Req, LastWriter(q, t, "assignee")', pc'[q] # "refresh"
  PROVE  /\ LastWriter(q, t, "assignee") /\ pc'[q] = pc[q] /\ t \in tasks
         /\ row'[t]["assignee"] = row[t]["assignee"] /\ notified'[t] = notified[t]
<1>0. /\ row \in [Task -> Row] /\ tasks \subseteq Task /\ "assignee" \in Column
      /\ req[r].task \in Task /\ notified \in [Task -> SUBSET Value]
  BY DEF TypeOK, Request, Column
<1>1. ~ (t = req[r].task /\ "assignee" \in Written(req[r]))
  <2> SUFFICES ASSUME t = req[r].task, "assignee" \in Written(req[r]) PROVE FALSE
    OBVIOUS
  <2>1. q = r
    BY WritersAfterCommit
  <2>2. pc'[r] = "refresh"
    BY DEF CommitCreate, CommitPatch, CommitDelete, Goto, TypeOK, Written
  <2> QED BY <2>1, <2>2
<1>2. LastWriter(q, t, "assignee") /\ ~ Logged(r)
  BY <1>1, WritersAfterCommit
<1>3. q # r /\ pc'[q] = pc[q]
  BY <1>2 DEF LastWriter, Writers, Commits
<1>4. CASE CommitCreate(r)
  <2>1. t # req[r].task
    BY <1>0, <1>1, <1>4 DEF CommitCreate, Written
  <2> QED BY <1>0, <1>2, <1>3, <1>4, <2>1 DEF CommitCreate, NewlyAssigned
<1>5. CASE CommitPatch(r)
  <2>1. /\ t \in tasks /\ row' = [row EXCEPT ![req[r].task] = Write(row[req[r].task], req[r])]
        /\ NewlyAssigned(req[r].task, Changed(req[r])) /\ req[r].kind = "patch"
    BY <1>5 DEF CommitPatch
  <2>2. CASE t = req[r].task
    <3>1. "assignee" \notin Changed(req[r])
      BY <1>1, <2>1, <2>2 DEF Written
    <3> QED BY <1>0, <1>2, <1>3, <2>1, <2>2, <3>1 DEF Write, NewlyAssigned
  <2>3. CASE t # req[r].task
    BY <1>0, <1>2, <1>3, <2>1, <2>3 DEF NewlyAssigned
  <2> QED BY <2>2, <2>3
<1>6. CASE CommitDelete(r)
  BY <1>2, <1>3, <1>6 DEF CommitDelete
<1> QED BY <1>4, <1>5, <1>6

\* db.refresh comes after the commit, so the last writer sees its own value.
LEMMA FreshKept ==
  ASSUME TypeOK, Bookkeeping, Creations, FreshAssignee, [Next]_vars
  PROVE  FreshAssignee'
<1>1. ASSUME NEW r \in Req, Begin(r) PROVE FreshAssignee'
  <2>1. Started(r)
    BY <1>1, StartSteps
  <2>2. /\ UNCHANGED <<tasks, row, fresh>> /\ ~ Logged(r)
        /\ \A o \in Req \ {r} : pc'[o] = pc[o]
    BY <2>1 DEF Started, Bookkeeping, AfterCommit
  <2> SUFFICES ASSUME NEW t \in tasks, NEW q \in Req, LastWriter(q, t, "assignee")',
                      pc'[q] \in {"publish", "notify"}
               PROVE  fresh[q] = row[t]["assignee"]
    BY <2>2 DEF FreshAssignee
  <2>3. LastWriter(q, t, "assignee")
    BY <2>1, WritersAfterStart
  <2>4. q # r
    BY <2>2, <2>3 DEF LastWriter, Writers
  <2> QED BY <2>2, <2>3, <2>4 DEF FreshAssignee
<1>2. ASSUME NEW r \in Req, CommitCreate(r) \/ CommitPatch(r) \/ CommitDelete(r)
      PROVE  FreshAssignee'
  <2>1. Commits(r) /\ fresh' = fresh
    BY <1>2, CommitSteps DEF Commits
  <2> SUFFICES ASSUME NEW t \in tasks', NEW q \in Req, LastWriter(q, t, "assignee")',
                      pc'[q] \in {"publish", "notify"}
               PROVE  fresh[q] = row'[t]["assignee"]
    BY <2>1 DEF FreshAssignee
  <2> QED BY <1>2, <2>1, OtherAssignments DEF FreshAssignee
<1>3. ASSUME NEW r \in Req, Refresh(r) PROVE FreshAssignee'
  <2>1. UNCHANGED <<tasks, row, req, at>>
    BY <1>3 DEF Refresh, database
  <2> SUFFICES ASSUME NEW t \in tasks, NEW q \in Req, LastWriter(q, t, "assignee"),
                      pc'[q] \in {"publish", "notify"}
               PROVE  fresh'[q] = row[t]["assignee"]
    BY <2>1, WritersAfterQuiet DEF FreshAssignee
  <2>2. t = req[q].task
    BY DEF LastWriter, Writers
  <2> QED BY <1>3, <2>2 DEF Refresh, Goto, FreshAssignee, TypeOK
<1>4. ASSUME NEW r \in Req, CommitNothing(r) \/ Rollback(r) \/ Fail(r) \/ Publish(r) \/ Notify(r)
      PROVE  FreshAssignee'
  <2>1. UNCHANGED <<tasks, row, req, at, fresh>>
    BY <1>4 DEF CommitNothing, Rollback, Fail, Publish, Notify, database
  <2>2. \A q \in Req : pc'[q] \in {"publish", "notify"} => pc[q] \in {"publish", "notify"}
    BY <1>4 DEF CommitNothing, Rollback, Fail, Publish, Notify, Goto, TypeOK
  <2> QED BY <2>1, <2>2, WritersAfterQuiet DEF FreshAssignee
<1>5. CASE UNCHANGED vars
  BY <1>5, WritersAfterQuiet DEF FreshAssignee, vars, database
<1> QED BY <1>1, <1>2, <1>3, <1>4, <1>5 DEF Next, Step

\* Only Publish decides to notify.
LEMMA RecipientsKept ==
  ASSUME TypeOK, HasRecipient, [Next]_vars
  PROVE  HasRecipient'
<1>1. ASSUME NEW r \in Req, pc'[r] # "notify", \A q \in Req \ {r} : pc'[q] = pc[q] /\ req'[q] = req[q] /\ fresh'[q] = fresh[q]
      PROVE  HasRecipient'
  BY <1>1 DEF HasRecipient, Recipient
<1>2. ASSUME NEW r \in Req, Begin(r) PROVE HasRecipient'
  BY <1>1, <1>2, StartSteps DEF Started
<1>3. ASSUME NEW r \in Req, CommitCreate(r) \/ CommitPatch(r) \/ CommitDelete(r)
      PROVE  HasRecipient'
  BY <1>1, <1>3, CommitSteps DEF Commits
<1>4. ASSUME NEW r \in Req, CommitNothing(r) \/ Rollback(r) \/ Fail(r) \/ Notify(r) \/ Refresh(r)
      PROVE  HasRecipient'
  BY <1>1, <1>4 DEF CommitNothing, Rollback, Fail, Refresh, Notify, Goto, TypeOK
<1>5. ASSUME NEW r \in Req, Publish(r) PROVE HasRecipient'
  BY <1>5 DEF Publish, Goto, TypeOK, HasRecipient, Recipient
<1>6. CASE UNCHANGED vars
  BY <1>6 DEF vars, HasRecipient, Recipient
<1> QED BY <1>2, <1>3, <1>4, <1>5, <1>6 DEF Next, Step

\* The request that made the last assignment notifies its assignee.
LEMMA NotifiedKept ==
  ASSUME TypeOK, Bookkeeping, Creations, LogExplainsRow, FreshAssignee, HasRecipient,
         AssigneeNotified, [Next]_vars
  PROVE  AssigneeNotified'
<1>1. ASSUME NEW r \in Req, Begin(r) PROVE AssigneeNotified'
  <2>1. Started(r)
    BY <1>1, StartSteps
  <2>2. /\ UNCHANGED <<tasks, row, notified>> /\ ~ Logged(r)
        /\ \A o \in Req \ {r} : pc'[o] = pc[o] /\ req'[o] = req[o]
    BY <2>1 DEF Started, Bookkeeping, AfterCommit
  <2> SUFFICES ASSUME NEW t \in tasks, NEW q \in Req, LastWriter(q, t, "assignee")',
                      row[t]["assignee"] # NoUser, pc'[q] = "done"
               PROVE  row[t]["assignee"] \in notified[t] \/ row[t]["assignee"] = req'[q].actor
    BY <2>2 DEF AssigneeNotified
  <2>3. LastWriter(q, t, "assignee")
    BY <2>1, WritersAfterStart
  <2>4. q # r
    BY <2>2, <2>3 DEF LastWriter, Writers
  <2> QED BY <2>2, <2>3, <2>4 DEF AssigneeNotified
<1>2. ASSUME NEW r \in Req, CommitCreate(r) \/ CommitPatch(r) \/ CommitDelete(r)
      PROVE  AssigneeNotified'
  <2>1. Commits(r) /\ req' = req
    BY <1>2, CommitSteps DEF Commits
  <2> SUFFICES ASSUME NEW t \in tasks', NEW q \in Req, LastWriter(q, t, "assignee")',
                      row'[t]["assignee"] # NoUser, pc'[q] = "done"
               PROVE  row'[t]["assignee"] \in notified'[t] \/ row'[t]["assignee"] = req[q].actor
    BY <2>1 DEF AssigneeNotified
  <2>2. /\ LastWriter(q, t, "assignee") /\ pc'[q] = pc[q] /\ t \in tasks
        /\ row'[t]["assignee"] = row[t]["assignee"] /\ notified'[t] = notified[t]
    BY <1>2, <2>1, OtherAssignments
  <2> QED BY <2>2 DEF AssigneeNotified
<1>3. ASSUME NEW r \in Req, Quiet(r), notified \in [Task -> SUBSET Value],
             \A t \in tasks : notified[t] \subseteq notified'[t],
             \A t \in tasks : LastWriter(r, t, "assignee") /\ row[t]["assignee"] # NoUser /\ pc'[r] = "done"
               => row[t]["assignee"] \in notified'[t] \/ row[t]["assignee"] = req[r].actor
      PROVE  AssigneeNotified'
  <2>1. UNCHANGED <<tasks, row, req, at>> /\ \A o \in Req \ {r} : pc'[o] = pc[o]
    BY <1>3 DEF Quiet
  <2> SUFFICES ASSUME NEW t \in tasks, NEW q \in Req, LastWriter(q, t, "assignee"),
                      row[t]["assignee"] # NoUser, pc'[q] = "done"
               PROVE  row[t]["assignee"] \in notified'[t] \/ row[t]["assignee"] = req[q].actor
    BY <2>1, WritersAfterQuiet DEF AssigneeNotified
  <2> QED BY <1>3, <2>1 DEF AssigneeNotified
<1>4. ASSUME NEW r \in Req, CommitNothing(r) \/ Rollback(r) \/ Fail(r) PROVE AssigneeNotified'
  <2>1. notified' = notified /\ (pc'[r] = "done" => ~ Logged(r))
    BY <1>4 DEF CommitNothing, Rollback, Fail, Goto, TypeOK, Bookkeeping, AfterCommit
  <2>2. \A t \in tasks : ~ (LastWriter(r, t, "assignee") /\ pc'[r] = "done")
    BY <2>1 DEF LastWriter, Writers
  <2> QED BY <1>3, <1>4, <2>1, <2>2, QuietSteps DEF TypeOK
<1>5. ASSUME NEW r \in Req, Refresh(r) PROVE AssigneeNotified'
  <2>1. notified' = notified /\ (pc'[r] = "done" => req[r].task \notin tasks)
    BY <1>5 DEF Refresh, Goto, TypeOK
  <2>2. \A t \in tasks : ~ (LastWriter(r, t, "assignee") /\ pc'[r] = "done")
    BY <2>1 DEF LastWriter, Writers
  <2> QED BY <1>3, <1>5, <2>1, <2>2, QuietSteps DEF TypeOK
<1>6. ASSUME NEW r \in Req, Publish(r) PROVE AssigneeNotified'
  <2>1. notified' = notified /\ pc[r] = "publish" /\ (pc'[r] = "done" => Recipient(r) = NoUser)
    BY <1>6 DEF Publish, Goto, TypeOK
  <2>2. ASSUME NEW t \in tasks, LastWriter(r, t, "assignee"), row[t]["assignee"] # NoUser, pc'[r] = "done"
        PROVE  row[t]["assignee"] = req[r].actor
    BY <2>1, <2>2, RecipientIsAssignee
  <2> QED BY <1>3, <1>6, <2>1, <2>2, QuietSteps DEF TypeOK
<1>7. ASSUME NEW r \in Req, Notify(r) PROVE AssigneeNotified'
  <2>1. /\ pc[r] = "notify" /\ Recipient(r) # NoUser /\ req[r].task \in Task
        /\ notified \in [Task -> SUBSET Value]
    BY <1>7 DEF Notify, HasRecipient, TypeOK, Request
  <2>2. notified' = IF req[r].task \in tasks
                      THEN [notified EXCEPT ![req[r].task] = @ \cup {Recipient(r)}] ELSE notified
    BY <1>7 DEF Notify
  <2>3. \A t \in tasks : notified[t] \subseteq notified'[t]
    BY <2>1, <2>2 DEF TypeOK
  <2>4. ASSUME NEW t \in tasks, LastWriter(r, t, "assignee"), row[t]["assignee"] # NoUser
        PROVE  row[t]["assignee"] \in notified'[t]
    <3>1. t = req[r].task /\ Recipient(r) = row[t]["assignee"]
      BY <2>1, <2>4, RecipientIsAssignee
    <3> QED BY <2>1, <2>2, <3>1
  <2> QED BY <1>3, <1>7, <2>1, <2>3, <2>4, QuietSteps
<1>8. CASE UNCHANGED vars
  BY <1>8, WritersAfterQuiet DEF AssigneeNotified, vars, database
<1> QED BY <1>1, <1>2, <1>4, <1>5, <1>6, <1>7, <1>8 DEF Next, Step

-----------------------------------------------------------------------------
(* Events.                                                                 *)

\* A request that cannot refresh leaves the event to the deletion.
LEMMA AnnouncedKept ==
  ASSUME TypeOK, Bookkeeping, Creations, GoneAnnounced, ChangesAnnounced, [Next]_vars
  PROVE  GoneAnnounced' /\ ChangesAnnounced'
<1>0. unannounced \subseteq Req /\ \A q \in unannounced : Logged(q)
  BY DEF TypeOK, Bookkeeping
<1>1. ASSUME NEW r \in Req, Begin(r) PROVE GoneAnnounced' /\ ChangesAnnounced'
  <2>1. Started(r) /\ ~ Logged(r)
    BY <1>1, StartSteps DEF Started, Bookkeeping, AfterCommit
  <2>2. /\ UNCHANGED <<tasks, unannounced>>
        /\ \A q \in unannounced : pc'[q] = pc[q] /\ req'[q] = req[q]
    BY <1>0, <2>1 DEF Started
  <2> QED BY <2>2 DEF GoneAnnounced, ChangesAnnounced
<1>2. ASSUME NEW r \in Req, CommitCreate(r) \/ CommitPatch(r) \/ CommitDelete(r)
      PROVE  GoneAnnounced' /\ ChangesAnnounced'
  <2>1. Commits(r) /\ ~ Logged(r)
    BY <1>2, CommitSteps DEF Commits, Bookkeeping, AfterCommit
  <2>2. /\ req' = req /\ unannounced' = unannounced \cup {r} /\ r \notin unannounced
        /\ pc'[r] \in {"refresh", "publish"}
        /\ \A q \in unannounced : pc'[q] = pc[q]
    BY <1>0, <2>1 DEF Commits
  <2>3. ChangesAnnounced'
    BY <2>2 DEF ChangesAnnounced
  <2>4. CASE CommitDelete(r)
    <3>1. tasks' = tasks \ {req[r].task} /\ pc'[r] = "publish" /\ req[r].kind = "delete"
      BY <2>4 DEF CommitDelete, Goto, TypeOK
    <3> QED BY <2>2, <2>3, <3>1 DEF GoneAnnounced
  <2>5. CASE CommitCreate(r) \/ CommitPatch(r)
    <3>1. tasks \subseteq tasks' /\ req[r].task \in tasks'
      BY <2>5 DEF CommitCreate, CommitPatch, CanWrite
    <3> QED BY <2>2, <2>3, <3>1 DEF GoneAnnounced
  <2> QED BY <1>2, <2>4, <2>5
<1>3. ASSUME NEW r \in Req, CommitNothing(r) \/ Rollback(r) \/ Notify(r) \/ Fail(r)
      PROVE  GoneAnnounced' /\ ChangesAnnounced'
  <2>1. /\ UNCHANGED <<tasks, req, unannounced>>
        /\ \A q \in Req : pc'[q] = pc[q] \/ pc'[q] = "failed" \/ pc[q] \in {"ready", "notify"}
    BY <1>3 DEF CommitNothing, Rollback, Notify, Fail, Goto, TypeOK, database
  <2> QED BY <1>0, <2>1 DEF GoneAnnounced, ChangesAnnounced
<1>4. ASSUME NEW r \in Req, Refresh(r) PROVE GoneAnnounced' /\ ChangesAnnounced'
  <2>1. /\ UNCHANGED <<tasks, req, unannounced>> /\ pc[r] = "refresh"
        /\ pc' = [pc EXCEPT ![r] = IF req[r].task \in tasks THEN "publish" ELSE "done"]
    BY <1>4 DEF Refresh, Goto, database
  <2>2. \A q \in Req : pc[q] \in {"publish", "failed"} => pc'[q] = pc[q]
    BY <2>1 DEF TypeOK
  <2>3. GoneAnnounced'
    BY <1>0, <2>1, <2>2 DEF GoneAnnounced
  <2>4. ASSUME NEW x \in unannounced
        PROVE  \E q \in unannounced : req[q].task = req[x].task /\ pc'[q] \in {"refresh", "publish", "failed"}
    <3>1. PICK q \in unannounced : req[q].task = req[x].task /\ pc[q] \in {"refresh", "publish", "failed"}
      BY DEF ChangesAnnounced
    <3>2. CASE q # r
      BY <1>0, <2>1, <3>1, <3>2 DEF TypeOK
    <3>3. CASE q = r /\ req[r].task \in tasks
      BY <1>0, <2>1, <3>1, <3>3 DEF TypeOK
    <3>4. CASE q = r /\ req[r].task \notin tasks
      <4>1. PICK w \in unannounced : req[w].task = req[r].task /\ pc[w] \in {"publish", "failed"}
        BY <3>4 DEF GoneAnnounced
      <4> QED BY <1>0, <2>2, <3>1, <3>4, <4>1
    <3> QED BY <3>2, <3>3, <3>4
  <2> QED BY <2>1, <2>3, <2>4 DEF ChangesAnnounced
<1>5. ASSUME NEW r \in Req, Publish(r) PROVE GoneAnnounced' /\ ChangesAnnounced'
  <2>1. /\ UNCHANGED <<tasks, req>>
        /\ unannounced' = {q \in unannounced : req[q].task # req[r].task}
        /\ \A q \in Req \ {r} : pc'[q] = pc[q]
    BY <1>5 DEF Publish, Goto, TypeOK, database
  <2>2. \A q \in unannounced' : pc'[q] = pc[q]
    BY <1>0, <2>1
  <2>3. GoneAnnounced'
    BY <2>1, <2>2 DEF GoneAnnounced
  <2>4. ChangesAnnounced'
    BY <2>1, <2>2 DEF ChangesAnnounced
  <2> QED BY <2>3, <2>4
<1>6. CASE UNCHANGED vars
  BY <1>6 DEF GoneAnnounced, ChangesAnnounced, vars, database
<1> QED BY <1>1, <1>2, <1>3, <1>4, <1>5, <1>6 DEF Next, Step

-----------------------------------------------------------------------------
(* The theorems.                                                           *)

\* The initial state satisfies the invariant.
LEMMA InitOK == Init => TypeOK /\ IInv
<1> SUFFICES ASSUME Init PROVE TypeOK /\ IInv
  OBVIOUS
<1>1. Column = {"status", "assignee"} /\ NoUser \in Value /\ FirstStatus \in Value
  BY FirstStatusAssumption DEF Column, Value
<1>2. EmptyRow \in Row
  BY <1>1 DEF EmptyRow, Row
<1>3. NoRequest \in Request
  BY <1>2, NonEmptyAssumption DEF NoRequest, Request, Kinds
<1>4. TypeOK
  BY <1>1, <1>2, <1>3, ExistingAssumption DEF Init, TypeOK, PCs
<1>5. \A r \in Req : /\ at[r] = 0 /\ ~ Logged(r) /\ pc[r] = "idle"
                     /\ req[r].kind = "none" /\ req[r].base = 0
  BY DEF Init, Logged, NoRequest
<1>6. Bookkeeping /\ Distinct /\ Creations /\ ReadsHold /\ PatchTakesEffect /\ Positions
  BY <1>5 DEF Init, Bookkeeping, Distinct, Creations, ReadsHold, PatchTakesEffect, Positions, AfterCommit
<1>7. \A t, c : Writers(t, c) = {}
  BY <1>5 DEF Writers
<1>8. LogExplainsRow /\ FreshAssignee /\ HasRecipient /\ AssigneeNotified
  BY <1>5, <1>7, ExistingAssumption
     DEF Init, LogExplainsRow, LastWriter, FreshAssignee, HasRecipient, AssigneeNotified
<1>9. GoneAnnounced /\ ChangesAnnounced
  BY DEF Init, GoneAnnounced, ChangesAnnounced
<1>10. LabelsOfTasks /\ LabelsMerge
  <2>1. \A t, l : Relabelers(t, l) = {}
    BY <1>5 DEF Relabelers
  <2>2. \A t \in Task : labels[t] = {}
    BY DEF Init
  <2>3. tasks \subseteq Task
    BY ExistingAssumption DEF Init
  <2> QED BY <2>1, <2>2, <2>3 DEF LabelsOfTasks, LabelsMerge, LastRelabeler
<1> QED BY <1>4, <1>6, <1>8, <1>9, <1>10 DEF IInv

\* Every step keeps the invariant.
LEMMA InvariantKept == TypeOK /\ IInv /\ [Next]_vars => TypeOK' /\ IInv'
<1> SUFFICES ASSUME TypeOK, IInv, [Next]_vars PROVE TypeOK' /\ IInv'
  OBVIOUS
<1>1. TypeOK'
  BY StepsTyped DEF IInv
<1>2. Bookkeeping' /\ Distinct' /\ Creations'
  BY BookkeepingKept, DistinctKept, CreationsKept DEF IInv
<1>3. LogExplainsRow' /\ ReadsHold' /\ PatchTakesEffect' /\ Positions'
  BY LogKept, ReadsKept, EffectKept, PositionsKept DEF IInv
<1>4. FreshAssignee' /\ HasRecipient' /\ AssigneeNotified'
  BY FreshKept, RecipientsKept, NotifiedKept DEF IInv
<1>5. GoneAnnounced' /\ ChangesAnnounced'
  BY AnnouncedKept DEF IInv
<1>6. LabelsOfTasks' /\ LabelsMerge'
  BY LabelsOfTasksKept, LabelsMergeKept DEF IInv
<1> QED BY <1>1, <1>2, <1>3, <1>4, <1>5, <1>6 DEF IInv

\* The invariant holds in every reachable state.
LEMMA Invariant == Spec => [](TypeOK /\ IInv)
BY InitOK, InvariantKept, PTL DEF Spec

\* The variables of Tasks always have their types.
THEOREM TypeCorrect == Spec => []TypeOK
BY Invariant, PTL

\* However patches interleave, the log written with them explains every row.
THEOREM LogAlwaysExplainsRow == Spec => []LogExplainsRow
<1>1. TypeOK /\ IInv => LogExplainsRow
  BY DEF IInv
<1> QED BY <1>1, Invariant, PTL

\* However edits of labels race, they merge label by label.
THEOREM LabelEditsMerge == Spec => []LabelsMerge
<1>1. TypeOK /\ IInv => LabelsMerge
  BY DEF IInv
<1> QED BY <1>1, Invariant, PTL

\* A patch that met no other one is carried out in full.
THEOREM LonePatchTakesEffect == Spec => []PatchTakesEffect
<1>1. TypeOK /\ IInv => PatchTakesEffect
  BY DEF IInv
<1> QED BY <1>1, Invariant, PTL

\* The assignee that wins a race of assignments is notified.
THEOREM AssigneeAlwaysNotified == Spec => []AssigneeNotified
<1>1. TypeOK /\ IInv => AssigneeNotified
  BY DEF IInv
<1> QED BY <1>1, Invariant, PTL

\* No committed change stays without an event unless its request failed.
THEOREM ChangesAlwaysAnnounced == Spec => []ChangesAnnounced
<1>1. TypeOK /\ IInv => ChangesAnnounced
  BY DEF IInv
<1> QED BY <1>1, Invariant, PTL

\* New tasks are below everything their MAX query could see.
THEOREM NewTasksAtEnd == Spec => []NewTaskAtEnd
<1>1. TypeOK /\ IInv => NewTaskAtEnd
  <2> SUFFICES ASSUME TypeOK, IInv, NEW r \in Req, NEW u \in tasks, Logged(r),
                      req[r].kind = "create", req[r].task \in tasks, req[r].task # u,
                      Writers(req[r].task, "status") = {r},
                      row[u]["status"] = row[req[r].task]["status"],
                      position[u] >= position[req[r].task]
               PROVE  \E q \in Writers(u, "status") : at[q] > req[r].base
    BY DEF NewTaskAtEnd
  <2>1. LastWriter(r, req[r].task, "status") /\ "status" \in Column
    BY DEF LastWriter, Column, TypeOK
  <2>2. row[req[r].task]["status"] = req[r].patch["status"]
    BY <2>1 DEF IInv, LogExplainsRow
  <2>3. position[req[r].task] = req[r].spot
    BY DEF IInv, Creations
  <2> QED BY <2>2, <2>3 DEF IInv, Positions
<1> QED BY <1>1, Invariant, PTL
=============================================================================
