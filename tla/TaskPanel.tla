------------------------------ MODULE TaskPanel ------------------------------
(***************************************************************************)
(* The detail panel of one task in one tab (TaskDetailPanel.tsx): what it  *)
(* caches of the task and of its activity log, the fields that write       *)
(* themselves back when they lose the focus, and the label buttons that    *)
(* send a whole set of labels computed from the cache.  The queries of     *)
(* comments and attachments are fetched whenever the log is, and never     *)
(* miss more than it does: they are left out, as are status, priority and  *)
(* due date, which are sent as they are chosen.  useQuery, useMutation and *)
(* uncontrolled inputs are external (TanStack Query 5, React 19); what two *)
(* requests can do to each other on the server is in module Tasks.         *)
(***************************************************************************)
EXTENDS Naturals, FiniteSets

CONSTANTS
  Label,       \* labels of the project
  Text,        \* what can stand in a field
  Blank, trim, \* the empty text; each text without the spaces around it
  first,       \* the title at first
  Req,         \* requests of the panel that can be under way
  None,        \* no data, no text, no request, a task that is deleted, NULL
  MaxCommits,  \* bound: entries of the activity log
  MaxFailures  \* bound: fetches and requests that fail

Field == {"title", "description"}
Query == {"task", "activity"}

TaskRead == [labels : SUBSET Label, title : Text, description : Text \cup {None}]
Patches == {"labels"} \cup Field
Click == [kind : {"labels"}, value : SUBSET Label, label : Label, on : BOOLEAN]
Request == Click \cup [kind : Field, value : Text]
             \cup [kind : Patches \cup {"post", "delete"}]  \* a post, a deletion, what is committed

ASSUME TextAssumption ==
  /\ Blank \in Text /\ first \in Text \ {Blank}
  /\ trim \in [Text -> Text] /\ trim[Blank] = Blank
  /\ \A text \in Text : trim[trim[text]] = trim[text]
ASSUME NoneAssumption == None \notin TaskRead \cup Request \cup Text \cup Nat

VARIABLES
  row,       \* the task, None once it is deleted
  log,       \* how many entries its activity log has
  wire,      \* comment_created and attachment_* events on their way to the tab
  open,      \* is the panel mounted
  shown,     \* the texts in its title and description fields
  fetch, ans, data, \* each query: its request, the answer under way, the cache
  invalid,   \* the queries that were invalidated while the panel was closed
  missed,    \* the queries whose rows changed and nobody tells the tab
  stage, req, \* each request of the panel
  unseen,    \* history: the labels each click on its way knows nothing of
  clicked,   \* history: the labels as the last click on each has left them
  lost,      \* history: labels that a set has since been written over
  outdated,  \* history: fields that were overtaken, refused or never sent
  failures

tables  == <<row, log, wire>>
query   == <<fetch, ans, data, invalid, missed>>
fields  == <<shown, outdated>>
request == <<stage, req>>
history == <<unseen, clicked, lost>>
vars    == <<tables, open, query, fields, request, history, failures>>

Table(q) == IF q = "task" THEN row ELSE log

Init ==
  /\ row = [labels |-> {}, title |-> first, description |-> None]
  /\ log = 0 /\ wire = 0
  /\ open = FALSE /\ shown = [f \in Field |-> None] /\ outdated = {}
  /\ fetch = [q \in Query |-> "idle"]
  /\ ans = [q \in Query |-> None] /\ data = [q \in Query |-> None]
  /\ invalid = {} /\ missed = {}
  /\ stage = [r \in Req |-> "idle"] /\ req = [r \in Req |-> None]
  /\ unseen = [r \in Req |-> {}] /\ clicked = {} /\ lost = {}
  /\ failures = 0

MayFail == failures < MaxFailures /\ failures' = failures + 1

Sent(kinds) == {r \in Req : stage[r] = "sent" /\ req[r].kind \in kinds}
UnderWay(kinds) == {r \in Req : stage[r] # "idle" /\ req[r].kind \in kinds}

Room == log + Cardinality(Sent(Patches \cup {"post"})) < MaxCommits

-----------------------------------------------------------------------------
(* The queries.                                                            *)

\* Nobody will tell the tab of a change of these, unless the server has yet to
\* read them.
Unnoticed(qs) == missed' = missed \cup {q \in qs : fetch[q] # "asked"}

Fetch(qs) ==
  /\ fetch' = [q \in Query |-> IF q \in qs THEN "asked" ELSE fetch[q]]
  /\ ans' = [q \in Query |-> IF q \in qs THEN None ELSE ans[q]]

\* invalidateQueries.  Behind an open panel they are fetched again, a request
\* under way is dropped for it unless it is the first one; behind a closed one
\* they are marked, and a request under way goes on and removes the mark.
Invalidate(qs) ==
  LET again == {q \in qs : open /\ (fetch[q] = "idle" \/ data[q] # None)} IN
  /\ Fetch(again)
  /\ invalid' = IF open THEN invalid ELSE invalid \cup qs
  /\ missed' = (missed \ again) \cup {q \in qs \ again : fetch[q] = "answered"}
  /\ UNCHANGED data

Read(q) ==
  /\ fetch[q] = "asked" /\ row # None
  /\ fetch' = [fetch EXCEPT ![q] = "answered"]
  /\ ans' = [ans EXCEPT ![q] = Table(q)]
  /\ UNCHANGED <<tables, open, data, invalid, missed, fields, request, history, failures>>

\* task.description ?? ''.
Input(value) == IF value = None THEN Blank ELSE value

\* The fields are rendered with a task: React keeps the text an uncontrolled
\* input was rendered with, whatever defaultValue becomes.
Mount(task) ==
  /\ shown' = [f \in Field |-> Input(task[f])]
  /\ outdated' = {f \in Field : row # None /\ row[f] # task[f]}

Receive(q) ==
  /\ fetch[q] = "answered"
  /\ fetch' = [fetch EXCEPT ![q] = "idle"]
  /\ data' = [data EXCEPT ![q] = ans[q]] /\ ans' = [ans EXCEPT ![q] = None]
  /\ invalid' = invalid \ {q}
  /\ IF q = "task" /\ open /\ data[q] = None THEN Mount(ans[q]) ELSE UNCHANGED fields
  /\ UNCHANGED <<tables, open, missed, request, history, failures>>

\* The request and its repetition (retry: 1) fail, with a 404 if the task is gone.
FetchFails(q) ==
  /\ fetch[q] # "idle"
  /\ MayFail \/ (row = None /\ UNCHANGED failures)
  /\ fetch' = [fetch EXCEPT ![q] = "idle"] /\ ans' = [ans EXCEPT ![q] = None]
  /\ missed' = missed \cup {q}
  /\ UNCHANGED <<tables, open, data, invalid, fields, request, history>>

\* The window gets the focus after more than staleTime (of a task that is gone
\* nothing comes).
Focus(q) ==
  /\ open /\ fetch[q] = "idle" /\ row # None
  /\ Fetch({q}) /\ missed' = missed \ {q}
  /\ UNCHANGED <<tables, open, data, invalid, fields, request, history, failures>>

-----------------------------------------------------------------------------
(* The panel comes and goes.                                               *)

\* A task is clicked.  What is cached is rendered at once; the queries without
\* data, marked, or older than staleTime are fetched.
OpenPanel ==
  /\ ~ open /\ open' = TRUE
  /\ \E old \in {{}, Query} :
       LET due == {q \in Query : fetch[q] = "idle" /\ (data[q] = None \/ q \in invalid \cup old)} IN
       Fetch(due) /\ missed' = missed \ due
  /\ invalid' = {}
  /\ IF data["task"] = None THEN UNCHANGED fields ELSE Mount(data["task"])
  /\ UNCHANGED <<tables, data, request, history, failures>>

Close ==
  /\ open' = FALSE
  /\ shown' = [f \in Field |-> None] /\ outdated' = {}

ClosePanel ==
  /\ open /\ Close
  /\ UNCHANGED <<tables, query, request, history, failures>>

-----------------------------------------------------------------------------
(* Everybody else.                                                         *)

\* What a click on l that put the label on the task, or took it off, leaves for
\* the record: it may have changed `others` as well, which the clicks still on
\* their way, `later`, do not know.
Written(l, on, others, later) ==
  /\ clicked' = IF on THEN clicked \cup {l} ELSE clicked \ {l}
  /\ lost' = (lost \cup others) \ {l}
  /\ unseen' = [r \in Req |-> IF r \in later THEN unseen[r] \cup others \cup {l} ELSE {}]

Forgotten ==
  /\ clicked' = {} /\ lost' = {}
  /\ unseen' = [r \in Req |-> {}]

\* Somebody changes the labels, the title or the description.  The event of it
\* (task_updated) makes the page fetch its list of tasks, and none of these.
RelabelByOthers(l) ==
  /\ row # None /\ Room
  /\ row' = [row EXCEPT !.labels = IF l \in @ THEN @ \ {l} ELSE @ \cup {l}]
  /\ Written(l, l \notin row.labels, {}, Sent({"labels"}))
  /\ log' = log + 1 /\ Unnoticed(Query)
  /\ UNCHANGED <<wire, open, fetch, ans, data, invalid, fields, request, failures>>

EditByOthers(f, text) ==
  /\ row # None /\ Room /\ row[f] # text
  /\ f = "title" => text # Blank
  /\ row' = [row EXCEPT ![f] = text]
  /\ outdated' = IF shown[f] = None THEN outdated ELSE outdated \cup {f}
  /\ log' = log + 1 /\ Unnoticed(Query)
  /\ UNCHANGED <<wire, open, fetch, ans, data, invalid, shown, request, history, failures>>

\* A comment or an attachment is added, or an attachment removed.
Posted == log' = log + 1 /\ wire' = wire + 1

PostByOthers ==
  /\ row # None /\ Room
  /\ Posted
  /\ UNCHANGED <<row, open, query, fields, request, history, failures>>

\* The panel of a deleted task stays open.
DeleteByOthers ==
  /\ row # None /\ row' = None
  /\ missed' = Query /\ outdated' = {} /\ Forgotten
  /\ UNCHANGED <<log, wire, open, fetch, ans, data, invalid, shown, request, failures>>

\* Wrong version: an event that finds the panel closed is ignored.
DeliverIfOpen ==
  /\ wire > 0 /\ wire' = wire - 1
  /\ IF open THEN Invalidate({"activity"}) ELSE UNCHANGED query
  /\ UNCHANGED <<row, log, open, fields, request, history, failures>>

\* The event arrives at ProjectPage.
Deliver ==
  /\ wire > 0 /\ wire' = wire - 1
  /\ Invalidate({"activity"})
  /\ UNCHANGED <<row, log, open, fields, request, history, failures>>

\* It is not published, or the tab's socket is down.
Undelivered ==
  /\ wire > 0 /\ wire' = wire - 1
  /\ Unnoticed({"activity"})
  /\ UNCHANGED <<row, log, open, fetch, ans, data, invalid, fields, request, history, failures>>

-----------------------------------------------------------------------------
(* The panel's own requests.                                               *)

Send(r, what) ==
  /\ stage[r] = "idle" /\ Room
  /\ stage' = [stage EXCEPT ![r] = "sent"] /\ req' = [req EXCEPT ![r] = what]

Toggled(labels, l) == IF l \in labels THEN labels \ {l} ELSE labels \cup {l}

\* The cache is what the last answer said, and no reason is known to ask again.
UpToDate == fetch["task"] = "idle" /\ "task" \notin missed /\ UnderWay(Patches) = {}

Differ(a, b) == (a \ b) \cup (b \ a)

\* toggleLabel.
ToggleLabel(r, l) ==
  LET seen == data["task"].labels IN
  /\ open /\ data["task"] # None
  /\ Send(r, [kind |-> "labels", value |-> Toggled(seen, l), label |-> l, on |-> l \notin seen])
  /\ unseen' = [unseen EXCEPT ![r] = IF UpToDate \/ row = None THEN {} ELSE Differ(row.labels, seen)]
  /\ UNCHANGED <<tables, open, query, fields, clicked, lost, failures>>

\* The title loses the focus with a text in it, the one it had or another one.
\* It is sent, trimmed, if it is neither blank nor the cached one.
LeaveTitle(r, text) ==
  /\ shown["title"] # None
  /\ trim[text] # Blank /\ text # data["task"].title
  /\ Send(r, [kind |-> "title", value |-> trim[text]])
  /\ shown' = [shown EXCEPT !["title"] = text]
  /\ UNCHANGED <<tables, open, query, outdated, history, failures>>

\* Wrong version: nothing is sent while another change is under way.
LeaveIfPending(text) ==
  /\ shown["title"] # None
  /\ trim[text] = Blank \/ text = data["task"].title \/ UnderWay(Patches) # {}
  /\ shown' = [shown EXCEPT !["title"] = text]
  /\ outdated' = IF row # None /\ row.title # data["task"].title THEN outdated \cup {"title"} ELSE outdated
  /\ UNCHANGED <<tables, open, query, request, history, failures>>

\* It is blank, or the cached one although the table may have another.
LeaveUnsent(text) ==
  /\ shown["title"] # None
  /\ trim[text] = Blank \/ text = data["task"].title
  /\ shown' = [shown EXCEPT !["title"] = text]
  /\ outdated' = IF row # None /\ trim[text] # Blank /\ row.title # data["task"].title
                   THEN outdated \cup {"title"} ELSE outdated
  /\ UNCHANGED <<tables, open, query, request, history, failures>>

\* The description is sent always, and as it stands.
LeaveDescription(r, text) ==
  /\ shown["description"] # None
  /\ Send(r, [kind |-> "description", value |-> text])
  /\ shown' = [shown EXCEPT !["description"] = text]
  /\ UNCHANGED <<tables, open, query, outdated, history, failures>>

\* A comment is sent, a file is uploaded or an attachment removed.
Post(r) ==
  /\ open /\ data["task"] # None
  /\ Send(r, [kind |-> "post"])
  /\ UNCHANGED <<tables, open, query, fields, history, failures>>

Delete(r) ==
  /\ open
  /\ Send(r, [kind |-> "delete"])
  /\ UNCHANGED <<tables, open, query, fields, history, failures>>

\* Does a field with this text show what is stored?  Spaces around a title are
\* not stored.
Agrees(f, text, stored) ==
  IF f = "title" THEN trim[text] = trim[stored] ELSE text = Input(stored)

\* update_task: the columns that were sent; logged if one has changed.  The reply
\* makes the panel fetch the task again, but not the log.
CommitPatch(r) ==
  LET k == req[r].kind
      to == IF k = "labels" THEN [row EXCEPT !.labels = req[r].value]
                            ELSE [row EXCEPT ![k] = req[r].value] IN
  /\ row' = to
  /\ IF to = row THEN UNCHANGED <<log, missed>> ELSE log' = log + 1 /\ Unnoticed({"activity"})
  /\ IF k = "labels" THEN Written(req[r].label, req[r].on, unseen[r], Sent({k}) \ {r})
                     ELSE UNCHANGED history
  /\ outdated' = IF k = "labels" \/ shown[k] = None THEN outdated
                 ELSE IF Agrees(k, shown[k], to[k]) THEN outdated \ {k} ELSE outdated \cup {k}
  /\ UNCHANGED wire

Commit(r) ==
  /\ stage[r] = "sent" /\ row # None
  /\ stage' = [stage EXCEPT ![r] = "ok"] /\ req' = [req EXCEPT ![r] = [kind |-> @.kind]]
  /\ \/ req[r].kind \in Patches /\ CommitPatch(r)
     \/ req[r].kind = "post" /\ Posted /\ UNCHANGED <<row, missed, outdated, history>>
     \/ req[r].kind = "delete" /\ row' = None /\ missed' = Query
        /\ outdated' = {} /\ Forgotten /\ UNCHANGED <<log, wire>>
  /\ UNCHANGED <<open, fetch, ans, data, invalid, shown, failures>>

Settled(r) ==
  /\ stage' = [stage EXCEPT ![r] = "idle"] /\ req' = [req EXCEPT ![r] = None]
  /\ unseen' = [unseen EXCEPT ![r] = {}] /\ UNCHANGED <<clicked, lost>>

\* Wrong version: only the page's list is fetched again.
InvalidateBoardOnly == UNCHANGED query

\* invalidateTask, as far as the panel is concerned.
InvalidateTask == Invalidate({"task"})

\* onSuccess.
Reply(r) ==
  /\ stage[r] = "ok" /\ Settled(r)
  /\ \/ req[r].kind \in Patches /\ InvalidateTask /\ UNCHANGED <<open, fields>>
     \/ req[r].kind = "post" /\ Invalidate({"activity"}) /\ UNCHANGED <<open, fields>>
     \/ req[r].kind = "delete" /\ Close /\ UNCHANGED query
  /\ UNCHANGED <<tables, failures>>

\* The request fails before or after its commit, or the task is gone.  There is
\* no onError, and nothing is fetched again.
RequestFails(r) ==
  /\ stage[r] # "idle" /\ Settled(r)
  /\ MayFail \/ (stage[r] = "sent" /\ row = None /\ UNCHANGED failures)
  /\ IF stage[r] = "ok" /\ req[r].kind \in Patches THEN Unnoticed({"task"}) ELSE UNCHANGED missed
  /\ outdated' = outdated \cup {f \in Field : stage[r] = "sent" /\ row # None /\ req[r].kind = f /\ shown[f] # None}
  /\ UNCHANGED <<tables, open, fetch, ans, data, invalid, shown>>

-----------------------------------------------------------------------------
Others ==
  \/ \E l \in Label : RelabelByOthers(l)
  \/ \E f \in Field, text \in Text : EditByOthers(f, text)
  \/ PostByOthers \/ DeleteByOthers

User(r) ==
  \/ \E l \in Label : ToggleLabel(r, l)
  \/ \E text \in Text : LeaveTitle(r, text) \/ LeaveDescription(r, text)
  \/ Post(r) \/ Delete(r)

Answered(q) == Read(q) \/ Receive(q) \/ FetchFails(q)
Served(r) == Commit(r) \/ Reply(r) \/ RequestFails(r)

Next ==
  \/ OpenPanel \/ ClosePanel \/ Others
  \/ \E text \in Text : LeaveUnsent(text)
  \/ \E q \in Query : Answered(q) \/ Focus(q)
  \/ Deliver \/ Undelivered
  \/ \E r \in Req : User(r) \/ Served(r)

Spec == Init /\ [][Next]_vars

-----------------------------------------------------------------------------
(* Properties.                                                             *)

\* Every variable has its type, and only an open panel has fields.
TypeOK ==
  /\ row \in TaskRead \cup {None}
  /\ log \in Nat /\ wire \in Nat
  /\ open \in BOOLEAN
  /\ shown \in [Field -> Text \cup {None}]
  /\ \A f \in Field : shown[f] # None <=> open /\ data["task"] # None
  /\ fetch \in [Query -> {"idle", "asked", "answered"}]
  /\ \A q \in Query : {ans[q], data[q]} \subseteq {None} \cup IF q = "task" THEN TaskRead ELSE Nat
  /\ invalid \subseteq Query /\ (open => invalid = {}) /\ missed \subseteq Query
  /\ stage \in [Req -> {"idle", "sent", "ok"}] /\ req \in [Req -> Request \cup {None}]
  /\ unseen \in [Req -> SUBSET Label] /\ clicked \subseteq Label /\ lost \subseteq Label
  /\ outdated \subseteq Field /\ failures \in Nat

Quiet == wire = 0 /\ \A r \in Req : stage[r] = "idle"

\* An open panel at rest shows the tables, whatever was fetched while what was
\* changed, except for what nobody told the tab: edits of the task by others,
\* for which the panel has no event, lost events and lost answers.  The log goes
\* on its own way: not even the panel's own edits refresh it.
PanelShowsTables ==
  open /\ Quiet =>
    \A q \in Query \ missed : fetch[q] = "idle" => data[q] = Table(q)

\* Every label is as the last click on it left it, in this panel or elsewhere,
\* although each request carries a whole set of labels computed from a cache: but
\* for labels that a click on another one did not know, because the panel showed
\* them otherwise than they were stored and had reason to, or because they were
\* changed before its commit.  An up to date cache is no such reason.
LabelsAsClicked ==
  row # None => row.labels \ lost = clicked \ lost

\* What stands in the title and description fields is what is stored (a title but
\* for the spaces around it), once no request for them is under way: unless the
\* title was left blank, somebody else wrote since the field was rendered, it was
\* rendered from an old cache, its request failed, two of its requests came in the
\* other order, or the title was compared with an old one.
FieldsSaved ==
  \A f \in Field \ outdated :
    row # None /\ shown[f] # None /\ UnderWay({f}) = {}
      => Agrees(f, shown[f], row[f]) \/ (f = "title" /\ trim[shown[f]] = Blank)

=============================================================================
