-------------------------- MODULE TaskPanelProofs ---------------------------
(***************************************************************************)
(* TLAPS proofs about module TaskPanel for any labels, texts and number of *)
(* requests: its types, what its caches and fields show, and what clicks   *)
(* on labels come to.  The inductive invariant has one part for each.      *)
(***************************************************************************)
EXTENDS TaskPanel, TLAPS

-----------------------------------------------------------------------------
(* The row.                                                                *)

\* Writing a text into a field changes that field and nothing else.
LEMMA Edited ==
  ASSUME NEW task \in TaskRead, NEW k \in Field, NEW text \in Text,
         NEW to, to = [task EXCEPT ![k] = text]
  PROVE  /\ to \in TaskRead /\ to.labels = task.labels /\ to[k] = text
         /\ \A f \in Field \ {k} : to[f] = task[f]
<1>1. CASE k = "title"
  BY <1>1 DEF TaskRead, Field
<1>2. CASE k = "description"
  BY <1>2 DEF TaskRead, Field
<1> QED BY <1>1, <1>2 DEF Field

\* Writing the labels changes the labels and nothing else.
LEMMA Relabelled ==
  ASSUME NEW task \in TaskRead, NEW labels \in SUBSET Label,
         NEW to, to = [task EXCEPT !.labels = labels]
  PROVE  /\ to \in TaskRead /\ to.labels = labels
         /\ \A f \in Field : to[f] = task[f]
BY DEF TaskRead, Field

\* The fields of what is read hold texts, or nothing, and are rendered as texts.
LEMMA ReadFields ==
  ASSUME NEW task \in TaskRead, NEW f \in Field
  PROVE  task.labels \in SUBSET Label /\ Input(task[f]) \in Text
BY TextAssumption DEF TaskRead, Field, Input

\* A text without the spaces around it is one.
LEMMA Trimmed ==
  ASSUME NEW text \in Text
  PROVE  trim[text] \in Text /\ trim[trim[text]] = trim[text]
BY TextAssumption

\* None is no value of anything else.
LEMMA NoneIsNothing ==
  /\ None \notin TaskRead /\ None \notin Request /\ None \notin Text /\ None \notin Nat
BY NoneAssumption

-----------------------------------------------------------------------------
(* Types.                                                                  *)

\* What a request is before its commit, and after it.
Full == Click \cup [kind : Field, value : Text] \cup [kind : {"post", "delete"}]
Done == [kind : Patches \cup {"post", "delete"}]

\* What a query can have for an answer.
Cached(q) == {None} \cup IF q = "task" THEN TaskRead ELSE Nat

\* The type invariant in parts, with what it leaves out: answers that are there,
\* and requests that have what their kind needs.
TablesType ==
  /\ row \in TaskRead \cup {None} /\ log \in Nat /\ wire \in Nat /\ failures \in Nat

QueryType ==
  /\ fetch \in [Query -> {"idle", "asked", "answered"}]
  /\ ans \in [Query -> {None} \cup TaskRead \cup Nat]
  /\ data \in [Query -> {None} \cup TaskRead \cup Nat]
  /\ \A q \in Query : ans[q] \in Cached(q) /\ data[q] \in Cached(q)
  /\ \A q \in Query : fetch[q] = "answered" => ans[q] # None
  /\ open \in BOOLEAN /\ invalid \subseteq Query /\ (open => invalid = {})
  /\ missed \subseteq Query

FieldsType ==
  /\ shown \in [Field -> Text \cup {None}] /\ outdated \subseteq Field
  /\ \A f \in Field : shown[f] # None <=> open /\ data["task"] # None

RequestsType ==
  /\ stage \in [Req -> {"idle", "sent", "ok"}] /\ req \in [Req -> Request \cup {None}]
  /\ \A r \in Req : /\ stage[r] = "sent" => req[r] \in Full
                    /\ stage[r] = "ok" => req[r] \in Done

HistoryType ==
  unseen \in [Req -> SUBSET Label] /\ clicked \subseteq Label /\ lost \subseteq Label

Types == TablesType /\ QueryType /\ FieldsType /\ RequestsType

\* The parts make up the type invariant.
LEMMA TypesAreOK == Types /\ HistoryType => TypeOK
BY DEF Types, HistoryType, TablesType, QueryType, FieldsType, RequestsType, TypeOK, Cached

\* They hold at first.
LEMMA InitTypes == Init => Types /\ HistoryType
<1> SUFFICES ASSUME Init PROVE Types /\ HistoryType
  OBVIOUS
<1> USE NoneIsNothing DEF Init, Query, Field
<1>1. TablesType
  <2>1. row \in TaskRead
    BY TextAssumption DEF TaskRead
  <2> QED BY <2>1 DEF TablesType
<1>2. QueryType
  BY DEF QueryType, Cached
<1>3. FieldsType
  BY DEF FieldsType
<1>4. RequestsType
  BY DEF RequestsType
<1>5. HistoryType
  BY DEF HistoryType
<1> QED BY <1>1, <1>2, <1>3, <1>4, <1>5 DEF Types

-----------------------------------------------------------------------------
(* The queries.                                                            *)

\* What asking for queries keeps of their types.
LEMMA FetchType ==
  ASSUME QueryType, NEW qs \in SUBSET Query, Fetch(qs)
  PROVE  /\ fetch' \in [Query -> {"idle", "asked", "answered"}]
         /\ ans' \in [Query -> {None} \cup TaskRead \cup Nat]
         /\ \A q \in Query : ans'[q] \in Cached(q)
         /\ \A q \in Query : fetch'[q] = "answered" => ans'[q] # None
<1>1. ans' = [q \in Query |-> IF q \in qs THEN None ELSE ans[q]]
  BY DEF Fetch
<1>2. fetch' = [q \in Query |-> IF q \in qs THEN "asked" ELSE fetch[q]]
  BY DEF Fetch
<1>3. \A q \in Query : None \in Cached(q)
  BY DEF Cached
<1>4. \A q \in Query : ans'[q] = IF q \in qs THEN None ELSE ans[q]
  BY <1>1
<1>5. \A q \in Query : ans'[q] \in Cached(q)
  BY <1>3, <1>4 DEF QueryType
<1>6. ans' \in [Query -> {None} \cup TaskRead \cup Nat]
  BY <1>1 DEF QueryType
<1> QED BY <1>2, <1>4, <1>5, <1>6 DEF QueryType

\* Invalidating queries keeps their types.
LEMMA InvalidateType ==
  ASSUME QueryType, NEW qs \in SUBSET Query, Invalidate(qs), UNCHANGED open
  PROVE  QueryType'
<1> DEFINE again == {q \in qs : open /\ (fetch[q] = "idle" \/ data[q] # None)}
<1>1. Fetch(again) /\ again \in SUBSET Query
  BY DEF Invalidate
<1>2. /\ invalid' \subseteq Query /\ (open' => invalid' = {})
      /\ missed' \subseteq Query /\ open' \in BOOLEAN /\ data' = data
  BY DEF Invalidate, QueryType
<1>3. /\ fetch' \in [Query -> {"idle", "asked", "answered"}]
      /\ ans' \in [Query -> {None} \cup TaskRead \cup Nat]
      /\ \A q \in Query : ans'[q] \in Cached(q)
      /\ \A q \in Query : fetch'[q] = "answered" => ans'[q] # None
  <2> HIDE DEF again
  <2> QED BY <1>1, FetchType
<1>4. data' \in [Query -> {None} \cup TaskRead \cup Nat] /\ \A q \in Query : data'[q] \in Cached(q)
  BY <1>2 DEF QueryType
<1> QED BY <1>2, <1>3, <1>4 DEF QueryType, Cached

\* The steps of one query.
LEMMA AnsweredType ==
  ASSUME Types, NEW q \in Query, Answered(q) \/ Focus(q)
  PROVE  Types'
<1> USE DEF Types
<1>1. TablesType' /\ RequestsType'
  BY DEF Answered, Read, Receive, FetchFails, Focus, MayFail, TablesType, RequestsType,
         tables, request
<1>2. CASE Read(q)
  <2>1. Table(q) \in Cached(q) /\ Table(q) # None /\ Table(q) \in {None} \cup TaskRead \cup Nat
    BY <1>2, NoneIsNothing DEF Read, Table, TablesType, Cached
  <2>2. QueryType'
    BY <1>2, <2>1 DEF Read, QueryType, Cached
  <2> QED BY <1>1, <1>2, <2>2 DEF Read, FieldsType, fields
<1>3. CASE Receive(q)
  <2>1. ans[q] \in Cached(q) /\ ans[q] # None /\ ans[q] \in {None} \cup TaskRead \cup Nat
    BY <1>3 DEF Receive, QueryType
  <2>2. QueryType'
    BY <1>3, <2>1 DEF Receive, QueryType, Cached
  <2>3. CASE q = "task" /\ open /\ data[q] = None
    <3>1. ans[q] \in TaskRead
      BY <2>1, <2>3 DEF Cached
    <3>2. \A f \in Field : Input(ans[q][f]) \in Text /\ Input(ans[q][f]) # None
      BY <3>1, ReadFields, NoneIsNothing
    <3>3. shown' = [f \in Field |-> Input(ans[q][f])] /\ outdated' \in SUBSET Field
      BY <1>3, <2>3 DEF Receive, Mount
    <3>4. data'["task"] # None /\ open'
      BY <1>3, <2>1, <2>3 DEF Receive, QueryType
    <3> QED BY <1>1, <2>2, <3>2, <3>3, <3>4 DEF FieldsType
  <2>4. CASE ~ (q = "task" /\ open /\ data[q] = None)
    <3>1. UNCHANGED <<shown, outdated, open>>
      BY <1>3, <2>4 DEF Receive, fields
    <3>2. open => (data'["task"] # None <=> data["task"] # None)
      BY <1>3, <2>1, <2>4 DEF Receive, QueryType
    <3> QED BY <1>1, <2>2, <3>1, <3>2 DEF FieldsType
  <2> QED BY <2>3, <2>4
<1>4. CASE FetchFails(q)
  BY <1>1, <1>4 DEF FetchFails, QueryType, Cached, FieldsType, fields
<1>5. CASE Focus(q)
  <2>1. QueryType'
    BY <1>5, FetchType DEF Focus, QueryType, Cached
  <2> QED BY <1>1, <1>5, <2>1 DEF Focus, FieldsType, fields
<1> QED BY <1>2, <1>3, <1>4, <1>5 DEF Answered

\* The panel comes and goes.
LEMMA PanelType ==
  ASSUME Types, OpenPanel \/ ClosePanel
  PROVE  Types'
<1> USE DEF Types
<1>1. TablesType' /\ RequestsType'
  BY DEF OpenPanel, ClosePanel, TablesType, RequestsType, tables, request
<1>2. CASE OpenPanel
  <2>1. PICK due \in SUBSET Query : Fetch(due) /\ missed' = missed \ due
    BY <1>2 DEF OpenPanel
  <2>2. QueryType'
    BY <1>2, <2>1, FetchType DEF OpenPanel, QueryType, Cached
  <2>3. CASE data["task"] = None
    BY <1>1, <1>2, <2>2, <2>3 DEF OpenPanel, FieldsType, fields
  <2>4. CASE data["task"] # None
    <3>1. data["task"] \in TaskRead
      BY <2>4 DEF QueryType, Cached, Query
    <3>2. \A f \in Field : Input(data["task"][f]) \in Text /\ Input(data["task"][f]) # None
      BY <3>1, ReadFields, NoneIsNothing
    <3>3. shown' = [f \in Field |-> Input(data["task"][f])] /\ outdated' \in SUBSET Field
      BY <1>2, <2>4 DEF OpenPanel, Mount
    <3>4. data'["task"] # None /\ open'
      BY <1>2, <2>4 DEF OpenPanel
    <3> QED BY <1>1, <2>2, <3>2, <3>3, <3>4 DEF FieldsType
  <2> QED BY <2>3, <2>4
<1>3. CASE ClosePanel
  BY <1>1, <1>3 DEF ClosePanel, Close, FieldsType, QueryType, query
<1> QED BY <1>2, <1>3

\* So does a change that nobody announces.
LEMMA UnnoticedType ==
  ASSUME QueryType, NEW qs \in SUBSET Query, Unnoticed(qs), UNCHANGED <<open, fetch, ans, data, invalid>>
  PROVE  QueryType'
BY DEF QueryType, Unnoticed, Cached

\* What the others do, and the events of it.
LEMMA OthersType ==
  ASSUME Types, Others \/ Deliver \/ Undelivered
  PROVE  Types'
<1> USE DEF Types
<1>1. ASSUME NEW l \in Label, RelabelByOthers(l)
      PROVE  Types'
  <2>1. row \in TaskRead
    BY <1>1 DEF RelabelByOthers, TablesType
  <2>2. PICK labels \in SUBSET Label : row' = [row EXCEPT !.labels = labels]
    <3>1. row.labels \in SUBSET Label
      BY <2>1 DEF TaskRead
    <3> QED BY <1>1, <3>1 DEF RelabelByOthers
  <2>3. TablesType'
    <3>1. row' \in TaskRead
      BY <2>1, <2>2, Relabelled
    <3> QED BY <1>1, <3>1 DEF RelabelByOthers, TablesType
  <2>4. QueryType'
    BY <1>1, UnnoticedType DEF RelabelByOthers
  <2> QED BY <1>1, <2>3, <2>4 DEF RelabelByOthers, FieldsType, RequestsType, fields, request
<1>2. ASSUME NEW f \in Field, NEW text \in Text, EditByOthers(f, text)
      PROVE  Types'
  <2>1. row \in TaskRead
    BY <1>2 DEF EditByOthers, TablesType
  <2>2. TablesType'
    <3>1. row' \in TaskRead
      BY <1>2, <2>1, Edited DEF EditByOthers
    <3> QED BY <1>2, <3>1 DEF EditByOthers, TablesType
  <2>3. QueryType'
    BY <1>2, UnnoticedType DEF EditByOthers
  <2> QED BY <1>2, <2>2, <2>3 DEF EditByOthers, FieldsType, RequestsType, request
<1>3. CASE PostByOthers
  BY <1>3 DEF PostByOthers, Posted, TablesType, QueryType, FieldsType, RequestsType, query, fields, request
<1>4. CASE DeleteByOthers
  BY <1>4 DEF DeleteByOthers, TablesType, QueryType, FieldsType, RequestsType, request
<1>5. CASE Deliver
  <2>1. QueryType'
    BY <1>5, InvalidateType DEF Deliver, Query
  <2>2. UNCHANGED <<open, data>>
    BY <1>5 DEF Deliver, Invalidate
  <2> QED BY <1>5, <2>1, <2>2 DEF Deliver, TablesType, FieldsType, RequestsType, fields, request
<1>6. CASE Undelivered
  <2>1. QueryType'
    BY <1>6, UnnoticedType DEF Undelivered, Query
  <2> QED BY <1>6, <2>1 DEF Undelivered, TablesType, FieldsType, RequestsType, fields, request
<1> QED BY <1>1, <1>2, <1>3, <1>4, <1>5, <1>6 DEF Others

\* Sending a request that is one.
LEMMA SendType ==
  ASSUME RequestsType, NEW r \in Req, NEW what \in Full, Send(r, what)
  PROVE  RequestsType'
<1>1. what \in Request
  BY DEF Full, Request, Patches
<1> QED BY <1>1 DEF RequestsType, Send

\* A field that is left is sent, and shows what was typed.
LEMMA LeaveSends ==
  ASSUME Types, NEW r \in Req, NEW text \in Text, LeaveTitle(r, text) \/ LeaveDescription(r, text)
  PROVE  /\ \E f \in Field, value \in Text :
              Send(r, [kind |-> f, value |-> value]) /\ shown[f] # None /\ shown' = [shown EXCEPT ![f] = text]
         /\ UNCHANGED <<tables, open, query, outdated, history, failures>>
<1>1. CASE LeaveTitle(r, text)
  <2>1. trim[text] \in Text /\ "title" \in Field
    BY Trimmed DEF Field
  <2> QED BY <1>1, <2>1 DEF LeaveTitle
<1>2. CASE LeaveDescription(r, text)
  BY <1>2 DEF LeaveDescription, Field
<1> QED BY <1>1, <1>2

\* A click sends the set that it makes of the cached one.
LEMMA ClickSends ==
  ASSUME Types, NEW r \in Req, NEW l \in Label, ToggleLabel(r, l)
  PROVE  /\ data["task"] \in TaskRead /\ data["task"].labels \in SUBSET Label
         /\ Send(r, [kind |-> "labels", value |-> Toggled(data["task"].labels, l), label |-> l,
                     on |-> l \notin data["task"].labels])
         /\ [kind |-> "labels", value |-> Toggled(data["task"].labels, l), label |-> l,
                     on |-> l \notin data["task"].labels] \in Click
         /\ UNCHANGED <<tables, open, query, fields, clicked, lost, failures>>
<1>1. data["task"] \in TaskRead
  BY DEF ToggleLabel, Types, QueryType, Cached, Query
<1>2. data["task"].labels \in SUBSET Label
  BY <1>1 DEF TaskRead
<1>3. Toggled(data["task"].labels, l) \in SUBSET Label /\ (l \notin data["task"].labels) \in BOOLEAN
  BY <1>2 DEF Toggled
<1> QED BY <1>1, <1>2, <1>3 DEF ToggleLabel, Click

\* What the user does.
LEMMA UserType ==
  ASSUME Types, NEW r \in Req, User(r)
  PROVE  Types'
<1> USE DEF Types
<1>1. TablesType' /\ QueryType'
  <2>1. UNCHANGED <<tables, open, query, failures>>
    BY DEF User, ToggleLabel, LeaveTitle, LeaveDescription, Post, Delete
  <2> QED BY <2>1 DEF TablesType, QueryType, tables, query
<1>2. ASSUME NEW l \in Label, ToggleLabel(r, l)
      PROVE  Types'
  <2>1. PICK what \in Full : Send(r, what)
    BY <1>2, ClickSends DEF Full
  <2>2. RequestsType'
    BY <2>1, SendType
  <2>3. UNCHANGED <<open, query, fields>>
    BY <1>2 DEF ToggleLabel
  <2> QED BY <1>1, <2>2, <2>3 DEF FieldsType, query, fields
<1>3. ASSUME NEW text \in Text, LeaveTitle(r, text) \/ LeaveDescription(r, text)
      PROVE  Types'
  <2>1. PICK f \in Field, value \in Text :
          Send(r, [kind |-> f, value |-> value]) /\ shown[f] # None /\ shown' = [shown EXCEPT ![f] = text]
    BY <1>3, LeaveSends
  <2>2. [kind |-> f, value |-> value] \in Full
    BY DEF Full
  <2>3. RequestsType'
    BY <2>1, <2>2, SendType
  <2>4. UNCHANGED <<open, query, outdated>>
    BY <1>3, LeaveSends
  <2>5. FieldsType'
    BY <2>1, <2>4, NoneIsNothing DEF FieldsType, query
  <2> QED BY <1>1, <2>3, <2>5
<1>4. CASE Post(r) \/ Delete(r)
  <2>1. PICK what \in Full : Send(r, what)
    BY <1>4 DEF Post, Delete, Full
  <2>2. RequestsType'
    BY <2>1, SendType
  <2> QED BY <1>1, <1>4, <2>2 DEF Post, Delete, FieldsType, query, fields
<1> QED BY <1>2, <1>3, <1>4 DEF User

\* A title that is not sent.
LEMMA LeaveUnsentType ==
  ASSUME Types, NEW text \in Text, LeaveUnsent(text)
  PROVE  Types'
BY NoneIsNothing
   DEF Types, LeaveUnsent, Field, TablesType, QueryType, FieldsType, RequestsType, tables, query, request

\* What becomes of the requests.
LEMMA SentRequest ==
  ASSUME RequestsType, NEW r \in Req, stage[r] = "sent"
  PROVE  /\ req[r].kind = "labels" => req[r] \in Click
         /\ req[r].kind \in Field => req[r].value \in Text
         /\ req[r].kind \in Patches \cup {"post", "delete"}
BY DEF RequestsType, Full, Click, Patches, Field

\* A request that is over.
LEMMA SettledType ==
  ASSUME RequestsType, NEW r \in Req, Settled(r)
  PROVE  RequestsType'
BY DEF RequestsType, Settled

\* What a patch makes of the row.
LEMMA PatchedRow ==
  ASSUME Types, NEW r \in Req, stage[r] = "sent", row # None, req[r].kind \in Patches, CommitPatch(r)
  PROVE  /\ row' \in TaskRead
         /\ req[r].kind = "labels" => row'.labels = req[r].value /\ \A f \in Field : row'[f] = row[f]
         /\ req[r].kind # "labels" =>
              /\ req[r].kind \in Field /\ row'[req[r].kind] = req[r].value
              /\ row'.labels = row.labels
              /\ \A f \in Field \ {req[r].kind} : row'[f] = row[f]
<1> USE DEF Types
<1>1. row \in TaskRead
  BY DEF TablesType
<1>2. CASE req[r].kind = "labels"
  <2>1. row' = [row EXCEPT !.labels = req[r].value]
    BY <1>2 DEF CommitPatch
  <2>2. req[r].value \in SUBSET Label
    BY <1>2, SentRequest DEF Click
  <2> QED BY <1>1, <1>2, <2>1, <2>2, Relabelled
<1>3. CASE req[r].kind # "labels"
  <2>1. row' = [row EXCEPT ![req[r].kind] = req[r].value]
    BY <1>3 DEF CommitPatch
  <2>2. req[r].kind \in Field
    BY <1>3 DEF Patches
  <2>3. req[r].value \in Text
    BY <2>2, SentRequest
  <2>4. ASSUME NEW k \in Field, NEW text \in Text, k = req[r].kind, text = req[r].value
        PROVE  /\ row' \in TaskRead /\ row'.labels = row.labels /\ row'[k] = text
               /\ \A f \in Field \ {k} : row'[f] = row[f]
    <3>1. row' = [row EXCEPT ![k] = text]
      BY <2>1, <2>4
    <3>2. row' \in TaskRead
      BY <1>1, <3>1, Edited
    <3>3. row'.labels = row.labels
      BY <1>1, <3>1, Edited
    <3>4. row'[k] = text
      <4>1. CASE k = "title" BY <1>1, <3>1, <4>1 DEF TaskRead
      <4>2. CASE k = "description" BY <1>1, <3>1, <4>2 DEF TaskRead
      <4> QED BY <4>1, <4>2 DEF Field
    <3>5. ASSUME NEW f \in Field \ {k}
          PROVE  row'[f] = row[f]
      BY <1>1, <3>1, Edited
    <3> QED BY <3>2, <3>3, <3>4, <3>5
  <2>5. /\ row' \in TaskRead /\ row'.labels = row.labels /\ row'[req[r].kind] = req[r].value
    BY <2>2, <2>3, <2>4
  <2>6. ASSUME NEW f \in Field \ {req[r].kind}
        PROVE  row'[f] = row[f]
    BY <2>2, <2>3, <2>4
  <2> QED BY <1>3, <2>2, <2>5, <2>6
<1> QED BY <1>2, <1>3

\* The server commits a request.
LEMMA CommitType ==
  ASSUME Types, NEW r \in Req, Commit(r)
  PROVE  Types'
<1> USE DEF Types
<1>1. RequestsType'
  <2>1. req[r].kind \in Patches \cup {"post", "delete"}
    BY SentRequest DEF Commit
  <2>2. [kind |-> req[r].kind] \in Done /\ [kind |-> req[r].kind] \in Request
    BY <2>1 DEF Done, Request
  <2>3. stage' = [stage EXCEPT ![r] = "ok"] /\ req' = [req EXCEPT ![r] = [kind |-> req[r].kind]]
    BY DEF Commit, RequestsType
  <2> QED BY <2>2, <2>3 DEF RequestsType
<1>2. CASE req[r].kind \in Patches /\ CommitPatch(r)
  <2>1. row' \in TaskRead
    BY <1>2, PatchedRow DEF Commit
  <2>2. (log' = log \/ log' = log + 1) /\ wire' = wire /\ UNCHANGED failures
    BY <1>2 DEF CommitPatch, Commit
  <2>3. QueryType'
    <3>1. UNCHANGED missed \/ Unnoticed({"activity"})
      BY <1>2 DEF CommitPatch
    <3>2. UNCHANGED <<open, fetch, ans, data, invalid>>
      BY DEF Commit
    <3>3. CASE UNCHANGED missed
      BY <3>2, <3>3 DEF QueryType, Cached
    <3> QED BY <3>1, <3>2, <3>3, UnnoticedType DEF Query
  <2>4. outdated' \subseteq Field
    BY <1>2 DEF CommitPatch, FieldsType, Patches
  <2>5. FieldsType'
    BY <2>4 DEF Commit, FieldsType
  <2> QED BY <1>1, <2>1, <2>2, <2>3, <2>5 DEF TablesType
<1>3. CASE req[r].kind = "post" /\ Posted /\ UNCHANGED <<row, missed, outdated>>
  BY <1>1, <1>3 DEF Commit, Posted, TablesType, QueryType, FieldsType
<1>4. CASE row' = None /\ missed' = Query /\ outdated' = {} /\ UNCHANGED <<log, wire>>
  BY <1>1, <1>4 DEF Commit, TablesType, QueryType, FieldsType
<1> QED BY <1>2, <1>3, <1>4 DEF Commit

\* The answer to a request.
LEMMA ReplyType ==
  ASSUME Types, NEW r \in Req, Reply(r)
  PROVE  Types'
<1> USE DEF Types
<1>1. RequestsType' /\ TablesType'
  BY SettledType DEF Reply, TablesType, tables
<1>2. CASE (InvalidateTask \/ Invalidate({"activity"})) /\ UNCHANGED <<open, fields>>
  <2>1. QueryType'
    BY <1>2, InvalidateType DEF InvalidateTask, Query
  <2>2. UNCHANGED <<open, data, shown, outdated>>
    BY <1>2 DEF InvalidateTask, Invalidate, fields
  <2> QED BY <1>1, <2>1, <2>2 DEF FieldsType
<1>3. CASE Close /\ UNCHANGED query
  BY <1>1, <1>3 DEF Close, FieldsType, QueryType, query
<1> QED BY <1>2, <1>3 DEF Reply

\* A request that fails.
LEMMA RequestFailsType ==
  ASSUME Types, NEW r \in Req, RequestFails(r)
  PROVE  Types'
<1> USE DEF Types
<1>1. RequestsType' /\ TablesType'
  BY SettledType DEF RequestFails, MayFail, TablesType, tables
<1>2. QueryType'
  <2>1. UNCHANGED <<open, fetch, ans, data, invalid>>
    BY DEF RequestFails
  <2>2. UNCHANGED missed \/ Unnoticed({"task"})
    BY DEF RequestFails
  <2>3. CASE UNCHANGED missed
    BY <2>1, <2>3 DEF QueryType, Cached
  <2> QED BY <2>1, <2>2, <2>3, UnnoticedType DEF Query
<1>3. FieldsType'
  BY DEF RequestFails, FieldsType
<1> QED BY <1>1, <1>2, <1>3

\* Every step keeps the types.
LEMMA TypeStep ==
  ASSUME Types, [Next]_vars
  PROVE  Types'
<1>1. CASE UNCHANGED vars
  BY <1>1 DEF vars, tables, query, fields, request, Types, TablesType, QueryType, FieldsType,
              RequestsType
<1> QED
  BY <1>1, AnsweredType, PanelType, OthersType, UserType, LeaveUnsentType, CommitType,
     ReplyType, RequestFailsType
     DEF Next, Served

\* Every step keeps the types of the record.
LEMMA HistoryStep ==
  ASSUME Types, HistoryType, [Next]_vars
  PROVE  HistoryType'
<1> USE DEF HistoryType
<1>1. ASSUME NEW l \in Label, NEW on, NEW others \in SUBSET Label, NEW later, Written(l, on, others, later)
      PROVE  HistoryType'
  BY <1>1 DEF Written
<1>2. CASE UNCHANGED history
  BY <1>2 DEF history
<1>3. CASE Forgotten
  BY <1>3 DEF Forgotten
<1>4. ASSUME NEW r \in Req, User(r) PROVE HistoryType'
  <2>1. ASSUME NEW l \in Label, ToggleLabel(r, l) PROVE HistoryType'
    <3>1. data["task"].labels \in SUBSET Label /\ UNCHANGED <<clicked, lost>>
      BY <2>1, ClickSends
    <3>2. row # None => row.labels \in SUBSET Label
      BY DEF Types, TablesType, TaskRead
    <3>3. unseen' = [unseen EXCEPT ![r] = IF UpToDate \/ row = None THEN {}
                                            ELSE Differ(row.labels, data["task"].labels)]
      BY <2>1 DEF ToggleLabel
    <3>4. row # None => Differ(row.labels, data["task"].labels) \in SUBSET Label
      BY <3>1, <3>2 DEF Differ
    <3> QED BY <3>1, <3>3, <3>4
  <2> QED BY <1>2, <1>4, <2>1 DEF User, LeaveTitle, LeaveDescription, Post, Delete
<1>5. ASSUME NEW r \in Req, Commit(r) PROVE HistoryType'
  <2>1. ASSUME CommitPatch(r), req[r].kind = "labels" PROVE HistoryType'
    <3>1. req[r].label \in Label /\ unseen[r] \in SUBSET Label
      BY <1>5, <2>1, SentRequest DEF Commit, Types, Click
    <3> QED BY <1>1, <2>1, <3>1 DEF CommitPatch
  <2> QED BY <1>2, <1>3, <1>5, <2>1 DEF Commit, CommitPatch
<1>6. ASSUME NEW r \in Req, Settled(r) PROVE HistoryType'
  BY <1>6 DEF Settled
<1>7. CASE Others
  BY <1>1, <1>2, <1>3, <1>7 DEF Others, RelabelByOthers, EditByOthers, PostByOthers, DeleteByOthers
<1>8. CASE UNCHANGED vars
  BY <1>2, <1>8 DEF vars
<1>9. CASE \/ OpenPanel \/ ClosePanel \/ Deliver \/ Undelivered
           \/ \E text \in Text : LeaveUnsent(text)
           \/ \E q \in Query : Answered(q) \/ Focus(q)
  BY <1>2, <1>9 DEF OpenPanel, ClosePanel, LeaveUnsent, Answered, Read, Receive, FetchFails, Focus,
                    Deliver, Undelivered
<1> QED
  BY <1>4, <1>5, <1>6, <1>7, <1>8, <1>9 DEF Next, Served, Reply, RequestFails

-----------------------------------------------------------------------------
(* What the caches show.                                                   *)

\* An event, or the answer to a patch, has yet to make the tab ask again.
Due(q) == IF q = "activity" THEN wire > 0
                            ELSE \E r \in Req : stage[r] = "ok" /\ req[r].kind \in Patches
\* A closed panel may keep what will be fetched when it opens.
Excused(q) == ~ open /\ (q \in invalid \/ data[q] = None)

\* With nothing due, the answer under way or the cache is what the table holds.
Fresh(q) ==
  q \notin missed /\ ~ Due(q) =>
    /\ fetch[q] = "answered" => ans[q] = Table(q)
    /\ fetch[q] = "idle" /\ ~ Excused(q) => data[q] = Table(q)

CachesFresh == \A q \in Query : Fresh(q)

\* Nothing happens to a query.
Same(q) ==
  /\ fetch'[q] = fetch[q] /\ ans'[q] = ans[q] /\ data'[q] = data[q]
  /\ (q \in invalid => q \in invalid') /\ (q \in missed => q \in missed')

\* A query to which nothing happens stays fresh while the panel does not open.
LEMMA SameFresh ==
  ASSUME NEW q \in Query, Fresh(q), Same(q), Table(q)' = Table(q), open' => open,
         Due(q) => Due(q)'
  PROVE  Fresh(q)'
BY DEF Fresh, Same, Excused

\* An invalidated query is fetched again, marked, or missed its answer.
LEMMA InvalidateFresh ==
  ASSUME QueryType, NEW qs \in SUBSET Query, NEW q \in qs, Invalidate(qs), UNCHANGED open
  PROVE  Fresh(q)'
<1>1. ASSUME q \notin missed', fetch'[q] # "asked"
      PROVE  fetch'[q] = "idle" /\ ~ open /\ q \in invalid'
  <2> DEFINE again == {p \in qs : open /\ (fetch[p] = "idle" \/ data[p] # None)}
  <2>1. q \notin again /\ fetch'[q] = fetch[q]
    BY <1>1 DEF Invalidate, Fetch
  <2>2. fetch[q] # "answered"
    BY <1>1, <2>1 DEF Invalidate
  <2>3. fetch[q] = "idle"
    BY <1>1, <2>1, <2>2 DEF QueryType
  <2> QED BY <2>1, <2>3 DEF Invalidate, QueryType
<1>2. fetch'[q] = "asked" => Fresh(q)'
  BY DEF Fresh
<1>3. q \in missed' => Fresh(q)'
  BY DEF Fresh
<1> QED BY <1>1, <1>2, <1>3 DEF Fresh, Excused

\* To the other queries an invalidation does nothing.
LEMMA InvalidateOther ==
  ASSUME QueryType, NEW qs \in SUBSET Query, NEW q \in Query \ qs, Invalidate(qs)
  PROVE  Same(q)
BY DEF Invalidate, Fetch, Same, QueryType

\* A change that nobody announces is recorded.
LEMMA UnnoticedFresh ==
  ASSUME NEW qs \in SUBSET Query, NEW q \in qs, Unnoticed(qs), UNCHANGED fetch
  PROVE  Fresh(q)'
BY DEF Unnoticed, Fresh

\* A change that nobody announces takes nothing from any query.
LEMMA UnnoticedOther ==
  ASSUME NEW qs \in SUBSET Query, NEW q \in Query, Unnoticed(qs),
         UNCHANGED <<fetch, ans, data, invalid>>
  PROVE  Same(q)
BY DEF Unnoticed, Same

\* A change of the task stays announced until the answer to it is there.
LEMMA DueKept ==
  ASSUME RequestsType, NEW r \in Req, ~ (stage[r] = "ok" /\ req[r].kind \in Patches),
         NEW s, NEW v, stage' = [stage EXCEPT ![r] = s], req' = [req EXCEPT ![r] = v]
  PROVE  Due("task") => Due("task")'
<1> SUFFICES ASSUME NEW p \in Req, stage[p] = "ok", req[p].kind \in Patches
             PROVE  Due("task")'
  BY DEF Due
<1>1. p # r
  OBVIOUS
<1>2. stage'[p] = stage[p] /\ req'[p] = req[p]
  BY <1>1 DEF RequestsType
<1> QED BY <1>2 DEF Due

\* Steps that leave the tables, the queries, the panel and the requests alone.
LEMMA FreshFrame ==
  ASSUME CachesFresh, UNCHANGED <<row, log, open, query>>, wire' = wire,
         Due("task") => Due("task")'
  PROVE  CachesFresh'
<1>1. ASSUME NEW q \in Query PROVE Fresh(q)'
  <2>1. Same(q) /\ Table(q)' = Table(q)
    BY DEF query, Same, Table
  <2>2. Due(q) => Due(q)'
    BY DEF Due
  <2> QED BY <2>1, <2>2, SameFresh DEF CachesFresh
<1> QED BY <1>1 DEF CachesFresh

\* The steps of one query.
LEMMA AnsweredFresh ==
  ASSUME Types, CachesFresh, NEW p \in Query, Answered(p) \/ Focus(p)
  PROVE  CachesFresh'
<1> USE DEF Types
<1>1. /\ UNCHANGED <<row, log, wire, stage, req, open>>
      /\ \A q \in Query : Table(q)' = Table(q) /\ (Due(q) => Due(q)')
  <2>1. UNCHANGED <<row, log, wire, stage, req, open>>
    BY DEF Answered, Read, Receive, FetchFails, Focus, tables, request
  <2> QED BY <2>1 DEF Table, Due
<1>2. ASSUME NEW q \in Query PROVE Fresh(q)'
  <2>1. Fresh(q)
    BY DEF CachesFresh
  <2>2. CASE q # p
    <3>1. Same(q)
      BY <2>2 DEF Answered, Read, Receive, FetchFails, Focus, Fetch, Same, QueryType
    <3> QED BY <1>1, <2>1, <3>1, SameFresh
  <2>3. CASE q = p /\ Read(p)
    BY <1>1, <2>3 DEF Read, Fresh, QueryType
  <2>4. CASE q = p /\ Receive(p)
    <3>1. fetch[q] = "answered" /\ fetch'[q] = "idle" /\ data'[q] = ans[q] /\ missed' = missed
      BY <2>4 DEF Receive, QueryType
    <3> QED BY <1>1, <2>1, <3>1 DEF Fresh
  <2>5. CASE q = p /\ FetchFails(p)
    BY <2>5 DEF FetchFails, Fresh
  <2>6. CASE q = p /\ Focus(p)
    BY <2>6 DEF Focus, Fetch, Fresh
  <2> QED BY <2>2, <2>3, <2>4, <2>5, <2>6 DEF Answered
<1> QED BY <1>2 DEF CachesFresh

\* Opening the panel fetches what was excused; closing it excuses more.
LEMMA PanelFresh ==
  ASSUME Types, CachesFresh, OpenPanel \/ ClosePanel
  PROVE  CachesFresh'
<1> USE DEF Types
<1>1. /\ UNCHANGED <<row, log, wire, stage, req, data>>
      /\ \A q \in Query : Table(q)' = Table(q) /\ (Due(q) => Due(q)')
  <2>1. UNCHANGED <<row, log, wire, stage, req, data>>
    BY DEF OpenPanel, ClosePanel, query, tables, request
  <2> QED BY <2>1 DEF Table, Due
<1>2. ASSUME OpenPanel, NEW q \in Query PROVE Fresh(q)'
  <2>1. PICK old \in {{}, Query} :
          LET due == {p \in Query : fetch[p] = "idle" /\ (data[p] = None \/ p \in invalid \cup old)} IN
          Fetch(due) /\ missed' = missed \ due
    BY <1>2 DEF OpenPanel
  <2> DEFINE due == {p \in Query : fetch[p] = "idle" /\ (data[p] = None \/ p \in invalid \cup old)}
  <2>2. CASE q \in due
    <3>1. fetch'[q] = "asked"
      BY <2>1, <2>2 DEF Fetch
    <3> QED BY <3>1 DEF Fresh
  <2>3. CASE q \notin due
    <3>1. fetch'[q] = fetch[q] /\ ans'[q] = ans[q] /\ data'[q] = data[q] /\ (q \in missed' <=> q \in missed)
      BY <1>1, <2>1, <2>3 DEF Fetch
    <3>2. fetch[q] = "idle" => ~ Excused(q)
      BY <2>3 DEF Excused
    <3>3. Fresh(q)
      BY DEF CachesFresh
    <3> HIDE DEF due
    <3> QED BY <1>1, <3>1, <3>2, <3>3 DEF Fresh
  <2> QED BY <2>2, <2>3
<1>3. ASSUME ClosePanel, NEW q \in Query PROVE Fresh(q)'
  <2>1. Same(q) /\ ~ open' /\ Fresh(q)
    BY <1>3 DEF ClosePanel, Close, query, Same, CachesFresh
  <2> QED BY <1>1, <2>1, SameFresh
<1> QED BY <1>2, <1>3 DEF CachesFresh

\* What the others do is announced or recorded as missed.
LEMMA OthersFresh ==
  ASSUME Types, CachesFresh, Others \/ Deliver \/ Undelivered
  PROVE  CachesFresh'
<1> USE DEF Types
<1>1. CASE Unnoticed(Query) /\ UNCHANGED fetch
  BY <1>1, UnnoticedFresh DEF CachesFresh
<1>2. CASE missed' = Query
  BY <1>2 DEF CachesFresh, Fresh
<1>3. CASE PostByOthers
  <2>1. Fresh("activity")'
    BY <1>3 DEF PostByOthers, Posted, Fresh, Due, TablesType
  <2>2. Fresh("task")'
    <3>1. Same("task") /\ Table("task")' = Table("task") /\ UNCHANGED open /\ Fresh("task")
      BY <1>3 DEF PostByOthers, query, Same, Table, CachesFresh, Query
    <3>2. Due("task") => Due("task")'
      BY <1>3 DEF PostByOthers, request, Due
    <3> QED BY <3>1, <3>2, SameFresh DEF Query
  <2> QED BY <2>1, <2>2 DEF CachesFresh, Query
<1>4. CASE Deliver \/ Undelivered
  <2>1. UNCHANGED <<row, log, open, stage, req>>
    BY <1>4 DEF Deliver, Undelivered, request
  <2>2. Fresh("activity")'
    <3>1. CASE Deliver
      BY <2>1, <3>1, InvalidateFresh DEF Deliver, Query
    <3>2. CASE Undelivered
      BY <2>1, <3>2, UnnoticedFresh DEF Undelivered, Query
    <3> QED BY <1>4, <3>1, <3>2
  <2>3. Same("task")
    <3>1. CASE Deliver
      BY <3>1, InvalidateOther DEF Deliver, Query
    <3>2. CASE Undelivered
      BY <3>2, UnnoticedOther DEF Undelivered, Query
    <3> QED BY <1>4, <3>1, <3>2
  <2>4. Table("task")' = Table("task") /\ (Due("task") => Due("task")') /\ Fresh("task")
    BY <2>1 DEF Table, Due, CachesFresh, Query
  <2>5. Fresh("task")'
    BY <2>1, <2>3, <2>4, SameFresh DEF Query
  <2> QED BY <2>2, <2>5 DEF CachesFresh, Query
<1> QED BY <1>1, <1>2, <1>3, <1>4 DEF Others, RelabelByOthers, EditByOthers, DeleteByOthers

\* What the user does changes no table.
LEMMA UserFresh ==
  ASSUME Types, CachesFresh,
         \/ \E r \in Req : User(r)
         \/ \E text \in Text : LeaveUnsent(text)
  PROVE  CachesFresh'
<1> USE DEF Types
<1>1. UNCHANGED <<row, log, wire, open, query>>
  BY DEF User, ToggleLabel, LeaveTitle, LeaveDescription, Post, Delete, LeaveUnsent, tables
<1>2. Due("task") => Due("task")'
  <2>1. ASSUME NEW r \in Req, NEW what, Send(r, what)
        PROVE  Due("task") => Due("task")'
    BY <2>1, DueKept DEF Send
  <2>2. CASE UNCHANGED <<stage, req>>
    BY <2>2 DEF Due
  <2>3. (\E r \in Req : \E what : Send(r, what)) \/ UNCHANGED <<stage, req>>
    BY DEF User, ToggleLabel, LeaveTitle, LeaveDescription, Post, Delete, LeaveUnsent, request
  <2> QED BY <2>1, <2>2, <2>3
<1> QED BY <1>1, <1>2, FreshFrame

\* A commit is announced by its answer or by an event, or recorded as missed.
LEMMA CommitFresh ==
  ASSUME Types, CachesFresh, NEW r \in Req, Commit(r)
  PROVE  CachesFresh'
<1> USE DEF Types
<1>1. /\ stage' = [stage EXCEPT ![r] = "ok"] /\ req' = [req EXCEPT ![r] = [kind |-> req[r].kind]]
      /\ stage[r] = "sent" /\ UNCHANGED <<open, fetch, ans, data, invalid>>
  BY DEF Commit, RequestsType
<1>2. CASE req[r].kind \in Patches /\ CommitPatch(r)
  <2>1. Fresh("task")'
    <3>1. stage'[r] = "ok" /\ req'[r].kind \in Patches
      BY <1>1, <1>2 DEF RequestsType
    <3> QED BY <3>1 DEF Fresh, Due
  <2>2. Fresh("activity")'
    <3>1. CASE UNCHANGED <<log, missed>>
      <4>1. Same("activity") /\ Table("activity")' = Table("activity") /\ (Due("activity") => Due("activity")')
        BY <1>1, <1>2, <3>1 DEF Same, Table, Due, CommitPatch
      <4> QED BY <1>1, <4>1, SameFresh DEF CachesFresh, Query
    <3>2. CASE Unnoticed({"activity"})
      BY <1>1, <3>2, UnnoticedFresh DEF Query
    <3> QED BY <1>2, <3>1, <3>2 DEF CommitPatch
  <2> QED BY <2>1, <2>2 DEF CachesFresh, Query
<1>3. CASE Posted /\ UNCHANGED <<row, missed>>
  <2>1. Fresh("activity")'
    BY <1>3 DEF Posted, Fresh, Due, TablesType
  <2>2. Same("task") /\ Table("task")' = Table("task") /\ (Due("task") => Due("task")')
    <3>1. Due("task") => Due("task")'
      BY <1>1, DueKept
    <3> QED BY <1>1, <1>3, <3>1 DEF Same, Table
  <2>3. Fresh("task")'
    BY <1>1, <2>2, SameFresh DEF CachesFresh, Query
  <2> QED BY <2>1, <2>3 DEF CachesFresh, Query
<1>4. CASE missed' = Query
  BY <1>4 DEF CachesFresh, Fresh
<1> QED BY <1>2, <1>3, <1>4 DEF Commit

\* The answer to a patch is the end of its announcement: the task is fetched again.
LEMMA ReplyFresh ==
  ASSUME Types, CachesFresh, NEW r \in Req, Reply(r)
  PROVE  CachesFresh'
<1> USE DEF Types
<1>1. /\ stage' = [stage EXCEPT ![r] = "idle"] /\ req' = [req EXCEPT ![r] = None]
      /\ UNCHANGED <<row, log, wire>>
  BY DEF Reply, Settled, tables
<1>2. \A q \in Query : Table(q)' = Table(q)
  BY <1>1 DEF Table
<1>3. (Due("activity") => Due("activity")') /\ (req[r].kind \notin Patches => (Due("task") => Due("task")'))
  <2>1. Due("activity") => Due("activity")'
    BY <1>1 DEF Due
  <2> QED BY <1>1, <2>1, DueKept
<1>4. CASE InvalidateTask /\ UNCHANGED open
  <2>1. Fresh("task")'
    BY <1>4, InvalidateFresh DEF InvalidateTask, Query
  <2>2. Same("activity")
    BY <1>4, InvalidateOther DEF InvalidateTask, Query
  <2>3. Fresh("activity")'
    BY <1>2, <1>3, <1>4, <2>2, SameFresh DEF CachesFresh, Query
  <2> QED BY <2>1, <2>3 DEF CachesFresh, Query
<1>5. CASE req[r].kind = "post" /\ Invalidate({"activity"}) /\ UNCHANGED open
  <2>1. Fresh("activity")'
    BY <1>5, InvalidateFresh DEF Query
  <2>2. Same("task")
    BY <1>5, InvalidateOther DEF Query
  <2>3. req[r].kind \notin Patches
    BY <1>5 DEF Patches, Field
  <2>4. Fresh("task")'
    BY <1>2, <1>3, <1>5, <2>2, <2>3, SameFresh DEF CachesFresh, Query
  <2> QED BY <2>1, <2>4 DEF CachesFresh, Query
<1>6. CASE req[r].kind = "delete" /\ Close /\ UNCHANGED query
  <2>1. req[r].kind \notin Patches
    BY <1>6 DEF Patches, Field
  <2>2. ASSUME NEW q \in Query PROVE Fresh(q)'
    <3>1. Same(q) /\ ~ open' /\ Fresh(q)
      BY <1>6 DEF Close, query, Same, CachesFresh
    <3> QED BY <1>2, <1>3, <2>1, <3>1, SameFresh DEF Query
  <2> QED BY <2>2 DEF CachesFresh
<1> QED BY <1>4, <1>5, <1>6 DEF Reply, fields

\* An answer that is lost takes its announcement with it.
LEMMA RequestFailsFresh ==
  ASSUME Types, CachesFresh, NEW r \in Req, RequestFails(r)
  PROVE  CachesFresh'
<1> USE DEF Types
<1>1. /\ stage' = [stage EXCEPT ![r] = "idle"] /\ req' = [req EXCEPT ![r] = None]
      /\ UNCHANGED <<row, log, wire, open, fetch, ans, data, invalid>>
  BY DEF RequestFails, Settled, tables
<1>2. CASE stage[r] = "ok" /\ req[r].kind \in Patches
  <2>1. Unnoticed({"task"})
    BY <1>2 DEF RequestFails
  <2>2. Fresh("task")'
    BY <1>1, <2>1, UnnoticedFresh DEF Query
  <2>3. Same("activity") /\ Table("activity")' = Table("activity") /\ (Due("activity") => Due("activity")')
    <3>1. Same("activity")
      BY <1>1, <2>1, UnnoticedOther DEF Query
    <3> QED BY <1>1, <3>1 DEF Table, Due
  <2>4. Fresh("activity")'
    BY <1>1, <2>3, SameFresh DEF CachesFresh, Query
  <2> QED BY <2>2, <2>4 DEF CachesFresh, Query
<1>3. CASE ~ (stage[r] = "ok" /\ req[r].kind \in Patches)
  <2>1. UNCHANGED query
    BY <1>1, <1>3 DEF RequestFails, query
  <2>2. Due("task") => Due("task")'
    BY <1>1, <1>3, DueKept
  <2> QED BY <1>1, <2>1, <2>2, FreshFrame
<1> QED BY <1>2, <1>3

\* Every step keeps the caches fresh.
LEMMA FreshStep ==
  ASSUME Types, CachesFresh, [Next]_vars
  PROVE  CachesFresh'
<1>1. CASE UNCHANGED vars
  <2>1. UNCHANGED <<row, log, open, query>> /\ wire' = wire /\ UNCHANGED <<stage, req>>
    BY <1>1 DEF vars, tables, request
  <2>2. Due("task") => Due("task")'
    BY <2>1 DEF Due
  <2> QED BY <2>1, <2>2, FreshFrame
<1> QED
  BY <1>1, AnsweredFresh, PanelFresh, OthersFresh, UserFresh, CommitFresh,
     ReplyFresh, RequestFailsFresh
     DEF Next, Served

-----------------------------------------------------------------------------
(* What the fields show.                                                   *)

\* No request for the field has yet to be committed.
Unsent(f) == \A r \in Req : ~ (stage[r] = "sent" /\ req[r].kind = f)

\* What a field shows is stored, unless it is a blank title.
Stands(f) == Agrees(f, shown[f], row[f]) \/ (f = "title" /\ trim[shown[f]] = Blank)

\* Then it shows what is stored: this is FieldsSaved, with the requests that are
\* committed and not answered counted as done.
Saved(f) ==
  f \notin outdated /\ row # None /\ shown[f] # None /\ Unsent(f) => Stands(f)

FieldsStored == \A f \in Field : Saved(f)

\* Nothing happens to a field.
LEMMA SavedFrame ==
  ASSUME NEW f \in Field, Saved(f), shown'[f] = shown[f] \/ shown'[f] = None,
         f \in outdated => f \in outdated', Unsent(f)' => Unsent(f),
         row' # None => row # None /\ row'[f] = row[f]
  PROVE  Saved(f)'
BY DEF Saved, Stands, Agrees, Input

\* The fields are rendered with what the cache has: right, or recorded as old.
LEMMA MountSaved ==
  ASSUME Types, NEW f \in Field, NEW task, Mount(task), UNCHANGED row
  PROVE  Saved(f)'
<1> SUFFICES ASSUME row # None, row[f] = task[f]
             PROVE  Agrees(f, Input(row[f]), row[f])
  BY DEF Mount, Saved, Stands, Agrees, Input
<1>1. CASE f = "title"
  <2>1. row.title # None
    BY <1>1, NoneIsNothing DEF Types, TablesType, TaskRead
  <2> QED BY <1>1, <2>1 DEF Agrees, Input
<1>2. CASE f # "title"
  BY <1>2 DEF Agrees
<1> QED BY <1>1, <1>2

\* Queries, events and the panel itself: fields stay, are rendered or are gone.
LEMMA PagesSaved ==
  ASSUME Types, FieldsStored, \/ \E q \in Query : Answered(q) \/ Focus(q)
                              \/ OpenPanel \/ ClosePanel \/ Deliver \/ Undelivered
  PROVE  FieldsStored'
<1>1. UNCHANGED <<row, stage, req>>
  BY DEF Answered, Read, Receive, FetchFails, Focus, OpenPanel, ClosePanel, Deliver, Undelivered,
         tables, request
<1>2. \/ UNCHANGED <<shown, outdated>>
      \/ \E task : Mount(task)
      \/ Close
  BY DEF Answered, Read, Receive, FetchFails, Focus, OpenPanel, ClosePanel, Deliver, Undelivered, fields
<1>3. ASSUME NEW f \in Field PROVE Saved(f)'
  <2>1. Unsent(f)' => Unsent(f)
    BY <1>1 DEF Unsent
  <2>2. CASE UNCHANGED <<shown, outdated>>
    BY <1>1, <2>1, <2>2, SavedFrame DEF FieldsStored
  <2>3. CASE \E task : Mount(task)
    BY <1>1, <2>3, MountSaved
  <2>4. CASE Close
    BY <2>4 DEF Close, Saved
  <2> QED BY <1>2, <2>2, <2>3, <2>4
<1> QED BY <1>3 DEF FieldsStored

\* A text that others write over a rendered one is recorded as overtaken.
LEMMA OthersSaved ==
  ASSUME Types, FieldsStored, Others
  PROVE  FieldsStored'
<1> USE DEF Types
<1>1. ASSUME NEW f \in Field PROVE Saved(f)'
  <2>1. Saved(f) /\ UNCHANGED <<stage, req, shown>> /\ (Unsent(f)' => Unsent(f))
    <3>1. UNCHANGED <<stage, req, shown>>
      BY DEF Others, RelabelByOthers, EditByOthers, PostByOthers, DeleteByOthers, request, fields
    <3> QED BY <3>1 DEF FieldsStored, Unsent
  <2>2. ASSUME NEW l \in Label, RelabelByOthers(l)
        PROVE  Saved(f)'
    <3>1. row \in TaskRead
      BY <2>2 DEF RelabelByOthers, TablesType
    <3>2. PICK labels \in SUBSET Label : row' = [row EXCEPT !.labels = labels]
      <4>1. row.labels \in SUBSET Label
        BY <3>1 DEF TaskRead
      <4> QED BY <2>2, <4>1 DEF RelabelByOthers
    <3>3. row # None /\ row'[f] = row[f]
      BY <2>2, <3>1, <3>2, Relabelled DEF RelabelByOthers
    <3> QED BY <2>1, <2>2, <3>3, SavedFrame DEF RelabelByOthers, fields
  <2>3. ASSUME NEW k \in Field, NEW text \in Text, EditByOthers(k, text)
        PROVE  Saved(f)'
    <3>1. row \in TaskRead /\ row # None
      BY <2>3 DEF EditByOthers, TablesType
    <3>2. CASE k = f
      BY <2>1, <2>3, <3>2 DEF EditByOthers, Saved
    <3>3. CASE k # f
      <4>1. row'[f] = row[f]
        BY <2>3, <3>1, <3>3, Edited DEF EditByOthers
      <4> QED BY <2>1, <2>3, <3>1, <4>1, SavedFrame DEF EditByOthers
    <3> QED BY <3>2, <3>3
  <2>4. CASE PostByOthers
    BY <2>1, <2>4, SavedFrame DEF PostByOthers, fields
  <2>5. CASE DeleteByOthers
    BY <2>5 DEF DeleteByOthers, Saved
  <2> QED BY <2>2, <2>3, <2>4, <2>5 DEF Others
<1> QED BY <1>1 DEF FieldsStored

\* A text that differs from the stored one has a request on its way.
LEMMA UserSaved ==
  ASSUME Types, FieldsStored, NEW r \in Req, User(r)
  PROVE  FieldsStored'
<1> USE DEF Types
<1>1. ASSUME NEW f \in Field PROVE Saved(f)'
  <2>1. Saved(f) /\ UNCHANGED <<row, outdated>>
    BY DEF FieldsStored, User, ToggleLabel, LeaveTitle, LeaveDescription, Post, Delete, tables, fields
  <2>2. Unsent(f)' => Unsent(f)
    <3>1. PICK what : Send(r, what)
      BY DEF User, ToggleLabel, LeaveTitle, LeaveDescription, Post, Delete
    <3> QED BY <3>1 DEF Send, Unsent, RequestsType
  <2>3. CASE shown'[f] = shown[f]
    BY <2>1, <2>2, <2>3, SavedFrame
  <2>4. CASE shown'[f] # shown[f]
    <3>1. PICK text \in Text : LeaveTitle(r, text) \/ LeaveDescription(r, text)
      BY <2>4 DEF User, ToggleLabel, Post, Delete, fields
    <3>2. PICK k \in Field, value \in Text :
            Send(r, [kind |-> k, value |-> value]) /\ shown' = [shown EXCEPT ![k] = text]
      BY <3>1, LeaveSends
    <3>3. k = f
      BY <2>4, <3>2 DEF FieldsType
    <3>4. stage'[r] = "sent" /\ req'[r].kind = f
      BY <3>2, <3>3 DEF Send, RequestsType
    <3> QED BY <3>4 DEF Saved, Unsent
  <2> QED BY <2>3, <2>4
<1> QED BY <1>1 DEF FieldsStored

\* A title that is not sent is blank or stored, or the cached one is recorded as old.
LEMMA LeaveUnsentSaved ==
  ASSUME Types, FieldsStored, NEW text \in Text, LeaveUnsent(text)
  PROVE  FieldsStored'
<1> USE DEF Types
<1>1. ASSUME NEW f \in Field PROVE Saved(f)'
  <2>1. /\ Saved(f) /\ UNCHANGED <<row, stage, req>> /\ shown' = [shown EXCEPT !["title"] = text]
        /\ trim[text] = Blank \/ text = data["task"].title
        /\ outdated' = IF row # None /\ trim[text] # Blank /\ row.title # data["task"].title
                         THEN outdated \cup {"title"} ELSE outdated
    BY <1>1 DEF LeaveUnsent, FieldsStored, tables, request
  <2>2. Unsent(f)' => Unsent(f)
    BY <2>1 DEF Unsent
  <2>3. CASE f # "title"
    <3>1. shown'[f] = shown[f]
      BY <2>1, <2>3 DEF FieldsType
    <3> QED BY <2>1, <2>2, <3>1, SavedFrame
  <2>4. CASE f = "title"
    <3>1. shown'[f] = text
      BY <2>1, <2>4 DEF FieldsType
    <3>2. CASE trim[text] = Blank
      BY <2>4, <3>1, <3>2 DEF Saved, Stands
    <3>3. CASE row = None
      BY <2>1, <3>3 DEF Saved
    <3>4. CASE row # None /\ trim[text] # Blank /\ row.title # data["task"].title
      BY <2>1, <2>4, <3>4 DEF Saved
    <3>5. CASE trim[text] # Blank /\ row.title = data["task"].title
      <4>1. row'.title = text
        BY <2>1, <3>5
      <4> QED BY <2>4, <3>1, <4>1 DEF Saved, Stands, Agrees
    <3> QED BY <3>2, <3>3, <3>4, <3>5
  <2> QED BY <2>3, <2>4
<1> QED BY <1>1 DEF FieldsStored

\* A commit stores what the field shows, or is recorded.
LEMMA CommitSaved ==
  ASSUME Types, FieldsStored, NEW r \in Req, Commit(r)
  PROVE  FieldsStored'
<1> USE DEF Types
<1>1. /\ stage' = [stage EXCEPT ![r] = "ok"] /\ req' = [req EXCEPT ![r] = [kind |-> req[r].kind]]
      /\ stage[r] = "sent" /\ row # None /\ UNCHANGED shown
  BY DEF Commit, RequestsType
<1>2. ASSUME NEW f \in Field, req[r].kind # f
      PROVE  Unsent(f)' => Unsent(f)
  BY <1>1, <1>2 DEF Unsent, RequestsType
<1>3. CASE req[r].kind \in Patches /\ CommitPatch(r)
  <2>1. ASSUME NEW f \in Field PROVE Saved(f)'
    <3>1. CASE req[r].kind # f
      <4>1. row'[f] = row[f]
        BY <1>1, <1>3, <3>1, PatchedRow
      <4>2. f \in outdated => f \in outdated'
        BY <1>3, <3>1 DEF CommitPatch
      <4> QED BY <1>1, <1>2, <3>1, <4>1, <4>2, SavedFrame DEF FieldsStored
    <3>2. CASE req[r].kind = f
      <4>1. f # "labels"
        BY DEF Field
      <4>2. row' = [row EXCEPT ![f] = req[r].value]
        BY <1>3, <3>2, <4>1 DEF CommitPatch
      <4>3. shown[f] # None => (outdated' = IF Agrees(f, shown[f], row'[f]) THEN outdated \ {f} ELSE outdated \cup {f})
        BY <1>3, <3>2, <4>1, <4>2 DEF CommitPatch
      <4>4. f \notin outdated' /\ shown[f] # None => Agrees(f, shown[f], row'[f])
        BY <4>3
      <4> QED BY <1>1, <4>4 DEF Saved, Stands, Agrees
    <3> QED BY <3>1, <3>2
  <2> QED BY <2>1 DEF FieldsStored
<1>4. CASE req[r].kind = "post" /\ UNCHANGED <<row, outdated>>
  <2>1. ASSUME NEW f \in Field PROVE Saved(f)'
    BY <1>1, <1>2, <1>4, SavedFrame DEF FieldsStored, Field
  <2> QED BY <2>1 DEF FieldsStored
<1>5. CASE row' = None
  BY <1>5 DEF FieldsStored, Saved
<1> QED BY <1>3, <1>4, <1>5 DEF Commit

\* A request that is over was not the one that a field waits for.
LEMMA SettledUnsent ==
  ASSUME RequestsType, NEW r \in Req, Settled(r), NEW f, ~ (stage[r] = "sent" /\ req[r].kind = f)
  PROVE  Unsent(f)' => Unsent(f)
BY DEF Settled, Unsent, RequestsType

\* A request that fails before its commit leaves its field recorded.
LEMMA ServedSaved ==
  ASSUME Types, FieldsStored, NEW r \in Req, Reply(r) \/ RequestFails(r)
  PROVE  FieldsStored'
<1> USE DEF Types
<1>1. Settled(r) /\ UNCHANGED row
  BY DEF Reply, RequestFails, tables
<1>2. ASSUME Reply(r), NEW f \in Field PROVE Saved(f)'
  <2>1. Unsent(f)' => Unsent(f)
    BY <1>1, <1>2, SettledUnsent DEF Reply
  <2>2. CASE UNCHANGED <<shown, outdated>>
    BY <1>1, <2>1, <2>2, SavedFrame DEF FieldsStored
  <2>3. CASE Close
    BY <2>3 DEF Close, Saved
  <2> QED BY <1>2, <2>2, <2>3 DEF Reply, fields
<1>3. ASSUME RequestFails(r), NEW f \in Field PROVE Saved(f)'
  <2>1. UNCHANGED shown /\ (f \in outdated => f \in outdated')
    BY <1>3 DEF RequestFails
  <2>2. CASE stage[r] = "sent" /\ req[r].kind = f
    BY <1>1, <1>3, <2>1, <2>2 DEF RequestFails, Saved
  <2>3. CASE ~ (stage[r] = "sent" /\ req[r].kind = f)
    BY <1>1, <2>1, <2>3, SettledUnsent, SavedFrame DEF FieldsStored
  <2> QED BY <2>2, <2>3
<1> QED BY <1>2, <1>3 DEF FieldsStored

\* Every step keeps the fields.
LEMMA SavedStep ==
  ASSUME Types, FieldsStored, [Next]_vars
  PROVE  FieldsStored'
<1>1. CASE UNCHANGED vars
  <2>1. UNCHANGED <<row, stage, req, shown, outdated>>
    BY <1>1 DEF vars, tables, request, fields
  <2> QED BY <2>1 DEF FieldsStored, Saved, Unsent, Stands, Agrees
<1> QED
  BY <1>1, PagesSaved, OthersSaved, UserSaved, LeaveUnsentSaved, CommitSaved, ServedSaved
     DEF Next, Served

-----------------------------------------------------------------------------
(* What clicks on labels come to.                                          *)

\* A click on its way carries the labels of the row, but for its own label and
\* for those that it is recorded to know nothing of.
Known(r) ==
  stage[r] = "sent" /\ req[r].kind = "labels" /\ row # None
    => /\ Differ(req[r].value, row.labels) \subseteq unseen[r] \cup {req[r].label}
       /\ req[r].on <=> req[r].label \in req[r].value

Clicks == LabelsAsClicked /\ \A r \in Req : Known(r)

\* A click to which nothing happens, while the labels stay.
LEMMA KnownFrame ==
  ASSUME NEW r \in Req, Known(r), stage'[r] = stage[r], req'[r] = req[r], unseen'[r] = unseen[r],
         row' # None => row # None /\ row'.labels = row.labels
  PROVE  Known(r)'
BY DEF Known, Differ

\* A click that is not on its way.
LEMMA NotOnItsWay ==
  ASSUME NEW r \in Req, stage'[r] # "sent" \/ req'[r].kind # "labels" \/ row' = None
  PROVE  Known(r)'
BY DEF Known

\* Labels that stay are still as they were clicked.
LEMMA LabelsFrame ==
  ASSUME LabelsAsClicked, UNCHANGED <<clicked, lost>>, row' # None => row # None /\ row'.labels = row.labels
  PROVE  LabelsAsClicked'
BY DEF LabelsAsClicked

\* A set written over the labels, that differs from them by the label that was
\* clicked and by the others that are recorded as lost.
LEMMA WrittenLabels ==
  ASSUME LabelsAsClicked, row # None, row' # None, NEW l \in Label, NEW others \in SUBSET Label,
         NEW later, Written(l, l \in row'.labels, others, later),
         Differ(row'.labels, row.labels) \subseteq others \cup {l}
  PROVE  LabelsAsClicked'
<1>1. lost' = (lost \cup others) \ {l}
  BY DEF Written
<1>2. \A x : x \in clicked' <=> IF x = l THEN l \in row'.labels ELSE x \in clicked
  BY DEF Written
<1>3. \A x : x # l /\ x \notin others => (x \in row'.labels <=> x \in row.labels)
  BY DEF Differ
<1>4. \A x : x \notin lost => (x \in row.labels <=> x \in clicked)
  BY DEF LabelsAsClicked
<1>5. \A x : x \notin lost' => (x \in row'.labels <=> x \in clicked')
  BY <1>1, <1>2, <1>3, <1>4
<1> QED BY <1>5 DEF LabelsAsClicked

\* The clicks still on their way do not know of it.
LEMMA WrittenKnown ==
  ASSUME HistoryType, NEW r \in Req, Known(r), row # None, NEW l \in Label, NEW on,
         NEW others \in SUBSET Label, NEW later, r \in later, Written(l, on, others, later),
         Differ(row'.labels, row.labels) \subseteq others \cup {l},
         stage'[r] = stage[r], req'[r] = req[r]
  PROVE  Known(r)'
<1> SUFFICES ASSUME stage[r] = "sent", req[r].kind = "labels"
             PROVE  Differ(req[r].value, row'.labels) \subseteq unseen'[r] \cup {req[r].label}
  BY DEF Known
<1>1. unseen'[r] = unseen[r] \cup others \cup {l}
  BY DEF Written, HistoryType
<1>2. Differ(req[r].value, row.labels) \subseteq unseen[r] \cup {req[r].label}
  BY DEF Known
<1>3. Differ(req[r].value, row'.labels)
        \subseteq Differ(req[r].value, row.labels) \cup Differ(row'.labels, row.labels)
  BY DEF Differ
<1> QED BY <1>1, <1>2, <1>3

\* An up to date cache is the row.
LEMMA UpToDateData ==
  ASSUME Types, CachesFresh, open, data["task"] # None, UpToDate
  PROVE  data["task"] = row
<1>1. ~ Due("task")
  BY DEF UpToDate, UnderWay, Due
<1>2. Fresh("task") /\ ~ Excused("task")
  BY DEF CachesFresh, Query, Excused
<1> QED BY <1>1, <1>2 DEF Fresh, UpToDate, Table

\* A click computes its set from an up to date cache, or what it does not know is
\* recorded.
LEMMA UserClicks ==
  ASSUME Types, HistoryType, CachesFresh, Clicks, NEW p \in Req, User(p)
  PROVE  Clicks'
<1> USE DEF Types
<1>1. UNCHANGED <<row, clicked, lost>>
  BY DEF User, ToggleLabel, LeaveTitle, LeaveDescription, Post, Delete, tables, history
<1>2. LabelsAsClicked'
  BY <1>1, LabelsFrame DEF Clicks
<1>3. ASSUME NEW r \in Req, r # p PROVE Known(r)'
  <2>1. stage'[r] = stage[r] /\ req'[r] = req[r]
    BY <1>3 DEF User, ToggleLabel, LeaveTitle, LeaveDescription, Post, Delete, Send, RequestsType
  <2>2. unseen'[r] = unseen[r]
    BY <1>3 DEF User, ToggleLabel, LeaveTitle, LeaveDescription, Post, Delete, HistoryType, history
  <2> QED BY <1>1, <2>1, <2>2, KnownFrame DEF Clicks
<1>4. Known(p)'
  <2>1. ASSUME NEW l \in Label, ToggleLabel(p, l)
        PROVE  Known(p)'
    <3> DEFINE seen == data["task"].labels
    <3>1. seen \in SUBSET Label
      BY <2>1, ClickSends
    <3>2. /\ req'[p].value = Toggled(seen, l) /\ req'[p].label = l /\ (req'[p].on <=> l \notin seen)
      BY <2>1 DEF ToggleLabel, Send, RequestsType
    <3>3. Toggled(seen, l) = (IF l \in seen THEN seen \ {l} ELSE seen \cup {l})
      BY DEF Toggled
    <3>4. unseen'[p] = IF UpToDate \/ row = None THEN {} ELSE Differ(row.labels, seen)
      BY <2>1 DEF ToggleLabel, HistoryType
    <3>5. row # None /\ UpToDate => seen = row.labels
      BY <2>1, UpToDateData DEF ToggleLabel
    <3>6. row # None => Differ(row.labels, seen) \subseteq unseen'[p]
      BY <3>4, <3>5 DEF Differ
    <3> HIDE DEF seen
    <3>7. Differ(Toggled(seen, l), row.labels) \subseteq Differ(row.labels, seen) \cup {l}
      BY <3>3 DEF Differ
    <3>8. req'[p].on <=> req'[p].label \in req'[p].value
      BY <3>2, <3>3
    <3> QED BY <1>1, <3>2, <3>6, <3>7, <3>8 DEF Known
  <2>2. ASSUME NEW text \in Text, LeaveTitle(p, text) \/ LeaveDescription(p, text)
        PROVE  Known(p)'
    <3>1. req'[p].kind \in Field
      BY <2>2 DEF LeaveTitle, LeaveDescription, Send, RequestsType, Field
    <3> QED BY <3>1, NotOnItsWay DEF Field
  <2>3. CASE Post(p) \/ Delete(p)
    <3>1. req'[p].kind # "labels"
      BY <2>3 DEF Post, Delete, Send, RequestsType
    <3> QED BY <3>1, NotOnItsWay
  <2> QED BY <2>1, <2>2, <2>3 DEF User
<1> QED BY <1>2, <1>3, <1>4 DEF Clicks

\* What others click is something that the clicks on their way do not know.
LEMMA OthersClicks ==
  ASSUME Types, HistoryType, Clicks, Others
  PROVE  Clicks'
<1> USE DEF Types
<1>1. UNCHANGED <<stage, req>>
  BY DEF Others, RelabelByOthers, EditByOthers, PostByOthers, DeleteByOthers, request
<1>2. ASSUME NEW l \in Label, RelabelByOthers(l) PROVE Clicks'
  <2>1. row \in TaskRead /\ row # None
    BY <1>2 DEF RelabelByOthers, TablesType
  <2>2. row.labels \in SUBSET Label
    BY <2>1 DEF TaskRead
  <2> DEFINE labels == IF l \in row.labels THEN row.labels \ {l} ELSE row.labels \cup {l}
  <2>3. row' = [row EXCEPT !.labels = labels] /\ labels \in SUBSET Label
    BY <1>2, <2>2 DEF RelabelByOthers
  <2>4. row' \in TaskRead /\ row'.labels = labels
    BY <2>1, <2>3, Relabelled
  <2>5. row' # None
    BY <2>4, NoneIsNothing
  <2>6. Differ(row'.labels, row.labels) \subseteq {} \cup {l} /\ (l \in row'.labels <=> l \notin row.labels)
    BY <2>4 DEF Differ
  <2>7. Written(l, l \notin row.labels, {}, Sent({"labels"}))
    BY <1>2 DEF RelabelByOthers
  <2> HIDE DEF labels
  <2>8. LabelsAsClicked'
    <3>1. Written(l, l \in row'.labels, {}, Sent({"labels"}))
      BY <2>6, <2>7 DEF Written
    <3> QED BY <2>1, <2>5, <2>6, <3>1, WrittenLabels DEF Clicks
  <2>9. ASSUME NEW r \in Req PROVE Known(r)'
    <3>1. CASE r \in Sent({"labels"})
      BY <1>1, <2>1, <2>6, <2>7, <3>1, WrittenKnown DEF Clicks
    <3>2. CASE r \notin Sent({"labels"})
      BY <1>1, <3>2, NotOnItsWay DEF Sent
    <3> QED BY <3>1, <3>2
  <2> QED BY <2>8, <2>9 DEF Clicks
<1>3. ASSUME UNCHANGED history, row' # None => row # None /\ row'.labels = row.labels
      PROVE  Clicks'
  BY <1>1, <1>3, KnownFrame, LabelsFrame DEF Clicks, history
<1>4. ASSUME NEW f \in Field, NEW text \in Text, EditByOthers(f, text) PROVE Clicks'
  <2>1. row \in TaskRead /\ row # None
    BY <1>4 DEF EditByOthers, TablesType
  <2>2. row'.labels = row.labels /\ UNCHANGED history
    BY <1>4, <2>1, Edited DEF EditByOthers
  <2> QED BY <1>3, <2>1, <2>2
<1>5. CASE PostByOthers
  BY <1>3, <1>5 DEF PostByOthers
<1>6. CASE DeleteByOthers
  BY <1>6, NotOnItsWay DEF DeleteByOthers, Clicks, LabelsAsClicked
<1> QED BY <1>2, <1>4, <1>5, <1>6 DEF Others

\* The commit of a click writes its own label and loses at most what it did not
\* know; other commits leave the labels alone.
LEMMA CommitClicks ==
  ASSUME Types, HistoryType, Clicks, NEW p \in Req, Commit(p)
  PROVE  Clicks'
<1> USE DEF Types
<1>1. /\ stage[p] = "sent" /\ stage'[p] = "ok" /\ row # None
      /\ \A r \in Req \ {p} : stage'[r] = stage[r] /\ req'[r] = req[r]
  BY DEF Commit, RequestsType
<1>2. Known(p)'
  BY <1>1, NotOnItsWay
<1>3. CASE req[p].kind = "labels" /\ CommitPatch(p)
  <2>1. req[p].label \in Label /\ unseen[p] \in SUBSET Label
    BY <1>1, <1>3, SentRequest DEF Click, HistoryType
  <2>2. row' \in TaskRead /\ row'.labels = req[p].value
    BY <1>1, <1>3, PatchedRow DEF Patches
  <2>3. Written(req[p].label, req[p].on, unseen[p], Sent({"labels"}) \ {p})
    BY <1>3 DEF CommitPatch
  <2>4. Differ(row'.labels, row.labels) \subseteq unseen[p] \cup {req[p].label}
    BY <1>1, <1>3, <2>2 DEF Clicks, Known
  <2>5. req[p].on <=> req[p].label \in row'.labels
    BY <1>1, <1>3, <2>2 DEF Clicks, Known
  <2>6. LabelsAsClicked'
    <3>1. Written(req[p].label, req[p].label \in row'.labels, unseen[p], Sent({"labels"}) \ {p})
      BY <2>3, <2>5 DEF Written
    <3>2. row' # None
      BY <2>2, NoneIsNothing
    <3> QED BY <1>1, <2>1, <2>4, <3>1, <3>2, WrittenLabels DEF Clicks
  <2>7. ASSUME NEW r \in Req \ {p} PROVE Known(r)'
    <3>1. CASE r \in Sent({"labels"})
      BY <1>1, <2>1, <2>3, <2>4, <3>1, WrittenKnown DEF Clicks
    <3>2. CASE r \notin Sent({"labels"})
      BY <1>1, <3>2, NotOnItsWay DEF Sent
    <3> QED BY <3>1, <3>2
  <2> QED BY <1>2, <2>6, <2>7 DEF Clicks
<1>4. ASSUME UNCHANGED history, row' # None => row'.labels = row.labels
      PROVE  Clicks'
  <2>1. ASSUME NEW r \in Req \ {p} PROVE Known(r)'
    BY <1>1, <1>4, KnownFrame DEF Clicks, history
  <2> QED BY <1>1, <1>2, <1>4, <2>1, LabelsFrame DEF Clicks, history
<1>5. CASE req[p].kind \in Field /\ CommitPatch(p)
  <2>1. req[p].kind # "labels" /\ req[p].kind \in Patches
    BY <1>5 DEF Field, Patches
  <2>2. row'.labels = row.labels
    BY <1>1, <1>5, <2>1, PatchedRow
  <2>3. UNCHANGED history
    BY <1>5, <2>1 DEF CommitPatch
  <2> QED BY <1>4, <2>2, <2>3
<1>6. CASE UNCHANGED <<row, history>>
  BY <1>4, <1>6
<1>7. CASE row' = None
  BY <1>7, NotOnItsWay DEF Clicks, LabelsAsClicked
<1> QED BY <1>3, <1>5, <1>6, <1>7 DEF Commit, Patches

\* The other steps touch neither the labels nor what is sent.
LEMMA RestClicks ==
  ASSUME Types, HistoryType, Clicks,
         \/ \E q \in Query : Answered(q) \/ Focus(q)
         \/ OpenPanel \/ ClosePanel \/ Deliver \/ Undelivered
         \/ \E text \in Text : LeaveUnsent(text)
         \/ \E p \in Req : Reply(p) \/ RequestFails(p)
  PROVE  Clicks'
<1> USE DEF Types
<1>1. CASE UNCHANGED <<stage, req, history, row>>
  BY <1>1, KnownFrame, LabelsFrame DEF Clicks, history
<1>2. ASSUME NEW p \in Req, Reply(p) \/ RequestFails(p) PROVE Clicks'
  <2>1. Settled(p) /\ UNCHANGED <<row, clicked, lost>>
    BY <1>2 DEF Reply, RequestFails, tables, Settled
  <2>2. ASSUME NEW r \in Req PROVE Known(r)'
    <3>1. CASE r = p
      BY <2>1, <3>1, NotOnItsWay DEF Settled, RequestsType
    <3>2. CASE r # p
      <4>1. stage'[r] = stage[r] /\ req'[r] = req[r] /\ unseen'[r] = unseen[r]
        BY <2>1, <3>2 DEF Settled, RequestsType, HistoryType
      <4> QED BY <2>1, <4>1, KnownFrame DEF Clicks
    <3> QED BY <3>1, <3>2
  <2> QED BY <2>1, <2>2, LabelsFrame DEF Clicks
<1>3. \/ UNCHANGED <<stage, req, history, row>>
      \/ \E p \in Req : Reply(p) \/ RequestFails(p)
  BY DEF Answered, Read, Receive, FetchFails, Focus, OpenPanel, ClosePanel, Deliver, Undelivered,
         LeaveUnsent, tables, request
<1> QED BY <1>1, <1>2, <1>3

\* Every step keeps the labels as they were clicked.
LEMMA ClicksStep ==
  ASSUME Types, HistoryType, CachesFresh, Clicks, [Next]_vars
  PROVE  Clicks'
<1>1. CASE UNCHANGED vars
  <2>1. UNCHANGED <<stage, req, history, row>>
    BY <1>1 DEF vars, tables, request
  <2> QED BY <2>1, KnownFrame, LabelsFrame DEF Clicks, history
<1> QED BY <1>1, UserClicks, OthersClicks, CommitClicks, RestClicks DEF Next, Served

-----------------------------------------------------------------------------
(* The theorems.                                                           *)

\* The inductive invariant.
IInv == Types /\ HistoryType /\ CachesFresh /\ FieldsStored /\ Clicks

\* The inductive invariant holds in every state.
LEMMA Inductive == Spec => []IInv
<1>1. Init => IInv
  <2> SUFFICES ASSUME Init PROVE IInv
    OBVIOUS
  <2>1. Types /\ HistoryType
    BY InitTypes
  <2>2. CachesFresh
    BY DEF Init, CachesFresh, Fresh, Excused, Query
  <2>3. FieldsStored
    BY DEF Init, FieldsStored, Saved
  <2>4. Clicks
    BY DEF Init, Clicks, LabelsAsClicked, Known
  <2> QED BY <2>1, <2>2, <2>3, <2>4 DEF IInv
<1>2. IInv /\ [Next]_vars => IInv'
  BY TypeStep, HistoryStep, FreshStep, SavedStep, ClicksStep DEF IInv
<1> QED BY <1>1, <1>2, PTL DEF Spec

\* The panel is well typed for any task, texts and requests; in particular it has
\* fields only while it is open with a task.
THEOREM TypeCorrect == Spec => []TypeOK
<1>1. IInv => TypeOK
  BY TypesAreOK DEF IInv
<1> QED BY <1>1, Inductive, PTL

\* An open panel at rest shows the task and its log, whatever was fetched while
\* what was changed, except for the recorded misses.
THEOREM PanelAlwaysShowsTables == Spec => []PanelShowsTables
<1>1. IInv => PanelShowsTables
  <2> SUFFICES ASSUME IInv, open, Quiet, NEW q \in Query \ missed, fetch[q] = "idle"
               PROVE  data[q] = Table(q)
    BY DEF PanelShowsTables
  <2>1. ~ Due(q) /\ ~ Excused(q)
    BY DEF Quiet, Due, Excused
  <2> QED BY <2>1 DEF IInv, CachesFresh, Fresh
<1> QED BY <1>1, Inductive, PTL

\* Every label is as the last click on it left it, for any number of labels and of
\* clicks under way, but for the labels that a set has been written over without
\* knowing them.
THEOREM LabelsAlwaysAsClicked == Spec => []LabelsAsClicked
<1>1. IInv => LabelsAsClicked
  BY DEF IInv, Clicks
<1> QED BY <1>1, Inductive, PTL

\* What stands in the title and description fields is stored once no request for
\* them is under way, a title but for the spaces around it and unless it was left
\* blank, except for the recorded cases.
THEOREM FieldsAreSaved == Spec => []FieldsSaved
<1>1. IInv => FieldsSaved
  <2> SUFFICES ASSUME IInv, NEW f \in Field \ outdated, row # None, shown[f] # None, UnderWay({f}) = {}
               PROVE  Agrees(f, shown[f], row[f]) \/ (f = "title" /\ trim[shown[f]] = Blank)
    BY DEF FieldsSaved
  <2>1. Unsent(f)
    BY DEF UnderWay, Unsent
  <2> QED BY <2>1 DEF IInv, FieldsStored, Saved, Stands
<1> QED BY <1>1, Inductive, PTL
=============================================================================
