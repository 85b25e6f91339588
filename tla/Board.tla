------------------------------- MODULE Board --------------------------------
(***************************************************************************)
(* The board of a project in one tab (ProjectPage.tsx, KanbanBoard.tsx):   *)
(* the cached list of tasks, the drags that change it before the server    *)
(* has agreed, and the events and responses that make it be fetched again. *)
(* A task is its column; what happens to a request on the server is the    *)
(* business of module Tasks.  useQuery, useMutation and the QueryClient are *)
(* external (TanStack Query 5).                                            *)
(***************************************************************************)
EXTENDS Naturals, FiniteSets

CONSTANTS
  Task,        \* ids of tasks
  Column,      \* statuses of tasks
  Move,        \* drags whose request can be under way
  None,        \* a list that has never been loaded, a drag that is not there
  MaxEvents,   \* bound: requests and events under way
  MaxFailures  \* bound: fetches, publishes and requests that fail

\* What a list of tasks can show.
Lists == UNION {[S -> Column] : S \in SUBSET Task}

\* What the page remembers of a drag whose request is under way.
Drags == [card : Task, to : Column, before : Lists]

ASSUME NoneAssumption == None \notin Lists /\ None \notin Drags

VARIABLES
  row,         \* the column of a task, or "new" before and "gone" after it has one
  wire,        \* how many events are on their way to the tab, from the commit on
  fetch, ans, data, \* the query: its request, the answer under way, the cache
  error,       \* the last fetch has failed: there is a message and no board
  missed,      \* something changed that nobody tells the tab
  stage, drag, \* each drag: its request; its card, its column and the list before it
  own,         \* where a request of the form or of the detail panel stands
  overtaken,   \* drags after which something else has written the list or asked for it
  failures

query == <<fetch, ans, data, error>>
moves == <<stage, drag>>
vars == <<row, wire, query, missed, moves, own, overtaken, failures>>

\* task_crud.list_by_project, with the status of every task.
Listed == [t \in {u \in Task : row[u] \in Column} |-> row[t]]

Init ==
  /\ row \in [Task -> Column \cup {"new"}]
  /\ wire = 0
  /\ fetch = "asked" /\ ans = None /\ data = None /\ error = FALSE
  /\ missed = FALSE
  /\ stage = [m \in Move |-> "idle"]
  /\ drag = [m \in Move |-> None]
  /\ own = "idle" /\ overtaken = {} /\ failures = 0

MayFail == failures < MaxFailures /\ failures' = failures + 1

UnderWay == {m \in Move : stage[m] # "idle"}

Room == wire + Cardinality(UnderWay) + (IF own = "idle" THEN 0 ELSE 1) < MaxEvents

-----------------------------------------------------------------------------
(* The query.                                                              *)

\* Nobody will tell the tab: its list is out of date, unless the server has yet
\* to read for it.
Unnoticed == missed' = (missed \/ fetch # "asked")

\* A request is sent, with the drags ms under way.  Without a list the page
\* shows that it is loading.
Fetch(ms) ==
  /\ fetch' = "asked" /\ ans' = None
  /\ error' = (error /\ data # None)
  /\ missed' = FALSE
  /\ overtaken' = ms

\* Wrong version: a request under way is left alone.
InvalidateIdle(ms) ==
  /\ IF fetch = "idle" THEN Fetch(ms)
                      ELSE UNCHANGED <<fetch, ans, error, missed>> /\ overtaken' = overtaken \cap ms
  /\ UNCHANGED data

\* invalidateQueries(tasksQueryKey).  A request under way is dropped for a new
\* one, unless it is the first: then it goes on, whatever the server had read
\* by then.
Invalidate(ms) ==
  /\ \/ /\ fetch = "idle" \/ data # None
        /\ Fetch(ms)
     \/ /\ fetch # "idle" /\ data = None
        /\ missed' = (missed \/ fetch = "answered")
        /\ overtaken' = overtaken \cap ms
        /\ UNCHANGED <<fetch, ans, error>>
  /\ UNCHANGED data

\* The server reads for the request.
Read ==
  /\ fetch = "asked" /\ fetch' = "answered"
  /\ ans' = Listed
  /\ UNCHANGED <<row, wire, data, error, missed, moves, own, overtaken, failures>>

\* The answer arrives.
Receive ==
  /\ fetch = "answered" /\ fetch' = "idle"
  /\ data' = ans /\ ans' = None /\ error' = FALSE
  /\ UNCHANGED <<row, wire, missed, moves, own, overtaken, failures>>

\* The request fails twice (retry: 1); the list is kept but not shown.
FetchFails ==
  /\ fetch # "idle" /\ MayFail
  /\ fetch' = "idle" /\ ans' = None /\ error' = TRUE
  /\ missed' = TRUE
  /\ UNCHANGED <<row, wire, data, moves, own, overtaken>>

\* The window gets the focus, or the browser its connection, after more than
\* staleTime.
Focus ==
  /\ fetch = "idle"
  /\ Fetch(UnderWay)
  /\ UNCHANGED <<row, wire, data, moves, own, failures>>

-----------------------------------------------------------------------------
(* Changes by others, and the tab's other requests.                        *)

\* A task is created, changes its column or another field, or is deleted.
Changes(t, c) ==
  /\ \/ row[t] = "new" /\ c \in Column
     \/ row[t] \in Column /\ c \in Column \cup {"gone"}
  /\ row' = [row EXCEPT ![t] = c]

\* Somebody else's request commits.
ChangeByOthers(t, c) ==
  /\ Room /\ wire' = wire + 1
  /\ Changes(t, c)
  /\ UNCHANGED <<query, missed, moves, own, overtaken, failures>>

\* An event arrives: the callback of useProjectSocket invalidates the list.
Deliver ==
  /\ wire > 0 /\ wire' = wire - 1
  /\ Invalidate(UnderWay)
  /\ UNCHANGED <<row, moves, own, failures>>

\* The event is not published (Redis raises, or the process ends, after the
\* commit), or the tab's socket is down or lost meanwhile; its next one does not
\* catch up.
Undelivered ==
  /\ wire > 0 /\ wire' = wire - 1
  /\ Unnoticed
  /\ UNCHANGED <<row, query, moves, own, overtaken, failures>>

\* The tab's form creates a task, or its panel changes or deletes one.
ChangeByOwn(t, c) ==
  /\ own = "idle" /\ own' = "reply" /\ Room
  /\ Changes(t, c) /\ wire' = wire + 1
  /\ UNCHANGED <<query, missed, moves, overtaken, failures>>

\* onSuccess of createTaskMutation, updateMutation and deleteMutation.
OwnSucceeds ==
  /\ own = "reply" /\ own' = "idle"
  /\ Invalidate(UnderWay)
  /\ UNCHANGED <<row, wire, moves, failures>>

\* They have no onError.
OwnFails ==
  /\ own = "reply" /\ own' = "idle" /\ MayFail
  /\ UNCHANGED <<row, wire, query, missed, moves, overtaken>>

-----------------------------------------------------------------------------
(* Drags.                                                                  *)

\* Wrong version: a fetch under way is not cancelled.
DropOnly(m, t, c) ==
  /\ stage[m] = "idle" /\ Room
  /\ data # None /\ ~ error /\ t \in DOMAIN data /\ data[t] # c
  /\ data' = [data EXCEPT ![t] = c]
  /\ stage' = [stage EXCEPT ![m] = "sent"]
  /\ drag' = [drag EXCEPT ![m] = [card |-> t, to |-> c, before |-> data]]
  /\ overtaken' = overtaken \cup {n \in UnderWay : drag[n].card = t}
  /\ UNCHANGED <<row, wire, fetch, ans, error, missed, own, failures>>

\* handleDragEnd of a card of the list, over another column, and onMutate: a
\* fetch under way is cancelled, the list is remembered and changed, and the
\* PATCH is sent.
Drop(m, t, c) ==
  /\ stage[m] = "idle" /\ Room
  /\ data # None /\ ~ error /\ t \in DOMAIN data /\ data[t] # c
  /\ fetch' = "idle" /\ ans' = None
  /\ data' = [data EXCEPT ![t] = c]
  /\ stage' = [stage EXCEPT ![m] = "sent"]
  /\ drag' = [drag EXCEPT ![m] = [card |-> t, to |-> c, before |-> data]]
  /\ overtaken' = overtaken \cup {n \in UnderWay : drag[n].card = t}
  /\ UNCHANGED <<row, wire, error, missed, own, failures>>

\* update_task commits; only a change is published.
CommitMove(m) ==
  /\ stage[m] = "sent" /\ row[drag[m].card] \in Column
  /\ row' = [row EXCEPT ![drag[m].card] = drag[m].to]
  /\ wire' = IF row[drag[m].card] = drag[m].to THEN wire ELSE wire + 1
  /\ stage' = [stage EXCEPT ![m] = "ok"]
  /\ UNCHANGED <<query, missed, drag, own, overtaken, failures>>

\* 404 for a task that has been deleted.
RejectMove(m) ==
  /\ stage[m] = "sent" /\ row[drag[m].card] = "gone"
  /\ stage' = [stage EXCEPT ![m] = "bad"]
  /\ UNCHANGED <<row, wire, query, missed, drag, own, overtaken, failures>>

\* The request fails before its commit, or after it (its event cannot be
\* published, its response is lost).
MoveFails(m) ==
  /\ stage[m] \in {"sent", "ok"} /\ MayFail
  /\ stage' = [stage EXCEPT ![m] = "bad"]
  /\ UNCHANGED <<row, wire, query, missed, drag, own, overtaken>>

\* onSettled after a success.
SettleOK(m) ==
  /\ stage[m] = "ok"
  /\ stage' = [stage EXCEPT ![m] = "idle"]
  /\ drag' = [drag EXCEPT ![m] = None]
  /\ Invalidate(UnderWay \ {m})
  /\ UNCHANGED <<row, wire, own, failures>>

\* Wrong version: the list is fetched again after a success only.
RollBackOnly(m) ==
  /\ stage[m] = "bad"
  /\ stage' = [stage EXCEPT ![m] = "idle"]
  /\ data' = drag[m].before /\ error' = FALSE
  /\ drag' = [drag EXCEPT ![m] = None]
  /\ overtaken' = UnderWay \ {m}
  /\ UNCHANGED <<row, wire, fetch, ans, missed, own, failures>>

\* onError, which writes the remembered list back, and onSettled.
RollBack(m) ==
  /\ stage[m] = "bad"
  /\ stage' = [stage EXCEPT ![m] = "idle"]
  /\ data' = drag[m].before
  /\ fetch' = "asked" /\ ans' = None /\ error' = FALSE
  /\ missed' = FALSE
  /\ drag' = [drag EXCEPT ![m] = None]
  /\ overtaken' = UnderWay \ {m}
  /\ UNCHANGED <<row, wire, own, failures>>

-----------------------------------------------------------------------------
Server(m) == CommitMove(m) \/ RejectMove(m)
Settle(m) == SettleOK(m) \/ RollBack(m)

Next ==
  \/ \E t \in Task, c \in Column \cup {"gone"} : ChangeByOthers(t, c) \/ ChangeByOwn(t, c)
  \/ Deliver \/ Undelivered \/ OwnSucceeds \/ OwnFails \/ Read \/ Receive \/ FetchFails \/ Focus
  \/ \E m \in Move : Server(m) \/ Settle(m) \/ MoveFails(m)
  \/ \E m \in Move, t \in Task, c \in Column : Drop(m, t, c)

Spec == Init /\ [][Next]_vars

\* Handlers, the listener and the browser go on; people and failures are not
\* relied upon.
Fairness ==
  /\ WF_vars(Deliver \/ Undelivered)
  /\ WF_vars(Read \/ Receive) /\ WF_vars(OwnSucceeds)
  /\ \A m \in Move : WF_vars(Server(m) \/ Settle(m))

FairSpec == Spec /\ Fairness

-----------------------------------------------------------------------------
(* Properties.                                                             *)

\* Every variable has its type.
TypeOK ==
  /\ row \in [Task -> Column \cup {"new", "gone"}]
  /\ wire \in Nat
  /\ fetch \in {"idle", "asked", "answered"}
  /\ ans \in Lists \cup {None} /\ data \in Lists \cup {None}
  /\ error \in BOOLEAN /\ missed \in BOOLEAN
  /\ stage \in [Move -> {"idle", "sent", "ok", "bad"}]
  /\ drag \in [Move -> Drags \cup {None}]
  /\ \A m \in UnderWay : drag[m] \in Drags
  /\ own \in {"idle", "reply"}
  /\ overtaken \subseteq UnderWay /\ failures \in Nat

\* The tab will still be told of something, or has not heard of its own requests.
Pending == wire > 0 \/ UnderWay # {} \/ own # "idle"

\* A board at rest shows the table, whatever drags failed, were answered out of
\* order or cancelled a fetch on the way: the refetch at the end of every
\* request (onSettled, onSuccess) and of every event makes up for all of them,
\* except for changes that nobody told the tab of.
BoardShowsTable == fetch = "idle" /\ ~ Pending /\ ~ missed => data = Listed

\* A dragged card stays where it was dropped until its request is answered: no
\* fetch that was under way puts it back (the cancelQueries of onMutate).  Only
\* a fetch started since, the rollback of another drag or another drag of the
\* card may.
MoveStaysShown ==
  \A m \in UnderWay \ overtaken : data # None /\ drag[m].card \in DOMAIN data /\ data[drag[m].card] = drag[m].to

\* When events and requests have come to an end, the board shows the table for
\* good, unless the tab has missed something.
BoardSettles == <>[](~ Pending) => <>[](missed \/ data = Listed)
=============================================================================
