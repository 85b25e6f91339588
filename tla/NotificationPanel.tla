-------------------------- MODULE NotificationPanel --------------------------
(***************************************************************************)
(* The bell of a tab (NotificationsPanel.tsx) with the notifications of    *)
(* its user (crud/notification.py), the events that announce new ones      *)
(* (notification_service.create_and_dispatch, the listener, the            *)
(* NotificationConnectionManager) and the buttons that mark them as read.  *)
(* Rows, channel and sockets are per user; the user's other tabs matter    *)
(* only because they mark rows as read as well.  What the notifications    *)
(* are for is the business of module Notifications; no name of that module *)
(* is used here again, so that NotifiedUser can put the two together.      *)
(*                                                                         *)
(* The tab has two queries, "count" for the badge and "list" for the open  *)
(* panel, each with its cached answer.  An event only invalidates them.    *)
(***************************************************************************)
EXTENDS Naturals

CONSTANTS
  Note,        \* ids of notifications
  Click,       \* requests of the panel's buttons that can be under way
  NoData,      \* a query that has never been answered
  MaxLosses  \* bound: dispatches, fetches and clicks that fail

Query == {"count", "list"}

ASSUME NoDataAssumption == \A v \in SUBSET Note : NoData # v

VARIABLES
  inbox, read, \* the rows of the user, and those with a read_at
  sending,    \* rows whose event is not published yet
  wire,       \* how many events are on their way to the tab
  open,       \* its panel is open
  fetch, ans, data, \* each query: its request, the answer under way, the cache
  invalid,    \* the list was invalidated while the panel was closed
  missed,     \* the queries for which something changed that nobody tells
  stage, marks, \* each click: where its request stands, the rows it is for
  failures

table == <<inbox, read, sending>>
clicks == <<stage, marks>>
bell == <<table, wire, open, fetch, ans, data, invalid, missed, clicks, failures>>

BellInit ==
  /\ inbox = {} /\ read = {} /\ sending = {}
  /\ wire = 0 /\ open = FALSE
  /\ fetch = [q \in Query |-> IF q = "count" THEN "asked" ELSE "idle"]
  /\ ans = [q \in Query |-> NoData]
  /\ data = [q \in Query |-> NoData]
  /\ invalid = FALSE /\ missed = {}
  /\ stage = [c \in Click |-> "idle"]
  /\ marks = [c \in Click |-> {}]
  /\ failures = 0

MayFail == failures < MaxLosses /\ failures' = failures + 1

-----------------------------------------------------------------------------
(* The queries (useQuery).                                                 *)

\* What the server answers: unread_count counts these rows, and list_by_user
\* lists these without a read_at; the list has the others as well, which
\* nothing depends on.
Unread == inbox \ read

Enabled(q) == q = "count" \/ open

\* An invalidated query that is enabled is fetched again.  A request already
\* under way is dropped for a new one only if there is a cached answer.
Refetches(q) == Enabled(q) /\ (fetch[q] = "idle" \/ data[q] # NoData)

\* Nobody will tell the tab: its caches are out of date, unless the server has
\* yet to read for it.
Unnoticed == missed' = missed \cup {q \in Query : fetch[q] # "asked"}

\* Wrong version: a request under way is left alone.
InvalidateIdle ==
  /\ fetch' = [q \in Query |-> IF Enabled(q) /\ fetch[q] = "idle" THEN "asked" ELSE fetch[q]]
  /\ missed' = {q \in missed : ~ Enabled(q) \/ fetch[q] # "idle"}
  /\ invalid' = (invalid \/ (~ open /\ fetch["list"] = "idle"))
  /\ UNCHANGED <<open, ans, data>>

\* invalidateQueries(['notifications']).  A request that goes on clears the
\* mark when it is answered, whatever the server had read by then.
Invalidate ==
  /\ fetch' = [q \in Query |-> IF Refetches(q) THEN "asked" ELSE fetch[q]]
  /\ ans' = [q \in Query |-> IF Refetches(q) THEN NoData ELSE ans[q]]
  /\ missed' = {q \in Query : ~ Refetches(q) /\ (q \in missed \/ fetch[q] = "answered")}
  /\ invalid' = (invalid \/ (~ open /\ fetch["list"] = "idle"))
  /\ UNCHANGED <<open, data>>

Fetch(q) ==
  /\ fetch' = [fetch EXCEPT ![q] = "asked"]
  /\ missed' = missed \ {q}

\* The server reads for the request.
Read(q) ==
  /\ fetch[q] = "asked"
  /\ fetch' = [fetch EXCEPT ![q] = "answered"]
  /\ ans' = [ans EXCEPT ![q] = Unread]
  /\ UNCHANGED <<table, wire, open, data, invalid, missed, clicks, failures>>

\* The answer arrives.
Receive(q) ==
  /\ fetch[q] = "answered"
  /\ fetch' = [fetch EXCEPT ![q] = "idle"]
  /\ data' = [data EXCEPT ![q] = ans[q]]
  /\ ans' = [ans EXCEPT ![q] = NoData]
  /\ invalid' = (invalid /\ q # "list")
  /\ UNCHANGED <<table, wire, open, missed, clicks, failures>>

\* The request fails twice (retry: 1); the cache stays as it is.
FetchFails(q) ==
  /\ fetch[q] # "idle" /\ MayFail
  /\ fetch' = [fetch EXCEPT ![q] = "idle"]
  /\ ans' = [ans EXCEPT ![q] = NoData]
  /\ missed' = missed \cup {q}
  /\ UNCHANGED <<table, wire, open, data, invalid, clicks>>

\* The window gets the focus after more than staleTime.
Focus(q) ==
  /\ Enabled(q) /\ fetch[q] = "idle"
  /\ Fetch(q)
  /\ UNCHANGED <<table, wire, open, ans, data, invalid, clicks, failures>>

\* The bell opens the panel.  The list is fetched if it was invalidated, never
\* loaded, or stale, which only a clock can tell.
OpenPanel ==
  /\ ~ open /\ open' = TRUE
  /\ \/ fetch["list"] = "idle" /\ Fetch("list")
     \/ /\ fetch["list"] # "idle" \/ (~ invalid /\ data["list"] # NoData)
        /\ UNCHANGED <<fetch, missed>>
  /\ UNCHANGED <<table, wire, ans, data, invalid, clicks, failures>>

ClosePanel ==
  /\ open /\ open' = FALSE
  /\ UNCHANGED <<table, wire, fetch, ans, data, invalid, missed, clicks, failures>>

-----------------------------------------------------------------------------
(* Dispatch and delivery.                                                  *)

\* create_and_dispatch: the row is committed.
Arrive(n) ==
  /\ n \notin inbox
  /\ inbox' = inbox \cup {n} /\ sending' = sending \cup {n}
  /\ UNCHANGED <<read, wire, open, fetch, ans, data, invalid, missed, clicks, failures>>

\* publish_notification_event reaches the listener of the tab's process.
Announce(n) ==
  /\ n \in sending
  /\ sending' = sending \ {n}
  /\ wire' = wire + 1
  /\ UNCHANGED <<inbox, read, open, fetch, ans, data, invalid, missed, clicks, failures>>

\* Redis raises, or the process ends, after the commit.
AnnounceFails(n) ==
  /\ n \in sending /\ MayFail
  /\ sending' = sending \ {n}
  /\ Unnoticed
  /\ UNCHANGED <<inbox, read, wire, open, fetch, ans, data, invalid, clicks>>

\* send_to_user relays an event to the socket, and the callback of
\* useNotificationSocket invalidates the queries.
Deliver ==
  /\ wire > 0 /\ wire' = wire - 1
  /\ Invalidate
  /\ UNCHANGED <<table, clicks, failures>>

\* The socket is not in the NotificationConnectionManager, or is lost while it
\* is sent to: the tab may be connecting, reconnecting or asleep at any time,
\* and its socket hook does nothing to catch up.
Undelivered ==
  /\ wire > 0 /\ wire' = wire - 1
  /\ Unnoticed
  /\ UNCHANGED <<table, open, fetch, ans, data, invalid, clicks, failures>>

-----------------------------------------------------------------------------
(* The buttons of the panel.                                               *)

\* handleMarkRead: nothing to do for a row that is read in the cached list.
ClickRow(c, n) ==
  /\ stage[c] = "idle" /\ open /\ data["list"] # NoData
  /\ n \in data["list"]
  /\ stage' = [stage EXCEPT ![c] = "commit"]
  /\ marks' = [marks EXCEPT ![c] = {n}]
  /\ UNCHANGED <<table, wire, open, fetch, ans, data, invalid, missed, failures>>

\* handleMarkAllRead, shown for a badge above zero, up to its request.
ClickAll(c) ==
  /\ stage[c] = "idle" /\ open /\ data["count"] # NoData /\ data["count"] # {}
  /\ stage' = [stage EXCEPT ![c] = "select"]
  /\ UNCHANGED <<table, wire, open, fetch, ans, data, invalid, missed, marks, failures>>

\* The SELECT of mark_all_read.
SelectUnread(c) ==
  /\ stage[c] = "select"
  /\ stage' = [stage EXCEPT ![c] = "commit"]
  /\ marks' = [marks EXCEPT ![c] = Unread]
  /\ UNCHANGED <<table, wire, open, fetch, ans, data, invalid, missed, failures>>

\* The UPDATE and commit of mark_read or mark_all_read.
CommitRead(c) ==
  /\ stage[c] = "commit"
  /\ read' = read \cup marks[c]
  /\ stage' = [stage EXCEPT ![c] = "reply"]
  /\ marks' = [marks EXCEPT ![c] = {}]
  /\ UNCHANGED <<inbox, sending, wire, open, fetch, ans, data, invalid, missed, failures>>

\* Wrong version: the response of a click changes nothing.
RepliedSilently(c) ==
  /\ stage[c] = "reply"
  /\ stage' = [stage EXCEPT ![c] = "idle"]
  /\ UNCHANGED <<table, wire, open, fetch, ans, data, invalid, missed, marks, failures>>

\* The response: the queries are invalidated.
Replied(c) ==
  /\ stage[c] = "reply"
  /\ stage' = [stage EXCEPT ![c] = "idle"]
  /\ Invalidate
  /\ UNCHANGED <<table, wire, marks, failures>>

\* The request fails, before or after its commit; nothing is invalidated.
ClickFails(c) ==
  /\ stage[c] # "idle" /\ MayFail
  /\ IF stage[c] = "reply" THEN Unnoticed ELSE UNCHANGED missed
  /\ stage' = [stage EXCEPT ![c] = "idle"]
  /\ marks' = [marks EXCEPT ![c] = {}]
  /\ UNCHANGED <<table, wire, open, fetch, ans, data, invalid>>

\* Another tab of the user marks rows as read; no event tells of that.
MarkElsewhere(n) ==
  /\ n \in inbox \ read
  /\ read' = read \cup {n}
  /\ Unnoticed
  /\ UNCHANGED <<inbox, sending, wire, open, fetch, ans, data, invalid, clicks, failures>>

-----------------------------------------------------------------------------
QueryStep(q) == Read(q) \/ Receive(q)
ClickStep(c) == SelectUnread(c) \/ CommitRead(c) \/ Replied(c)

\* The tab, and the other tabs of its user.
TabStep ==
  \/ \E n \in Note : MarkElsewhere(n)
  \/ Deliver \/ Undelivered \/ OpenPanel \/ ClosePanel
  \/ \E q \in Query : QueryStep(q) \/ FetchFails(q) \/ Focus(q)
  \/ \E c \in Click : ClickStep(c) \/ ClickFails(c) \/ ClickAll(c) \/ \E n \in Note : ClickRow(c, n)

BellNext == TabStep \/ \E n \in Note : Arrive(n) \/ Announce(n) \/ AnnounceFails(n)

BellSpec == BellInit /\ [][BellNext]_bell

\* Handlers, the listener and the browser go on; Redis and Postgres answer or
\* raise.  People and failures are not relied upon.
Fairness ==
  /\ \A n \in Note : WF_bell(Announce(n))
  /\ WF_bell(Deliver \/ Undelivered) /\ \A q \in Query : WF_bell(QueryStep(q))
  /\ \A c \in Click : WF_bell(ClickStep(c))

FairBellSpec == BellSpec /\ Fairness

-----------------------------------------------------------------------------
(* Properties.                                                             *)

\* Every variable has its type.
BellTypeOK ==
  /\ inbox \in SUBSET Note /\ read \in SUBSET inbox /\ sending \in SUBSET inbox
  /\ wire \in Nat /\ open \in BOOLEAN
  /\ fetch \in [Query -> {"idle", "asked", "answered"}]
  /\ ans \in [Query -> {NoData} \cup SUBSET inbox]
  /\ data \in [Query -> {NoData} \cup SUBSET inbox]
  /\ invalid \in BOOLEAN /\ missed \in SUBSET Query
  /\ stage \in [Click -> {"idle", "select", "commit", "reply"}]
  /\ marks \in [Click -> SUBSET inbox]
  /\ failures \in Nat

\* Something that the tab will be told of is still on its way.
Pending == sending # {} \/ wire > 0 \/ \E c \in Click : stage[c] = "reply"

\* The badge and the open list show what the table holds once the events and
\* responses have come in, whatever arrived while a query was being fetched:
\* "invalidate rather than trying to splice" (NotificationsPanel.tsx) loses
\* nothing but the changes recorded in `missed`.
PanelShowsTable ==
  \A q \in Query :
    Enabled(q) /\ fetch[q] = "idle" /\ q \notin missed /\ ~ Pending => data[q] = Unread

\* If the user stops clicking, the badge is right for good in the end, unless
\* the tab has missed something.
BadgeSettles ==
  <>[](\A c \in Click : stage[c] = "idle")
  => <>[]("count" \in missed \/ data["count"] = Unread)
=============================================================================
