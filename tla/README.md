# A verification project for CollabFlow

CollabFlow is a small multi-tenant project tracker: a FastAPI backend (Postgres, Redis, MinIO, a
Celery worker) and a React client that is kept up to date over WebSockets. This directory holds TLA+
modules that model its concurrent parts, TLC configurations that check them on small instances, and
TLAPS proofs of the most important properties for instances of any size. `PROJECT.json` lists the
runs, maps every definition to the lines it models, and records the findings.

    tlc -config PresenceFaults.cfg MCPresence      # one run
    tlapm PresenceProofs.tla                       # the proofs of one module

## The system and its hard parts

| Component | State | Operations | Interacts through | Hard because |
|---|---|---|---|---|
| Project WebSocket, presence (`api/routers/ws.py`, `ws/presence.py`, `ws/connection_manager.py`, `ws/redis_listener.py`, `ws/events.py`) | Redis hash of counts, per-process registry of sockets, pub/sub channel, list of online users in each tab | connect, join, snapshot, publish, disconnect, leave, relay | Redis; one listener task per process; the registry is shared by handlers and listener | every await is an interleaving point; clients, Redis and processes fail in the middle |
| Attachments, task deletion (`services/attachment_service.py`, `task_service.delete_task`, `core/storage.py`) | rows in Postgres, objects in MinIO | upload, delete attachment, delete task with cascade | two stores without a common transaction; foreign keys | order of the two writes, failures between them, requests on the same task |
| Comments (`services/comment_service.py`) | rows | create | foreign key to tasks; event; notifications of mentions | arrives while its task is deleted |
| Reconnecting socket hook (`frontend/src/ws/useWebSocket.ts`) | closure of each run of the effect, sockets, timer, status | effect, clean-up, callbacks, timer | browser event loop, token in localStorage | callbacks of old runs fire during new ones; must never give up |
| Tasks (`task_service.py`, `crud/task.py`) | rows with status, position, assignee, labels; activity log | create, patch, list | REST, events, notifications | read-modify-write without locks |
| Notifications (`notification_service.py`, the loops of `project_service.py`, `comment_service.py` and `workers/tasks.py`) | rows, Celery queue | create and dispatch, invite, mention, daily reminder | commit, publish and enqueue in turn | three steps, none transactional with the others; members and tasks change during a loop |
| Notification panel (`NotificationsPanel.tsx`, `ws/notification_manager.py`, `crud/notification.py`) | query cache of badge and list | load, open, mark read, invalidate | per-user channel and socket, REST | an event arrives while an older answer is under way |
| Session of a tab (`api/client.ts`, `auth/AuthContext.tsx`) | tokens in localStorage (shared by tabs), shared refresh promise | request, 401, refresh, logout, restore | axios interceptors | refresh against logout, late 401s, other tabs |
| Membership and roles (`organization_/workspace_/project_/label_service.py`, `core/deps.py`) | memberships, slugs, labels | create, invite, check role | unique constraints | check-then-insert; who is invited as an admin invites in turn |
| Board (`ProjectPage.tsx`, `KanbanBoard.tsx`) | cached list of tasks, remembered list of each drag | drag, optimistic update, rollback, refetch | events, REST | fetches, drags and rollbacks overlap; lost events |
| Task panel (`TaskDetailPanel.tsx`, `ProjectPage.tsx`) | cached task and log, texts of its fields | open, close, toggle a label, leave a field, comment, upload, delete | REST, events, the board's list | requests computed from a cache; fields that keep the text they were rendered with |

What makes each of them correct:

* presence: a user is listed exactly while a tab is open; every open tab ends up with the list Redis has;
  departures are seen.
* attachments: rows have files, files have rows, nothing outlives its task, announced deletions are final.
* socket hook: exactly one connection or one pending attempt while a project is shown, for that project;
  it connects whenever that is possible; events come from the room of the project on the page only.
* tasks: the activity log describes what was committed, concurrent edits of labels do not undo each other, whoever has a
  task assigned is told, every change is announced, new tasks are last in their column.
* notifications: a row, its event and its e-mail go together, everybody concerned is told, nobody else, and once; the
  activity log accounts for every invitation.
* notification panel: badge and list agree with the table once nothing is on its way, and so with what the jobs had for the user.
* session: tokens and the user shown agree, requests are made in the right name, calls and reloads come to an end.
* board: it shows the table once nothing is on its way, and a dropped card does not jump back.
* task panel: it shows the tables, labels are as they were last clicked, the fields hold what is stored.

## Modules

### Presence

One project room (rooms share nothing). A member of `Conn` is one WebSocket connection: a tab that
reconnects or is reloaded is another member, and at most `MaxTabs` of them are ever made. An action is what runs between two awaits of the handler or the
listener: one Redis command or one send.

| TLA+ | Code |
|---|---|
| `Connect`, `Join`, `ReadOnline`, `SendSnapshot`, `PublishJoined` | `project_websocket` up to its `try` |
| `Disconnect`, `Leave`, `ClearField`, `PublishLeft` | its `finally`, with the two commands of `presence.leave` apart |
| `fields`, `count` | `presence:{project_id}`; a field can exist with any value, and HKEYS looks only at the fields |
| `conns`, `StartRelay`, `RelayTo`, `RelayToGone`, `EndRelay` | `ConnectionManager`, `run_pattern_listener`, `send_to_project` with its copied list and its list of dead sockets |
| `view`, `Applied` | `onlineUserIds` in `ProjectPage.tsx` |
| `ClientCloses`, `RedisError`, `ListenerDies`, `Crash` | faults, switched on by `Faults` |

`raced`, `missed` and `crossed` are history variables: they record that a join fell between the two commands of
a leave, that an event reached a tab between its handler's HKEYS and its snapshot, and that the last event about a user said
something else than the hash when it was published (a reload: the old handler's "left" after the new one's "joined"). They let the
invariants say exactly when the component is right.

### Attachments

Requests on the tasks of one project, any number at a time, each a sequence of steps: a call to MinIO,
a commit, a publish. A transaction takes effect, and its foreign keys are checked, in the step of its commit.
`LoadCascade` is apart from `DeleteRows` because SQLAlchemy's `all, delete-orphan` cascades read the
subtasks and comments first; attachments have no such relationship and follow by `ON DELETE CASCADE`. `Below` is
the set of tasks under a task, defined as a least closed set. Requests are used once and never forgotten, so a
property can name the request that is to blame. `create_comment` is here only for its effect on a deletion.

### Tasks

Requests on the tasks of one project: `create_task`, `update_task`, `delete_task`. A request reads, decides from
what it read, commits, reads again, publishes and notifies; `pc` goes `idle`, `ready`, `refresh`, `publish`, `notify`,
`done`. The session runs at READ COMMITTED and its reads lock nothing; flush and commit are one step because row locks make
the writes of a transaction indivisible for others. The columns `status` and `assignee` stand for all columns of the loop in
`update_task`.

| TLA+ | Code |
|---|---|
| `StartCreate`, `IsMaxPosition` | `create_task` up to the MAX query of `task_crud.create` |
| `StartPatch`, `StartDelete` | `require_task_project_role`, which loads the task, and `task_crud.get_by_id`, which loads its labels |
| `Changed`, `Relabels`, `Write`, `NewLabels` | the dictionary `changes`, and what the ORM then writes: only columns that differ from the loaded ones, and label rows relative to the loaded collection |
| `CommitCreate`, `CommitPatch`, `CommitNothing`, `CommitDelete` | the commit, with the activity log entry |
| `Rollback` | a row that is gone, a label inserted twice, a label added since the task to be deleted was loaded |
| `Refresh`, `Publish`, `Notify` | `db.refresh`, `publish_event`, `create_and_dispatch` |
| `Fail` | invalid input, a lost connection, a crash; at most `MaxFailures` of them |

A deleted row that is already gone is only a warning of SQLAlchemy, and asyncpg does not count the rows of the DELETE on
`task_labels`. Requests are used once and keep what they read, so the log is the set of requests with `at[r] > 0`, in that
order. `at`, `commits`, `unannounced` and `notified` are history variables. Subtasks, the cascade and
the files of a deleted task are in Attachments.

### Notifications

A job is `invite_member`, `create_comment` after its own commit, or one run of `send_due_soon_reminders`: a set of dispatches
`<<task, recipient>>`, taken in any order (the code's order comes from the text of a comment or from a query without ORDER BY).

| TLA+ | Code |
|---|---|
| `StartInvite` | `require_project_role(Role.ADMIN)` of `invite_project_member`, and the check for a membership |
| `InsertMember` | the INSERT with `uq_membership_project_user`, the entry MEMBER_INVITED of the activity log, and the commit of both |
| `members`, `admins`, `log` | `project_memberships`, those of them with a rank of admin or more, and the entries in the order of their commits |
| `StartComment`, `StartReminders` | the accounts a comment mentions; the tasks due tomorrow, which the daily job keeps as loaded |
| `Skipped`, `Skip` | the `continue`s of `_notify_mentions`, decided when the turn comes |
| `Commit`, `Publish`, `QueueEmail` | the three steps of `create_and_dispatch` |
| `JobFails` | an exception of Redis or Postgres, or the end of the process: nothing in a loop catches it |
| `SendEmail` | the worker, which does not try again |
| `EditTask`, `DeleteTask` | requests of module Tasks that change what a running job has loaded |

Members are never removed and roles never change: the code has no operation for it, which is why a caller let in as an admin still is one
at the commit. `base`, the members at the start of a job, is a history variable.

`NotificationFeed` is what `create_and_dispatch` promises: a notification is stored once, and its event is published after that, at most once, or lost for
good. `Notifications` implements it under the mapping `stored <- rows`, `sending <- Sending` (`ImplementsFeed`, checked by TLC and proved).

### NotificationPanel

The bell of one tab with its two queries, `count` for the badge and `list` for the open panel; the list is reduced to its unread
rows, paging is left out. `Invalidate` is `invalidateQueries` as TanStack Query, which is external, carries it out: a query that
has an answer in its cache drops a request under way for a new one, a first load goes on, and a disabled query (the list of a
closed panel) is only marked. Every way in which a change can pass the tab by is recorded in the history variable `missed`: a socket
that is down (`Undelivered`: the hook reconnects but does not catch up), a publish, fetch or click that fails, another tab that marks
rows as read, an event during a first load or during the fetch of a closed panel.
On its own the module lets any row arrive and any event be published or lost after it (`Arrive`, `Announce`, `AnnounceFails`). No name of it
(`BellInit`, `BellNext`, `BellSpec`, `Announce`, `inbox`, ...) is one of Notifications, so that `NotifiedUser` can extend both.

### NotifiedUser

Notifications and NotificationPanel together, for one user `me` who is a user of the jobs, too: the tab's `inbox` and `sending` are no longer the environment's but
the rows of the jobs that are for `me` (`UserTable`). The actions `Arrive`, `Announce` and `AnnounceFails` are not used; what takes their place are the steps of the jobs.

| TLA+ | Code |
|---|---|
| `UserTable` | the `user_id` in the queries of `crud/notification.py`, and in the name of the channel |
| `PublishMine` | `publish_notification_event` of a job whose recipient is `me`: an event is on its way to the tab |
| `LoseMine` | such a job ends between commit and publish |
| `ServerStep` | every other step of a job, its commits included, and what goes on beside the jobs |
| `TabStep` | every step of the tab: its requests, clicks, events that arrive or are lost |

`BellIsServed` says that this system refines `BellSpec`: the bell relies on nothing that the jobs do not provide. It is what makes the properties of
NotificationPanel, stated for a bell in an arbitrary environment, hold in the real one. `BadgeTells` is such a property from end to end, from the job to the badge.
The module has no run: the parts are model-checked each on its own, what holds of the whole is proved, for any number of jobs, on the assumption (`MyNotes`) that the bell's
`Note` are the rows for `me`.

### AuthSession

The tabs of one browser. localStorage is shared; `user`, `isLoading` and `refreshPromise` are each tab's own. A call is sent with the
stored token, answered, refused with a 401 or failed; after a 401 it waits for the tab's refresh and is repeated once.

| TLA+ | Code |
|---|---|
| `Open`, `ShowUser`, `Rejected` | `restoreSession` at a page load; its `catch` removes the tokens whatever the reason |
| `Submit`, `Registered`, `LoggedIn`, `Logout` | the forms with `register` and `login`, `logout` |
| `Send` | the request interceptor |
| `Reject401`, `AwaitRefresh`, `Refreshed`, `RefreshFails` | the response interceptor with `refreshAccessToken`; the waiting calls go on in the task in which the refresh ends |
| `leaving`, `Close`, `Open` | `location.assign('/login')`: the page lives on until it is unloaded |
| `Shown` | `ProtectedRoute` |

A token is reduced to its user; a 401 is possible at any time (expiry, an inactive account, a wrong password). `old`, `revived` and
`maker` are history variables: a thing is old once the stored tokens have been replaced or removed since it began, and `revived` says
that an old refresh has stored its access token all the same. A tab has one page request at a time, and React's strict mode, which doubles
effects in development, is left out.

### Board

The list of tasks in one tab, as `ProjectPage` caches it. A task is its column; `row` is the table. What TanStack Query does with a
query is external and the same as in NotificationPanel: `fetch`, `ans` and `data` are its request, the answer under way and the cache.

| TLA+ | Code |
|---|---|
| `Drop` | `handleDragEnd` of a card over another column, and `onMutate` with its `cancelQueries`; `drag` is the mutation's variables and its context |
| `CommitMove`, `RejectMove`, `MoveFails` | the PATCH: committed, a 404, or an error before or after the commit |
| `SettleOK`, `RollBack` | `onSettled`; `onError` and `onSettled`, which run in one task: both happen before the refetch is answered |
| `Read`, `Receive`, `FetchFails`, `Focus`, `Invalidate` | `listTasks` and the states of its query; `error` hides the board |
| `ChangeByOthers`, `Deliver`, `Undelivered` | requests of others (and of the same user elsewhere), with the callback of `useProjectSocket`; an event is lost if it is not published or the socket is down |
| `ChangeByOwn`, `OwnSucceeds`, `OwnFails` | the quick-add form and the panel's updates and deletion, as far as the list is concerned |

`missed` says that something changed of which nobody will tell the tab. `overtaken` is a history variable: the drags after which something
else has written the list (another drag of the card, a rollback) or has asked for it. Filters, paging (the page asks for the first 100 tasks) and
the order within a column are left out.

### TaskPanel

The detail panel of one task, opened and closed at will. `row` and `log` are the tables; the cache of a closed panel stays and is rendered at once when
the panel is opened again, before it is fetched.

| TLA+ | Code |
|---|---|
| `OpenPanel`, `ClosePanel`, `Close` | `selectedTaskId` of `ProjectPage`; a query without data, invalidated or older than `staleTime` is fetched |
| `Mount`, `shown` | `defaultValue` of the title and the description: the text of the first render, whatever the query brings later |
| `LeaveTitle`, `LeaveUnsent` | `onBlur` of the title: it is sent, trimmed, unless it is blank or the cached one; the field keeps what was typed |
| `LeaveDescription` | `onBlur` of the description: it is sent always, and as it stands |
| `trim`, `Agrees` | `String.trim`; does a field show what is stored, a title up to the spaces around it |
| `ToggleLabel`, `Toggled` | `toggleLabel`: the whole set of labels, computed from the cached task |
| `CommitPatch`, `Commit`, `Reply`, `RequestFails` | a request of the panel on the server, its `onSuccess`, its failure (there is no `onError`) |
| `RelabelByOthers`, `EditByOthers`, `PostByOthers`, `DeleteByOthers` | requests of others; only comments and attachments come with an event that the panel is refreshed for |
| `Deliver` | the cases `comment_created`, `attachment_added` and `attachment_removed` of the callback of `useProjectSocket` |

`outdated`, `unseen`, `clicked` and `lost` are history variables. `outdated` names the fields for which the code promises nothing: one that somebody else has
written since it was rendered, that was rendered from an old cache, whose request failed or was overtaken by another one, or that was not sent because the cached
title was old. `clicked` is what the labels would be if every click, here and elsewhere, changed its own label only, in the order of the commits. A request carries a whole set of labels, so
it can write over others: `unseen` is, for each request under way, the labels it knows nothing of (those the cache had otherwise than the table although a reason to fetch it was known, or that were changed
since the click), and `lost` the labels that such a request has written over since the last click on them. A title left blank is not an outdated field but an exception of its own in `FieldsSaved`: nothing is sent, and the field stays blank.
Status, priority and due date are sent as they are chosen and cannot go stale in this way; the queries of comments and attachments are invalidated whenever the log is.

### WebSocketClient

The effect of `useWebSocket` in a tab. Every run of the effect has its own closure (`closedByEffect`, `attempt`,
`socket`, `timer`); `Render` is React's clean-up of the old run and the start of the new one in one task of the
event loop, and one step with the render itself (an idealisation: React may run passive effects in a later task, so that a callback of the old
run can come between the render and its clean-up, and find the project on the page changed); sockets get their callbacks at any later time. A socket variable that points at a socket
already closed is modelled as `NoSock` (closing it again does nothing). Jitter is left out: it only adds up to
500 ms. `attempt` stops counting at 5, where the delay is already capped. The token and the server are the environment.

`ProjectLink` is what `ProjectPage` may rely on: a link to the room of the project it shows, which breaks and comes back at any time and
breaks at once when the page turns to another project. `WebSocketClient` implements it under the mapping `shown <- project`, `linked <- Rooms`, the rooms of the open sockets:
`ImplementsLink` is checked by TLC and proved. Every render, timer and socket step but `Render`, `Opens` and the loss of an open socket is a stutter of the abstract link.
`Undelivered` of Board and TaskPanel is the time during which the link is down.

### MC modules and proofs

`MCPresence`, `MCAttachments`, `MCTasks`, `MCNotifications`, `MCNotificationPanel`, `MCAuthSession`, `MCBoard`, `MCTaskPanel` and `MCWebSocketClient` extend the component's
module with the constants of the instances. The module of the same name with `Proofs` holds its theorems; those of NotificationPanel and NotifiedUser are in `NotificationsProofs`. Definitions marked
"Wrong version" are the mutants `PROJECT.json` names: each shows that a property notices a plausible bug.

## Runs

| Run | Instance | Shows |
|---|---|---|
| `presence_faults` | 3 of 4 connections, 3 of one user and 1 of another, 1 process, all faults | counts are bounded, stale entries come from errors only, exact until a race; a lone tab's own join after its snapshot; views converge, also those of a tab that watches another user reload |
| `presence_two_processes` | 2 connections of 3 possible ones, of 2 users, on 2 processes, all faults, fair | departures are seen, closed tabs mean offline unless an error or a crash ended a handler |
| `attachments` | task and subtask, 4 requests, 3 at once, all faults | blame for missing and orphaned files, references, announcements |
| `tasks` | 1 task and 2 new ones, 3 requests at once, 2 members, 2 labels, 3 bodies, 1 failure | the log explains the row, label edits merge, a patch that met no other is exact, the assignee is told, changes are announced, new tasks are last |
| `notifications` | 3 users, 1 of them a member at first, 2 tasks, 2 jobs, 1 failure | a dispatch is all or nothing, everybody is notified, one invitation is told, the log accounts for members and admins, the jobs are a `NotificationFeed` |
| `notification_panel` | 2 notifications, 1 click at a time, 1 failure, fair | badge and list show the table; the badge settles |
| `auth_session` | 2 tabs, one of them in use (`BusyTab`), 2 users, fair | tokens and users agree, requests keep their maker, waiting calls are served; calls and reloads end |
| `board` | 2 tasks, 2 columns, 2 drags at once, 2 events or requests under way, 1 failure, fair | the board shows the table, a moved card stays, the board settles |
| `task_panel` | 2 labels, 4 texts (blank, two, one of them with spaces too), 2 requests at once, 2 log entries, 1 failure | the panel shows the tables, labels are as clicked, the fields hold what is stored |
| `websocket_client` | 2 runs, 2 sockets, 2 projects, fair | one connection, status not stuck, a `ProjectLink` to this project; connects again and again |

Runs that are expected to fail state what a comment or a document says and the code does not do:

| Run | Statement | What happens |
|---|---|---|
| `presence_lost_tab` | offline only once every tab has closed | a join between HINCRBY and HDEL of a leave is deleted: a user with an open tab is offline |
| `attachments_subtask` | deleting a task takes its files with it | not those of its subtasks |

Sixteen more disagreements have no run of their own; the passing properties are worded around them. The listener ends with the first
error of its connection and is not started again (`redis_listener.py:20` "Runs for the lifetime of the app"; `ListenerDies`, and the exception for `listening` in
`DepartureIsSeen`). `restoreSession` removes the tokens after any error of `/me` (`AuthContext.tsx:36` "Access token expired and refresh
failed"; `Rejected`). A 401 that arrives after its tab's refresh has ended starts another (`client.ts:26` "exactly one refresh"; `AwaitRefresh`). A client that leaves before
the `try` of `project_websocket` is counted for good (`presence.py` calls the hash a count of open connections; the errors of
`NoStaleEntry`). A `delete_task` that fails at its commit has already removed the files of its rows (`MissingFileBlame`). A mention loop
stops at the first dispatch that raises (`PROGRESS.md:432` "each needs to succeed or fail independently"; `pc[j] = "done"` in
`EverybodyNotified`). With two tabs of one
user the second may see its user's join before its snapshot (`ws.py:29-33` "guarantees the ordering"; the condition on
the other tabs in `SnapshotBeforeOwnJoin`). An event that reaches a tab between its handler's HKEYS and its snapshot is
overwritten (`ProjectPage.tsx:108` "kept live from the moment we connect"; the `missed` clause of `ViewConverges`). An upload whose
task is deleted before its row is written leaves its object behind (`pc[k] = "insert_row"` and `on[k] \notin tasks` in
`OrphanBlame`). `delete_attachment` fails after its commit when MinIO does not answer (`PROGRESS.md:355` "still succeeds"; the
`delete_object` clause of `OrphanBlame`). Two concurrent edits of a task's labels merge, or one of them fails, although
`schemas/task.py` calls the list a "full replace" (`LabelsMerge`, and `Alone` in `PatchTakesEffect`). Two tasks of a column can share a position,
because creations read the same MAX and a move keeps the position the task had in its old column (`models/task.py`
"Fractional ordering"; the conclusion of `NewTaskAtEnd`). A refused token is retried after 1 s, not 5 (`useWebSocket.ts:21-23` "starts backoff
from a higher base", `PROGRESS.md:127-129`): the server refuses it before it accepts the socket, so that the browser reports 1006 and never 4401; `HandshakeRefused`
closes with 1006. A tab that is reloaded can be missing from the lists of others: the handler of its old socket publishes its departure after the new one's arrival
(`PROGRESS.md:136-137` "live presence"; `crossed` in `ViewConverges`). The rollback of a failed move writes the whole list back, with other moves made before or since
as they were then (`PROGRESS.md:134-135` "rolled back"; `overtaken` in `MoveStaysShown`); the refetch makes up for it (`BoardShowsTable`). The open panel is not fetched again when
somebody else edits its task, nor is its log after an edit of its own (`PROGRESS.md:139-142` "all on the same invalidate-on-WS-event pattern as the board"; `missed` in
`PanelShowsTables`), so that leaving its description, edited or not, writes an old text over a new one (`outdated` in `FieldsSaved`) and a click on a label
brings back the labels of the cache (`unseen` and `lost` in `LabelsAsClicked`).

**Exceptions.** Several properties hold but for what a history variable names: `missed`, `crossed`, `raced`, `old`, `revived`, `overtaken`, `outdated`, `lost`. Each of
these records a step after which the code as it is cannot do better (nobody will tell the tab; the answer is one from before; a set of labels was computed from an old cache), and all but `raced` are cleared as soon
as the code makes up for it. Where a hazard is exactly such a step, the property does not say that the hazard has no consequence; it bounds it: nothing else in any
interleaving has this consequence, and it goes no further than the row, the tab, the field or the label concerned. The notes under `hazards` in `PROJECT.json` name these cases.

**Bounds.** Three tabs are enough for a leave, a join in the middle of it and a third party that sees the result, and for a reload (two connections) before the eyes of
another user (`MaxTabs = 3` in `presence_faults`); the liveness run makes two connections in any behaviour, one that departs and one that sees it. Two
processes for counts that are shared and registries that are not. Two levels of tasks separate a task's own files
from those the cascade reaches; four requests allow two uploads, a deletion and a comment, three of them under way
(`MaxActive`). Three requests on tasks are two that race and a third
that deletes, reassigns or creates in between; a second task separates creations from changes, a third lets two creations race. Two jobs are two invitations that race, an invitation by somebody just invited, or
a mention loop beside the daily job; three users are one who invites, one who is invited and invites in turn, and one more. Two notifications are one that a request has read and one that came too late.
Two drags on two cards overlap in every order, beside a third request or event (`MaxEvents`);
the failure (`MaxFailures`) is a move, a fetch or a request. In the panel two requests race with each other and with somebody else's, `MaxCommits` being the number of log entries; two texts are the
old one and a new one, a third is the new one between spaces, and a blank one is never stored as a title. A second tab that only loads,
restores, refreshes and logs out is enough for tokens to change under the first.
Two runs of the effect are an old and a new one; each has at most one socket that is not closed. Runs and sockets are used again when
nothing refers to them, so the client's histories are unbounded. The other components are bounded by their single-use connections and requests, which is
why these configurations do not check for deadlock: everybody may simply be done. Symmetry is
used in runs without liveness properties only.

**Fairness.** In `Presence` the steps of a handler and of a listener are weakly fair: asyncio runs ready tasks
and Redis answers or raises. Connecting, closing and faults are not fair. In `WebSocketClient` timers, handshakes and close events
are weakly fair, as the browser guarantees; renders, tokens and the server are not. In `NotificationPanel` publishing, relaying (or
losing) an event, queries and the requests of clicks are weakly fair; arrivals, people, the window's focus and failures are not.
`BadgeSettles` presumes a user who stops clicking. In `Board` the server's part of a request, its settling, fetches and events (delivered or lost) are weakly
fair, and `BoardSettles` presumes that events and requests come to an end. `TaskPanel` is checked for safety only. In `AuthSession` every call and refresh is settled in some way, and a page that was sent to `/login`
gets there; nothing is assumed of people.

## Proofs

The theorems hold for every value of the constants under the modules'
assumptions: finitely many connections with an owner and a host; parents are tasks or `NoTask`; the
"none" values are not members of their sets; there is a task and a member, and what clients send is well typed;
the members and due tasks at the start exist, and the first admins are members.
`HookImplementsLink`, `NotificationsFeedBells` and `BellsAreServed` are refinements, all others are invariants. A type invariant that is proved is not checked once more by the runs,
except that of WebSocketClient, which says how long a reconnect can be put off; the same goes for `OnlyMembersMentioned` and `ServesThisProject`.

* **Presence** (`TypeCorrect`, `CountBounded`, `StaleEntriesComeFromErrors`, `ExactWithoutRace`, `OwnJoinAfterSnapshot`, `ViewsConverge`, `OnlineUnlessRaced`, `SeenOnceSettled`). Only `Join`, `Leave`
  and `ClearField` change the hash, so every other step is shown to be a bystander that keeps each user's set of holders.
  The strengthening says who cleans up: a field with a value of zero or less has a connection that is about to delete it (or an
  error took it), and a connection about to delete is the last one unless a join raced with it. The
  cardinality facts come from `FiniteSetTheorems`. `OwnJoinAfterSnapshot` rests on `JoinsComeFromPast`: a join on its way, or in a list, has a handler past its
  snapshot, and none goes back. `ViewsConverge` rests on `Telling`: whenever what is said of a user (by the last message in a queue, by a snapshot not yet sent, by the list of a
  tab that has nothing more to receive) differs from the hash, a handler of that user is about to publish or was ended by an error, or the last publication was overtaken.
  `Registered` says that a relay reaches every tab that is still there.
  Two consequences say what presence is for: a user with an open tab is online unless a join raced with a leave (`OnlineUnlessRaced`: the counterexample of
  `presence_lost_tab` is the only kind there is), and every other open tab then shows the user once nothing is on its way (`SeenOnceSettled`).
* **Attachments** (`TypeCorrect`, `MissingFilesAreDeleteTasks`, `OrphansAccounted`, `ReferencesKept`,
  `AnnouncementsTrue`). The strengthening records what each kind of request has done at each of its steps: an upload past its
  first step has its object or somebody deleted it, rows belong to uploads of the same task, a removal past its commit has no row, a purge past
  its commit has no task, and events come from requests past their commit.
* **Tasks** (`TypeCorrect`, `LogAlwaysExplainsRow`, `LabelEditsMerge`, `LonePatchTakesEffect`, `AssigneeAlwaysNotified`,
  `ChangesAlwaysAnnounced`, `NewTasksAtEnd`). The steps fall into three classes, with a lemma each: a request starts, a request
  commits, or nothing is logged. `Bookkeeping` and `Distinct` make `at` an order of the committed requests, `Creations` ties a new id to its one
  creating request, `ReadsHold` says that what a request read still holds if nobody has committed since. `FreshAssignee` and
  `HasRecipient` are the heart of `AssigneeNotified`: the last request that wrote the assignee has read that assignee back and will notify it.
  `LabelsMerge` needs `LabelsOfTasks`, for a new task, and `RelabelersAfterCommit`: a commit makes
  its request the last one of the labels it changes and of no other. `GoneAnnounced` does the same for a task that is gone, and `Positions` for the MAX that a new task has read.
* **Notifications** (`TypeCorrect`, `NotificationsAllOrNothing`, `EverybodyIsNotified`, `OnlyMembersAreMentioned`,
  `UsersAreInvitedOnce`, `InvitationsAlwaysLogged`, `NotificationsFeedBells`). The strengthening speaks of one job at a time: what remains to be done is untouched (`RestOK`), what was taken off
  the list is complete or rightly skipped (`HandledOK`), and the dispatch under way has come as far as `pc` says (`StageOK`). `Same` makes
  it independent of the other jobs. Only `OneTelling` relates two jobs: whoever is going to tell a user of an invitation has inserted the membership, which the unique
  constraint allows once. `InvitationsLogged` needs two facts more: the admins are those of the start and those the log promotes (`LogKnows`), and a caller whose
  INSERT is still to come is an admin (`InsertOK`); `AppendedPeople` says that a new entry changes nothing of what the earlier ones tell. For `NotificationsFeedBells` a step of a job changes at
  most that job's part of `Sending` (`IsSending`, `Same`), and a dispatch that is committed was untouched before (`RestOK`).
* **NotificationPanel**, in `NotificationsProofs` (`BellTypeCorrect`, `PanelAlwaysShowsTable`). `Fresh` extends the property to answers under way and to a closed
  panel, whose list may be old if opening it will fetch it; `Loaded` says that it did.
* **NotifiedUser**, in `NotificationsProofs` (`BellsAreServed`, `BadgeAlwaysTells`). The system without the tab is `Spec` (`NotifiedIsServer`), so the invariant of Notifications holds in it;
  `InStep` says that the bell's table is the user's part of the jobs'. Then a step of a job that stores a row of the user is an `Arrive` of the bell, one that publishes or loses its event an
  `Announce` or `AnnounceFails`, and any other step of a job is nothing to it (`JobFeed`, which `NotificationsFeedBells` rests on as well). `BadgeAlwaysTells` puts `EverybodyIsNotified` and `PanelAlwaysShowsTable`
  together, the latter carried over by `BellsAreServed`.
* **AuthSession** (`TypeCorrect`, `SessionsAlwaysAgree`, `RequestsKeepTheirMaker`, `WaitersAlwaysServed`). The strengthening says of everything that is
  not old that it agrees with the store: headers with the access token, refreshes and makers with the refresh token. The refresh token is the anchor, because
  an old refresh can change the access token only. `ClosedIdle` and `OneForm` say that nothing is sent over a call under way. `OldLive` is
  the part of `TypeOK` about `old`, thing by thing.
* **WebSocketClient** (`TypeCorrect`, `OneConnectionHolds`, `ServesThisProjectHolds`, `StatusNeverStuck`). `OneConnection` is not inductive by itself:
  a clean-up must find whatever is alive. `RunsKnown` and `SocketsKnown` say that the current run, its socket variable and the socket's
  callbacks point at each other, and that a closing socket belongs to an old run. `HookImplementsLink` uses the same invariant: because
  a live socket is the current run's, `Rooms` is empty or the room of the project shown, and each step is an `Up`, a `Down`, a `Show` or a stutter.
  `StatusNotStuckOpen` is inductive next to `TypeOK`: a clean-up turns an open socket into a closing one, never into none.
* **Board** (`TypeCorrect`, `BoardAlwaysShowsTable`, `MovesStayShown`). `Fresh` strengthens `BoardShowsTable` to an answer under way: once all
  events and drags have come to an end and nothing was missed, what the server has read is what the table holds. `MovesHeld` adds to `MoveStaysShown` that there is no fetch under
  way beside a drag that is not overtaken, which is what `cancelQueries` brings about.
* **TaskPanel** (`TypeCorrect`, `PanelAlwaysShowsTables`, `FieldsAreSaved`, `LabelsAlwaysAsClicked`). The invariant has a part for each theorem.
  `CachesFresh` strengthens `PanelShowsTables` to one query at a time and to a panel in use: a query is owed a fetch only while an event (for the log) or
  the answer to a committed patch (for the task) is on its way (`Due`), and otherwise what the server has read, or the cache of an idle query, is what the table holds, unless the panel is closed and will
  fetch it when it opens (`Excused`). `FieldsStored` is `FieldsSaved` with committed requests counted as done, which is what makes it inductive: the
  commit, not the answer, decides. `Clicks` adds to `LabelsAsClicked` that each request
  for labels on its way carries, but for the labels in its `unseen`, what the table holds with its own label changed (`Known`); that this holds of a new request without `unseen` labels needs `CachesFresh`, because the set comes from the cache
  (`UpToDateData`). `Edited`, `Relabelled` and `PatchedRow` say what a patch leaves alone.

Left to TLC: liveness (`DepartureIsSeen`, `GoneMeansOffline`, `Reconnects`, `BadgeSettles`, `BoardSettles`, `CallsEnd`, `ReloadsEnd`), which no installed
backend can prove. Every safety property of a passing run is a theorem.

## Not modelled

Organizations, workspaces, projects and labels, beyond the invitation of a member to a project in Notifications: each of their operations is one transaction, its races are decided by a unique
constraint (the loser gets a 500 instead of a 4xx), and no operation removes a member or changes a role, so that a model could only repeat those constraints. Roles are checked on
every request and never change; except for invitations, the models take a request that was let in.

The order of the activity feed, which is by the start of a transaction and may differ from the order of commits. The composition of AuthSession with WebSocketClient: that a hook with
an expired token stays without a connection until some other request refreshes it is plain from the two (no action of one is enabled by the other).

Logging, settings, schemas, migrations, styling, the dashboard page, the health check and the deployment files:
they keep no state a property could be about. In Presence: redis-py's own retries, and the REST list shown until the socket has something to
say. In Attachments: downloads and listings. In Tasks: lists, paging and the feed. Within the modelled parts, payloads of events are reduced to kind and subject.
