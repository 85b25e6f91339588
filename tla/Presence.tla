------------------------------ MODULE Presence ------------------------------
(***************************************************************************)
(* Who is online in one project room: the handler of every project         *)
(* WebSocket (app/api/routers/ws.py), the Redis hash of connection counts  *)
(* (app/ws/presence.py), each backend process's registry of sockets        *)
(* (app/ws/connection_manager.py), the publish/subscribe channel with one  *)
(* listener per process (app/ws/events.py, app/ws/redis_listener.py), and  *)
(* the list every browser tab keeps (frontend ProjectPage.tsx).            *)
(*                                                                         *)
(* A step is what runs between two awaits: one Redis command, one send.    *)
(* Rooms share nothing, so one is enough.  A socket is used once: a tab    *)
(* that reconnects is another member of Conn.  A send and the browser's    *)
(* reaction to it are one step (a socket delivers in order and nothing     *)
(* else writes the list).                                                  *)
(***************************************************************************)
EXTENDS Integers, Sequences, FiniteSets

CONSTANTS
  Conn,       \* WebSocket connections, one per browser tab and attempt
  User,       \* users that may open the project
  Instance,   \* backend processes
  owner,      \* the authenticated user of each connection
  host,       \* the process each connection lands on
  Faults,     \* what may go wrong, a subset of FaultKind
  MaxTabs     \* bound: how many of the connections are made

\* early:    a client goes away before its handler reaches the receive loop
\* redis:    a Redis command of a handler raises
\* listener: the subscription's connection to Redis breaks
\* crash:    a backend process dies and is started again
FaultKind == {"early", "redis", "listener", "crash"}

ASSUME ConnFinite == IsFiniteSet(Conn)
ASSUME OwnerType  == owner \in [Conn -> User]
ASSUME HostType   == host \in [Conn -> Instance]
ASSUME FaultsType == Faults \subseteq FaultKind

VARIABLES
  pc,         \* where each connection's handler stands
  up,         \* is the client's end of the socket still there
  first,      \* the handler's "connection_count == 1"
  onlineIds,  \* the handler's "online_ids", read by HKEYS
  fields,     \* the fields of the hash presence:{project_id}
  count,      \* their values (0 for a field that does not exist)
  conns,      \* ConnectionManager._connections of each process
  queue,      \* messages on their way to each process's listener
  relaying,   \* is the listener inside send_to_project
  todo,       \* the sockets of its snapshot it has yet to send to
  dead,       \* the sockets whose send raised
  listening,  \* is the listener task alive
  view,       \* each tab's onlineUserIds
  raced,      \* history: users who joined between a leave's HINCRBY and HDEL
  missed,     \* history: users of events sent to a tab between the handler's
              \*          HKEYS and the snapshot that then overwrites them
  crossed     \* history: users of whom the last event published said the opposite
              \*          of what the hash then held

hash    == <<fields, count>>
handler == <<pc, up, first, onlineIds>>
relay   == <<relaying, todo, dead>>
history == <<raced, missed, crossed>>
vars    == <<handler, hash, conns, queue, relay, listening, view, history>>

\* The order of the steps of project_websocket, and how a handler can end:
\* "closed" normally, "leaked" by an error while its increment is in the hash,
\* "dropped" by an error at any other point.
Steps == {"idle", "joining", "joined", "snapshot", "announcing", "open",
          "leaving", "clearing", "goodbye"}
Ended == {"closed", "leaked", "dropped"}

\* Steps at which the handler's +1 has been added and not been taken back.
HoldingPC == {"joined", "snapshot", "announcing", "open", "leaving", "leaked"}

ConnsOf(u) == {c \in Conn : owner[c] = u}
Holding(u) == {c \in ConnsOf(u) : pc[c] \in HoldingPC}

Message == [type : {"joined", "left"}, user : User]

Init ==
  /\ pc = [c \in Conn |-> "idle"]
  /\ up = [c \in Conn |-> FALSE]
  /\ first = [c \in Conn |-> FALSE]
  /\ onlineIds = [c \in Conn |-> {}]
  /\ fields = {}
  /\ count = [u \in User |-> 0]
  /\ conns = [i \in Instance |-> {}]
  /\ queue = [i \in Instance |-> <<>>]
  /\ relaying = [i \in Instance |-> FALSE]
  /\ todo = [i \in Instance |-> {}]
  /\ dead = [i \in Instance |-> {}]
  /\ listening = [i \in Instance |-> TRUE]
  /\ view = [c \in Conn |-> {}]
  /\ raced = {}
  /\ missed = [c \in Conn |-> {}]
  /\ crossed = {}

-----------------------------------------------------------------------------
(* What the handlers are built from.                                       *)

Goto(c, step) == pc' = [pc EXCEPT ![c] = step]

\* HINCRBY: a field that does not exist counts as 0 and is created.
HIncrBy(u, n) ==
  /\ count' = [count EXCEPT ![u] = @ + n]
  /\ fields' = fields \cup {u}

\* HDEL removes the field whatever its value.
HDel(u) ==
  /\ count' = [count EXCEPT ![u] = 0]
  /\ fields' = fields \ {u}

\* Wrong version: a work queue, from which one process takes each message.
PublishToOne(kind, u) ==
  LET taker == CHOOSE j \in Instance : listening[j] \/ \A i \in Instance : ~ listening[i] IN
  queue' = [queue EXCEPT ![taker] = Append(@, [type |-> kind, user |-> u])]

\* PUBLISH reaches every process whose listener is subscribed now.
PublishEvent(kind, u) ==
  queue' = [i \in Instance |->
              IF listening[i]
                THEN Append(queue[i], [type |-> kind, user |-> u])
                ELSE queue[i]]

\* History: does the event tell what the hash holds when it is published.
Tells(kind, u) ==
  crossed' = IF kind = "joined" <=> u \in fields THEN crossed \ {u} ELSE crossed \cup {u}

\* ConnectionManager.connect and .disconnect; discarding twice is harmless.
Register(c) == conns' = [conns EXCEPT ![host[c]] = @ \cup {c}]
Unregister(i, gone) == conns' = [conns EXCEPT ![i] = @ \ gone]

-----------------------------------------------------------------------------
(* project_websocket, from accept to the receive loop.                     *)

\* accept, then connection_manager.connect; the next await is the HINCRBY.
Connect(c) ==
  /\ pc[c] = "idle" /\ Cardinality({d \in Conn : pc[d] # "idle"}) < MaxTabs
  /\ Goto(c, "joining")
  /\ up' = [up EXCEPT ![c] = TRUE]
  /\ Register(c)
  /\ UNCHANGED <<first, onlineIds, hash, queue, relay, listening, view, history>>

\* Wrong version: the increment is sent again after it took effect.
JoinRetried(c) ==
  /\ pc[c] = "joining"
  /\ HIncrBy(owner[c], 2)
  /\ first' = [first EXCEPT ![c] = count[owner[c]] + 2 = 1]
  /\ Goto(c, "joined")
  /\ UNCHANGED <<up, onlineIds, conns, queue, relay, listening, view, history>>

\* presence.join: the increment returns the new count.
Join(c) ==
  /\ pc[c] = "joining"
  /\ HIncrBy(owner[c], 1)
  /\ first' = [first EXCEPT ![c] = count[owner[c]] + 1 = 1]
  /\ Goto(c, "joined")
  /\ raced' = IF \E d \in ConnsOf(owner[c]) : pc[d] = "clearing"
                THEN raced \cup {owner[c]} ELSE raced
  /\ UNCHANGED <<up, onlineIds, conns, queue, relay, listening, view, missed, crossed>>

\* presence.online_user_ids: HKEYS, whatever the values of the fields.
ReadOnline(c) ==
  /\ pc[c] = "joined"
  /\ onlineIds' = [onlineIds EXCEPT ![c] = fields]
  /\ Goto(c, "snapshot")
  /\ UNCHANGED <<up, first, hash, conns, queue, relay, listening, view, history>>

\* Wrong version, the one the project had before: the join is published first
\* and the snapshot is sent afterwards.
PublishThenSnapshot(c) ==
  /\ pc[c] = "snapshot"
  /\ IF first[c]
       THEN /\ PublishEvent("joined", owner[c])
            /\ first' = [first EXCEPT ![c] = FALSE]
            /\ UNCHANGED <<pc, view>>
       ELSE /\ view' = [view EXCEPT ![c] = onlineIds[c]]
            /\ Goto(c, "open")
            /\ UNCHANGED <<queue, first>>
  /\ UNCHANGED <<up, onlineIds, hash, conns, relay, listening, history>>

\* send_json of the snapshot: the tab's list becomes the list read before.  A
\* send to a client that has just gone may also go unnoticed.  The handler's
\* variables are not read again.
SendSnapshot(c) ==
  /\ pc[c] = "snapshot"
  /\ view' = [view EXCEPT ![c] = IF up[c] THEN onlineIds[c] ELSE @]
  /\ Goto(c, IF first[c] THEN "announcing" ELSE "open")
  /\ first' = [first EXCEPT ![c] = FALSE]
  /\ onlineIds' = [onlineIds EXCEPT ![c] = {}]
  /\ UNCHANGED <<up, hash, conns, queue, relay, listening, history>>

\* The client is gone and send_json raises: the code is before its "try", so
\* neither disconnect nor leave runs.
SnapshotFails(c) ==
  /\ pc[c] = "snapshot" /\ ~ up[c]
  /\ Goto(c, "leaked")
  /\ UNCHANGED <<up, first, onlineIds, hash, conns, queue, relay, listening, view, history>>

PublishJoined(c) ==
  /\ pc[c] = "announcing"
  /\ PublishEvent("joined", owner[c]) /\ Tells("joined", owner[c])
  /\ Goto(c, "open")
  /\ UNCHANGED <<up, first, onlineIds, hash, conns, relay, listening, view, raced, missed>>

-----------------------------------------------------------------------------
(* project_websocket, the "finally" block.                                 *)

\* receive_text raises WebSocketDisconnect; connection_manager.disconnect.
Disconnect(c) ==
  /\ pc[c] = "open" /\ ~ up[c]
  /\ Unregister(host[c], {c})
  /\ Goto(c, "leaving")
  /\ UNCHANGED <<up, first, onlineIds, hash, queue, relay, listening, view, history>>

\* Wrong version: the field is removed as soon as one tab closes.
LeaveClearsAlways(c) ==
  /\ pc[c] = "leaving"
  /\ HIncrBy(owner[c], -1)
  /\ Goto(c, "clearing")
  /\ UNCHANGED <<up, first, onlineIds, conns, queue, relay, listening, view, history>>

\* Wrong version: "count < 0" where the code says "count <= 0".
LeaveKeepsZero(c) ==
  /\ pc[c] = "leaving"
  /\ HIncrBy(owner[c], -1)
  /\ Goto(c, IF count[owner[c]] - 1 < 0 THEN "clearing" ELSE "closed")
  /\ UNCHANGED <<up, first, onlineIds, conns, queue, relay, listening, view, history>>

\* presence.leave, its first command.  With tabs left there is nothing more to
\* do; otherwise the field is deleted and the leave is published.
Leave(c) ==
  /\ pc[c] = "leaving"
  /\ HIncrBy(owner[c], -1)
  /\ Goto(c, IF count[owner[c]] - 1 <= 0 THEN "clearing" ELSE "closed")
  /\ UNCHANGED <<up, first, onlineIds, conns, queue, relay, listening, view, history>>

\* presence.leave, its second command: not conditional on the value any more.
ClearField(c) ==
  /\ pc[c] = "clearing"
  /\ HDel(owner[c])
  /\ Goto(c, "goodbye")
  /\ UNCHANGED <<up, first, onlineIds, conns, queue, relay, listening, view, history>>

PublishLeft(c) ==
  /\ pc[c] = "goodbye"
  /\ PublishEvent("left", owner[c]) /\ Tells("left", owner[c])
  /\ Goto(c, "closed")
  /\ UNCHANGED <<up, first, onlineIds, hash, conns, relay, listening, view, raced, missed>>

-----------------------------------------------------------------------------
(* run_pattern_listener and send_to_project.                               *)

\* A message arrives and the sockets of the room are copied into a list.
StartRelay(i) ==
  /\ listening[i] /\ ~ relaying[i] /\ queue[i] # <<>>
  /\ relaying' = [relaying EXCEPT ![i] = TRUE]
  /\ todo' = [todo EXCEPT ![i] = conns[i]]
  /\ UNCHANGED <<handler, hash, conns, queue, dead, listening, view, history>>

\* ProjectPage: presence_joined adds the user, presence_left removes it.
Applied(ids, m) == IF m.type = "joined" THEN ids \cup {m.user} ELSE ids \ {m.user}

\* One send of the loop reaches its client.
RelayTo(i, c) ==
  LET m == Head(queue[i]) IN
  /\ relaying[i] /\ c \in todo[i] /\ up[c]
  /\ view' = [view EXCEPT ![c] = Applied(@, m)]
  /\ missed' = [missed EXCEPT ![c] = IF pc[c] = "snapshot" THEN @ \cup {m.user} ELSE @]
  /\ todo' = [todo EXCEPT ![i] = @ \ {c}]
  /\ UNCHANGED <<handler, hash, conns, queue, relaying, dead, listening, raced, crossed>>

\* Wrong version: a failed send ends the whole broadcast.
RelayAbortsOnError(i, c) ==
  /\ relaying[i] /\ c \in todo[i] /\ ~ up[c]
  /\ todo' = [todo EXCEPT ![i] = {}]
  /\ dead' = [dead EXCEPT ![i] = @ \cup {c}]
  /\ UNCHANGED <<handler, hash, conns, queue, relaying, listening, view, history>>

\* One send of the loop to a client that is gone: it raises, or, while the
\* server has not noticed yet, it goes unnoticed.
RelayToGone(i, c) ==
  /\ relaying[i] /\ c \in todo[i] /\ ~ up[c]
  /\ todo' = [todo EXCEPT ![i] = @ \ {c}]
  /\ \/ dead' = [dead EXCEPT ![i] = @ \cup {c}]
     \/ pc[c] \notin Ended /\ UNCHANGED dead
  /\ UNCHANGED <<handler, hash, conns, queue, relaying, listening, view, history>>

\* The loop is over: dead sockets leave the registry, the next message is due.
EndRelay(i) ==
  /\ relaying[i] /\ todo[i] = {}
  /\ relaying' = [relaying EXCEPT ![i] = FALSE]
  /\ Unregister(i, dead[i])
  /\ dead' = [dead EXCEPT ![i] = {}]
  /\ queue' = [queue EXCEPT ![i] = Tail(@)]
  /\ UNCHANGED <<handler, hash, todo, listening, view, history>>

-----------------------------------------------------------------------------
(* The clients and what may go wrong.                                      *)

\* The tab closes, or its connection breaks; its list goes with it.
ClientCloses(c) ==
  /\ up[c]
  /\ pc[c] = "open" \/ "early" \in Faults
  /\ up' = [up EXCEPT ![c] = FALSE]
  /\ view' = [view EXCEPT ![c] = {}] /\ missed' = [missed EXCEPT ![c] = {}]
  /\ UNCHANGED <<pc, first, onlineIds, hash, conns, queue, relay, listening, raced, crossed>>

\* A Redis command raises in a handler.  No handler of the exception exists:
\* before the "try" the socket even stays registered.  A command that took
\* effect before it raised is that command's step followed by this one.
RedisError(c) ==
  /\ "redis" \in Faults
  /\ pc[c] \in {"joining", "joined", "announcing", "leaving", "clearing", "goodbye"}
  /\ Goto(c, IF pc[c] \in HoldingPC THEN "leaked" ELSE "dropped")
  /\ up' = [up EXCEPT ![c] = FALSE]
  /\ view' = [view EXCEPT ![c] = {}] /\ missed' = [missed EXCEPT ![c] = {}]
  /\ UNCHANGED <<first, onlineIds, hash, conns, queue, relay, listening, raced, crossed>>

\* pubsub.listen() raises: run_pattern_listener handles only a cancellation,
\* so the task ends, and nothing starts it again.
ListenerDies(i) ==
  /\ "listener" \in Faults
  /\ listening[i] /\ ~ relaying[i]
  /\ listening' = [listening EXCEPT ![i] = FALSE]
  /\ queue' = [queue EXCEPT ![i] = <<>>]
  /\ UNCHANGED <<handler, hash, conns, relay, view, history>>

\* A process dies and comes back with an empty registry and a new
\* subscription; what its handlers had added to the hash stays there.
Crash(i) ==
  LET lost == {c \in Conn : host[c] = i /\ pc[c] \notin Ended \cup {"idle"}} IN
  /\ "crash" \in Faults
  /\ lost # {} \/ ~ listening[i]
  /\ pc' = [c \in Conn |-> IF c \notin lost THEN pc[c]
                           ELSE IF pc[c] \in HoldingPC THEN "leaked" ELSE "dropped"]
  /\ up' = [c \in Conn |-> up[c] /\ c \notin lost]
  /\ conns' = [conns EXCEPT ![i] = {}]
  /\ queue' = [queue EXCEPT ![i] = <<>>]
  /\ relaying' = [relaying EXCEPT ![i] = FALSE]
  /\ todo' = [todo EXCEPT ![i] = {}]
  /\ dead' = [dead EXCEPT ![i] = {}]
  /\ listening' = [listening EXCEPT ![i] = TRUE]
  /\ view' = [c \in Conn |-> IF c \in lost THEN {} ELSE view[c]]
  /\ missed' = [c \in Conn |-> IF c \in lost THEN {} ELSE missed[c]]
  /\ UNCHANGED <<first, onlineIds, hash, raced, crossed>>

-----------------------------------------------------------------------------
HandlerStep(c) ==
  \/ Join(c) \/ ReadOnline(c) \/ SendSnapshot(c) \/ SnapshotFails(c)
  \/ PublishJoined(c) \/ Disconnect(c) \/ Leave(c) \/ ClearField(c)
  \/ PublishLeft(c)

ListenerStep(i) ==
  \/ StartRelay(i) \/ EndRelay(i)
  \/ \E c \in Conn : RelayTo(i, c) \/ RelayToGone(i, c)

Fault ==
  \/ \E c \in Conn : RedisError(c)
  \/ \E i \in Instance : ListenerDies(i) \/ Crash(i)

Next ==
  \/ \E c \in Conn : Connect(c) \/ ClientCloses(c) \/ HandlerStep(c)
  \/ \E i \in Instance : ListenerStep(i)
  \/ Fault

Spec == Init /\ [][Next]_vars

\* asyncio runs every ready task and Redis answers: handlers that have work
\* and listeners that have messages go on.  Nobody has to connect, and no
\* fault has to happen.
Fairness ==
  /\ \A c \in Conn : WF_vars(HandlerStep(c))
  /\ \A i \in Instance : WF_vars(ListenerStep(i))

FairSpec == Spec /\ Fairness

-----------------------------------------------------------------------------
(* Properties.                                                             *)

\* Every variable has its type, and a field that does not exist has no value.
TypeOK ==
  /\ pc \in [Conn -> Steps \cup Ended]
  /\ up \in [Conn -> BOOLEAN]
  /\ first \in [Conn -> BOOLEAN]
  /\ onlineIds \in [Conn -> SUBSET User]
  /\ fields \in SUBSET User
  /\ count \in [User -> Int]
  /\ \A u \in User \ fields : count[u] = 0
  /\ conns \in [Instance -> SUBSET Conn]
  /\ queue \in [Instance -> Seq(Message)]
  /\ relaying \in [Instance -> BOOLEAN]
  /\ \A i \in Instance : relaying[i] => queue[i] # <<>>
  /\ todo \in [Instance -> SUBSET Conn]
  /\ dead \in [Instance -> SUBSET Conn]
  /\ listening \in [Instance -> BOOLEAN]
  /\ view \in [Conn -> SUBSET User]
  /\ raced \in SUBSET User
  /\ missed \in [Conn -> SUBSET User]
  /\ crossed \in SUBSET User

\* The count Redis holds for a user never exceeds the connections that still
\* owe a decrement, whatever fails and however the commands of join and leave
\* interleave: presence never counts a tab twice.
CountNeverExceedsHolders ==
  \A u \in User : count[u] <= Cardinality(Holding(u))

\* A user listed by HKEYS has a handler that is still responsible for the entry
\* (it holds an increment or is about to delete the field), or had one that an
\* error ended before it could clean up.  Closing tabs in any order, races of
\* leave with join included, leaves no stale entry by itself.
NoStaleEntry ==
  \A u \in fields :
    \E c \in ConnsOf(u) : pc[c] \in HoldingPC \cup {"clearing", "dropped"}

\* The only way presence.join and presence.leave can get a user's count wrong
\* is a join between the HINCRBY and the HDEL of a leave of the same user.
\* Until that happens the count is exact, whatever fails, and a user who has a
\* joined connection is listed.
ExactUnlessRaced ==
  \A u \in User \ raced :
    /\ count[u] = Cardinality(Holding(u))
    /\ Holding(u) # {} => u \in fields

\* A tab whose user has no other one hears of the user's join only after its own
\* snapshot (the comment above presence.join in project_websocket).  View is
\* empty until the snapshot replaces it, except for what the listener relays
\* before.
SnapshotBeforeOwnJoin ==
  \A c \in Conn :
    /\ pc[c] \in {"joining", "joined", "snapshot"}
    /\ \A d \in ConnsOf(owner[c]) \ {c} : pc[d] = "idle"
    => owner[c] \notin view[c]

Quiet(i) == listening[i] /\ ~ relaying[i] /\ queue[i] = <<>>
Settled(u) == \A c \in ConnsOf(u) : pc[c] \in {"idle", "open", "closed"}
Watching(c) == pc[c] = "open" /\ up[c]

\* Once nothing is on its way, an open tab lists exactly the users Redis lists,
\* except those of whom an event arrived between the handler's HKEYS and the
\* snapshot it sent, or of whom the last event was published after the hash had
\* changed again (a tab is reloaded while its old handler is about to publish).
ViewConverges ==
  \A c \in Conn : Watching(c) /\ Quiet(host[c]) =>
    \A u \in User \ (missed[c] \cup crossed) : Settled(u) => (u \in view[c] <=> u \in fields)

\* presence.join: "they're only offline once every one of those closes".  A user
\* with an open tab is listed.
ListedWhileOpen ==
  \A c \in Conn : Watching(c) => owner[c] \in fields

\* When every tab of a user has closed, the user's entry goes away, unless an
\* error or a crash ended one of the handlers.
GoneMeansOffline ==
  \A u \in User :
    (\A c \in ConnsOf(u) : ~ up[c])
      ~> (u \notin fields \/ \E c \in ConnsOf(u) : up[c] \/ pc[c] \in {"leaked", "dropped"})

\* A user's departure reaches every tab that is open at that moment: the tab
\* drops the user from its list, or closes first.  Only the tabs of a process
\* whose own listener has died stay deaf, and a handler that an error ends before
\* it has published tells nobody.
DepartureIsSeen ==
  \A c, d \in Conn : c # d =>
    ((Watching(c) /\ pc[d] = "goodbye")
       ~> (owner[d] \notin view[c] \/ ~ up[c] \/ ~ listening[host[c]] \/ pc[d] = "dropped"))

=============================================================================
