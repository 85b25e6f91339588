--------------------------- MODULE WebSocketClient --------------------------
(***************************************************************************)
(* The reconnecting socket of a browser tab: the effect of                 *)
(* frontend/src/ws/useWebSocket.ts as ProjectPage uses it through          *)
(* useProjectSocket.ts, the access token it reads (api/tokenStore.ts), and *)
(* the answers of the server's WebSocket dependencies (core/deps.py).      *)
(*                                                                         *)
(* A step is one task of the browser's event loop.  Every run of the       *)
(* effect has its own closure (closedByEffect, attempt, socket,            *)
(* reconnectTimer), and the callbacks of an old run may still fire while a *)
(* new run is at work.  Runs and sockets that nothing refers to any more   *)
(* are used again.                                                         *)
(***************************************************************************)
EXTENDS Integers, Sequences

CONSTANTS
  Effect,   NoEffect,   \* runs of the effect
  Sock,     NoSock,     \* WebSocket objects
  Project,  NoProject   \* NoProject: useProjectSocket(null), "enabled" is false

ASSUME NoEffectAssumption  == NoEffect \notin Effect
ASSUME NoSockAssumption    == NoSock \notin Sock
ASSUME NoProjectAssumption == NoProject \notin Project

VARIABLES
  project,        \* the projectId of the last render
  current,        \* the run of the effect that has not been cleaned up
  target,         \* the projectId each run's getUrl has captured
  closedByEffect, attempt, socket,
  timer,          \* reconnectTimer: its delay in ms without jitter, 0 if not armed
  state,          \* readyState of each socket; "none": closed, or never used
  effectOf,       \* the run whose callbacks it has
  carried,        \* the token in its URL
  status,         \* what the hook returns
  token,          \* the access token in localStorage: "none", "good" or "stale"
  server          \* does the backend answer

closure == <<target, closedByEffect, attempt, socket, timer>>
browser == <<state, effectOf, carried>>
env     == <<token, server>>
vars    == <<project, current, closure, browser, status, env>>

\* 1000 * 2^attempt exceeds 30000 from the fifth attempt on, whatever the base.
MaxAttempt == 5
TwoTo(n) == <<1, 2, 4, 8, 16, 32>>[n + 1]
MaxDelay == 30000
Capped(ms) == IF ms > MaxDelay THEN MaxDelay ELSE ms

\* Wrong version: no cap.
DelayUncapped(base, n) == base * TwoTo(n)

Delay(base, n) == Capped(base * TwoTo(n))

Init ==
  /\ project = NoProject /\ current = NoEffect
  /\ target = [e \in Effect |-> NoProject]
  /\ closedByEffect = [e \in Effect |-> TRUE]
  /\ attempt = [e \in Effect |-> 0]
  /\ socket = [e \in Effect |-> NoSock]
  /\ timer = [e \in Effect |-> 0]
  /\ state = [s \in Sock |-> "none"]
  /\ effectOf \in [Sock -> Effect]
  /\ carried = [s \in Sock |-> "good"]
  /\ status = "closed"
  /\ token = "none" /\ server = TRUE

-----------------------------------------------------------------------------
\* getUrl of useProjectSocket returns null: there is no access token now.
NoUrl == token = "none"

\* Wrong version: without a token it gives up.
ConnectGivesUp(e, st, tm) ==
  \/ /\ NoUrl
     /\ timer' = tm /\ state' = st
     /\ UNCHANGED <<socket, effectOf, carried, status>>
  \/ /\ ~ NoUrl
     /\ \E s \in Sock :
          /\ st[s] = "none"
          /\ state' = [st EXCEPT ![s] = "connecting"]
          /\ effectOf' = [effectOf EXCEPT ![s] = e]
          /\ carried' = [carried EXCEPT ![s] = token]
          /\ socket' = [socket EXCEPT ![e] = s]
     /\ timer' = tm
     /\ status' = "connecting"

\* connect() of run e; st and tm are the sockets and timers as they are when it
\* is called.  Without a token it looks again in a second.
Connect(e, st, tm) ==
  \/ /\ NoUrl
     /\ timer' = [tm EXCEPT ![e] = 1000]
     /\ state' = st
     /\ socket' = [socket EXCEPT ![e] = NoSock]
     /\ UNCHANGED <<effectOf, carried, status>>
  \/ /\ ~ NoUrl
     /\ \E s \in Sock :
          /\ st[s] = "none"
          /\ state' = [st EXCEPT ![s] = "connecting"]
          /\ effectOf' = [effectOf EXCEPT ![s] = e]
          /\ carried' = [carried EXCEPT ![s] = token]
          /\ socket' = [socket EXCEPT ![e] = s]
     /\ timer' = tm
     /\ status' = "connecting"

\* Wrong version: the clean-up forgets the socket.
ClosingForgotten(e) == state

\* The sockets after "socket?.close()" of run e, and the timers after its
\* clearTimeout.
Closing(e) == [s \in Sock |-> IF e # NoEffect /\ s = socket[e] THEN "closing" ELSE state[s]]

Cleared(e) == [f \in Effect |-> IF f = e THEN 0 ELSE timer[f]]

\* A run that has been cleaned up and whose socket has had its close event.
Free(e) == e # current /\ closedByEffect[e] /\ \A s \in Sock : state[s] # "none" => effectOf[s] # e

\* The page shows another project: React cleans up the old run and, in the same
\* task, starts a new one.
Render(p, e) ==
  /\ p \in Project /\ p # project /\ Free(e)
  /\ project' = p /\ current' = e
  /\ target' = [target EXCEPT ![e] = p]
  /\ closedByEffect' = [f \in Effect |-> f # e]
  /\ attempt' = [attempt EXCEPT ![e] = 0]
  /\ Connect(e, Closing(current), Cleared(current))
  /\ UNCHANGED env

\* The page shows no project (or goes away): clean-up, and the disabled branch
\* of the effect.
RenderNothing ==
  /\ project # NoProject
  /\ project' = NoProject /\ current' = NoEffect
  /\ closedByEffect' = [e \in Effect |-> TRUE]
  /\ state' = Closing(current)
  /\ timer' = Cleared(current)
  /\ status' = "closed"
  /\ UNCHANGED <<target, attempt, socket, effectOf, carried, env>>

\* reconnectTimer goes off.
TimerFires(e) ==
  /\ timer[e] # 0
  /\ Connect(e, state, [timer EXCEPT ![e] = 0])
  /\ UNCHANGED <<project, current, target, closedByEffect, attempt, env>>

-----------------------------------------------------------------------------
(* The socket's callbacks.                                                 *)

\* onopen, after the server has accepted.
Opens(s) ==
  /\ state[s] = "connecting" /\ server /\ carried[s] = "good"
  /\ state' = [state EXCEPT ![s] = "open"]
  /\ attempt' = [attempt EXCEPT ![effectOf[s]] = 0]
  /\ status' = "open"
  /\ UNCHANGED <<project, current, target, closedByEffect, socket, timer,
                 effectOf, carried, env>>

\* Wrong version: the clean-up's own close is taken for a lost connection.
OnCloseReconnects(s, code) ==
  LET e == effectOf[s] IN
  /\ state' = [state EXCEPT ![s] = "none"]
  /\ socket' = [socket EXCEPT ![e] = IF @ = s THEN NoSock ELSE @]
  /\ status' = "closed"
  /\ timer' = [timer EXCEPT ![e] = Delay(1000, attempt[e])]
  /\ attempt' = [attempt EXCEPT ![e] = IF @ < MaxAttempt THEN @ + 1 ELSE @]
  /\ UNCHANGED <<project, current, target, closedByEffect, effectOf, carried, env>>

\* Wrong version: the check of closedByEffect comes before setStatus.
OnCloseSilent(s, code) ==
  LET e == effectOf[s] IN
  /\ state' = [state EXCEPT ![s] = "none"]
  /\ socket' = [socket EXCEPT ![e] = IF @ = s THEN NoSock ELSE @]
  /\ IF closedByEffect[e]
       THEN UNCHANGED <<timer, attempt, status>>
       ELSE /\ status' = "closed"
            /\ timer' = [timer EXCEPT ![e] = Delay(1000, attempt[e])]
            /\ attempt' = [attempt EXCEPT ![e] = IF @ < MaxAttempt THEN @ + 1 ELSE @]
  /\ UNCHANGED <<project, current, target, closedByEffect, effectOf, carried, env>>

\* onclose, with onerror before it if there was an error: by then the socket is
\* closed, so that onerror's close() does nothing.
OnClose(s, code) ==
  LET e == effectOf[s]
      base == IF code = 4401 THEN 5000 ELSE 1000 IN
  /\ state' = [state EXCEPT ![s] = "none"]
  /\ socket' = [socket EXCEPT ![e] = IF @ = s THEN NoSock ELSE @]
  /\ status' = "closed"
  /\ IF closedByEffect[e]
       THEN UNCHANGED <<timer, attempt>>
       ELSE /\ timer' = [timer EXCEPT ![e] = Delay(base, attempt[e])]
            /\ attempt' = [attempt EXCEPT ![e] = IF @ < MaxAttempt THEN @ + 1 ELSE @]
  /\ UNCHANGED <<project, current, target, closedByEffect, effectOf, carried, env>>

\* The dependency raises WebSocketException(4401) before the socket is accepted.
\* The server then refuses the handshake with an HTTP status, and a handshake
\* that fails has close code 1006 in every browser.
HandshakeRefused == 1006
Rejects(s) ==
  /\ state[s] = "connecting" /\ server /\ carried[s] = "stale"
  /\ OnClose(s, HandshakeRefused)

\* No answer, or an open connection breaks (abnormal closure in both cases).
Fails(s) ==
  /\ state[s] = "connecting" /\ ~ server
  /\ OnClose(s, 1006)

Drops(s) ==
  /\ state[s] = "open"
  /\ OnClose(s, 1006)

\* The close event of a socket that the clean-up closed.
CloseEvent(s) ==
  /\ state[s] = "closing"
  /\ OnClose(s, 1005)

-----------------------------------------------------------------------------
(* Around the hook.                                                        *)

\* login, or a refresh after some REST call got a 401 (api/client.ts).
TokenObtained ==
  /\ token # "good"
  /\ token' = "good"
  /\ UNCHANGED <<project, current, closure, browser, status, server>>

\* The access token's lifetime is over, also for sockets still connecting.
TokenExpires ==
  /\ token = "good"
  /\ token' = "stale"
  /\ carried' = [s \in Sock |-> IF state[s] = "connecting" THEN "stale" ELSE carried[s]]
  /\ UNCHANGED <<project, current, closure, state, effectOf, status, server>>

\* tokenStore.clear() by a logout, possibly of another tab.
TokenCleared ==
  /\ token # "none"
  /\ token' = "none"
  /\ UNCHANGED <<project, current, closure, browser, status, server>>

ServerFlips ==
  /\ server' = ~ server
  /\ UNCHANGED <<project, current, closure, browser, status, token>>

-----------------------------------------------------------------------------
SocketSettles(s) == Opens(s) \/ Rejects(s) \/ Fails(s)

Next ==
  \/ RenderNothing
  \/ \E p \in Project, e \in Effect : Render(p, e)
  \/ \E e \in Effect : TimerFires(e)
  \/ \E s \in Sock : SocketSettles(s) \/ Drops(s) \/ CloseEvent(s)
  \/ TokenObtained \/ TokenExpires \/ TokenCleared \/ ServerFlips

Spec == Init /\ [][Next]_vars

\* Timers go off, handshakes end and closing sockets get their close event.
\* Nothing else has to happen: no navigation, no token and no repair.
Fairness ==
  /\ \A e \in Effect : WF_vars(TimerFires(e))
  /\ \A s \in Sock : WF_vars(SocketSettles(s)) /\ WF_vars(CloseEvent(s))

FairSpec == Spec /\ Fairness

-----------------------------------------------------------------------------
(* Properties.                                                             *)

Live  == {s \in Sock : state[s] \in {"connecting", "open"}}
Armed == {e \in Effect : timer[e] # 0}

\* Every variable has its type.
TypeOK ==
  /\ project \in Project \cup {NoProject}
  /\ current \in Effect \cup {NoEffect}
  /\ target \in [Effect -> Project \cup {NoProject}]
  /\ closedByEffect \in [Effect -> BOOLEAN]
  /\ attempt \in [Effect -> 0..MaxAttempt]
  /\ socket \in [Effect -> Sock \cup {NoSock}]
  /\ timer \in [Effect -> 0..MaxDelay]
  /\ state \in [Sock -> {"none", "connecting", "open", "closing"}]
  /\ effectOf \in [Sock -> Effect]
  /\ carried \in [Sock -> {"good", "stale"}]
  /\ status \in {"connecting", "open", "closed"}
  /\ token \in {"none", "good", "stale"}
  /\ server \in BOOLEAN

\* The hook never holds two connections, never schedules a reconnect while it
\* has one, and never gives up: with a project on the page there is either one
\* live socket or one armed timer, without one there is neither.
OneConnection ==
  /\ \A s, t \in Live : s = t
  /\ \A e, f \in Armed : e = f
  /\ Live = {} \/ Armed = {}
  /\ (project # NoProject) <=> (Live # {} \/ Armed # {})

\* What is alive serves the project on the page: no socket and no timer of an
\* earlier run of the effect outlives its clean-up, so that no event of another
\* project's room reaches the page.
ServesThisProject ==
  /\ \A s \in Live : effectOf[s] = current /\ target[effectOf[s]] = project
  /\ \A e \in Armed : e = current /\ target[e] = project

\* The hook does not report "open" without an open socket, unless the socket
\* that was open is still about to fire its close event.
StatusNotStuckOpen ==
  status = "open" => \E s \in Sock : state[s] \in {"open", "closing"}

\* The rooms whose events reach the page: a socket that is closing does not get
\* messages any more.
Rooms == {target[effectOf[s]] : s \in {t \in Sock : state[t] = "open"}}

\* All the page sees of runs, closures, timers and sockets is a link to the room
\* of its project that breaks and comes back, and breaks at once when the page
\* turns to another project.
Link == INSTANCE ProjectLink WITH shown <- project, linked <- Rooms
ImplementsLink == Link!Spec

\* As long as the page stays on a project, the server answers and the stored
\* token is valid, the hook gets its connection, again and again if it breaks.
Reconnects ==
  \A p \in Project :
    <>[](project = p /\ server /\ token = "good") => []<>(\E s \in Sock : state[s] = "open")

=============================================================================
