------------------------ MODULE WebSocketClientProofs -----------------------
(***************************************************************************)
(* What holds of the hook for any number of runs of its effect, sockets    *)
(* and projects.  The invariant ties the closures together: the current    *)
(* run, its socket variable and the socket's callbacks point at each       *)
(* other, so that a clean-up finds whatever is alive.                      *)
(***************************************************************************)
EXTENDS WebSocketClient, TLAPS

\* closedByEffect is set for every run but the current one, and there is a
\* current one exactly while a project is shown.
RunsKnown ==
  /\ \A e \in Effect : closedByEffect[e] <=> e # current
  /\ project = NoProject <=> current = NoEffect
  /\ current # NoEffect => target[current] = project

\* A run's socket variable names a socket with that run's callbacks, and every
\* socket that has not had its close event is named by its run.
SocketsKnown ==
  /\ \A e \in Effect : socket[e] # NoSock =>
       effectOf[socket[e]] = e /\ state[socket[e]] # "none"
  /\ \A s \in Sock : state[s] # "none" => socket[effectOf[s]] = s
  /\ \A s \in Sock : state[s] = "closing" => effectOf[s] # current

IInv ==
  /\ TypeOK
  /\ RunsKnown
  /\ SocketsKnown
  /\ OneConnection
  /\ ServesThisProject

-----------------------------------------------------------------------------
\* The delay of scheduleReconnect is never 0 and at most 30 seconds.
LEMMA DelayConstants == MaxDelay \in Nat \ {0} /\ 0 \in 0..MaxDelay /\ 1000 \in 0..MaxDelay
BY DEF MaxDelay

LEMMA CappedBounds ==
  ASSUME NEW x \in Nat \ {0}, MaxDelay \in Nat \ {0}
  PROVE  Capped(x) \in 1..MaxDelay
BY DEF Capped

LEMMA DelayBounds ==
  ASSUME NEW base \in {1000, 5000}, NEW n \in 0..MaxAttempt
  PROVE  Delay(base, n) \in 1..MaxDelay
<1>1. TwoTo(n) \in {1, 2, 4, 8, 16, 32}
  BY DEF TwoTo, MaxAttempt
<1>2. base \in Nat \ {0}
  OBVIOUS
<1>3. MaxDelay \in Nat \ {0}
  BY DelayConstants
<1>4. ASSUME NEW b \in Nat \ {0}, NEW k \in {1, 2, 4, 8, 16, 32} PROVE b * k \in Nat \ {0}
  OBVIOUS
<1>5. base * TwoTo(n) \in Nat \ {0}
  BY <1>1, <1>2, <1>4
<1> QED
  BY <1>3, <1>5, CappedBounds DEF Delay

\* Every socket but those in New keeps its callbacks, and if it was alive it is
\* closing now; run e has no socket and no other timer is armed.
Quiet(e, New) ==
  /\ \A x \in Sock \ New :
       /\ state'[x] \in {"none", "closing"}
       /\ state'[x] = "none" <=> state[x] = "none"
       /\ effectOf'[x] = effectOf[x]
  /\ \A x \in Sock : state[x] # "none" => effectOf[x] # e
  /\ \A f \in Effect : f # e => socket'[f] = socket[f] /\ timer'[f] = 0
  /\ current' = e /\ project' # NoProject /\ target'[e] = project'

\* connect() without a token, when nothing else is alive, leaves one timer.
LEMMA ConnectWaits ==
  ASSUME TypeOK, SocketsKnown, NEW e \in Effect, Quiet(e, {}),
         socket'[e] = NoSock, timer'[e] = 1000
  PROVE  SocketsKnown' /\ OneConnection' /\ ServesThisProject'
<1>1. Live' = {} /\ Armed' = {e}
  BY DEF Quiet, Live, Armed
<1>2. ASSUME NEW f \in Effect, socket'[f] # NoSock
      PROVE  effectOf'[socket'[f]] = f /\ state'[socket'[f]] # "none"
  <2>1. f # e /\ socket'[f] = socket[f] /\ socket[f] \in Sock
    BY <1>2 DEF TypeOK, Quiet
  <2> QED
    BY <1>2, <2>1 DEF SocketsKnown, Quiet
<1>3. ASSUME NEW x \in Sock, state'[x] # "none"
      PROVE  socket'[effectOf'[x]] = x /\ effectOf'[x] # e
  <2>1. effectOf'[x] = effectOf[x] /\ effectOf[x] \in Effect \ {e} /\ state[x] # "none"
    BY <1>3 DEF TypeOK, Quiet
  <2> QED
    BY <2>1 DEF SocketsKnown, Quiet
<1>4. SocketsKnown'
  BY <1>2, <1>3 DEF SocketsKnown, Quiet
<1> QED
  BY <1>1, <1>4 DEF OneConnection, ServesThisProject, Quiet

\* connect() with a token, when nothing else is alive, leaves one socket.
LEMMA ConnectOpens ==
  ASSUME TypeOK, SocketsKnown, NEW e \in Effect, NEW s \in Sock, Quiet(e, {s}),
         state[s] = "none", state'[s] = "connecting", effectOf'[s] = e,
         socket'[e] = s, timer'[e] = 0
  PROVE  SocketsKnown' /\ OneConnection' /\ ServesThisProject'
<1>1. Live' = {s} /\ Armed' = {}
  BY DEF Quiet, Live, Armed
<1>2. ASSUME NEW f \in Effect, socket'[f] # NoSock
      PROVE  effectOf'[socket'[f]] = f /\ state'[socket'[f]] # "none"
  <2>1. CASE f = e
    BY <2>1
  <2>2. CASE f # e
    <3>1. socket'[f] = socket[f] /\ socket[f] \in Sock
      BY <1>2, <2>2 DEF TypeOK, Quiet
    <3>2. effectOf[socket[f]] = f /\ state[socket[f]] # "none"
      BY <1>2, <3>1 DEF SocketsKnown
    <3> QED
      BY <3>1, <3>2 DEF Quiet
  <2> QED
    BY <2>1, <2>2
<1>3. ASSUME NEW x \in Sock, state'[x] # "none", x # s
      PROVE  socket'[effectOf'[x]] = x /\ effectOf'[x] # e
  <2>1. effectOf'[x] = effectOf[x] /\ effectOf[x] \in Effect \ {e} /\ state[x] # "none"
    BY <1>3 DEF TypeOK, Quiet
  <2> QED
    BY <2>1 DEF SocketsKnown, Quiet
<1>4. SocketsKnown'
  BY <1>2, <1>3 DEF SocketsKnown, Quiet
<1> QED
  BY <1>1, <1>4 DEF OneConnection, ServesThisProject, Quiet

-----------------------------------------------------------------------------
\* The types are preserved by connect() ...
LEMMA ConnectTypes ==
  ASSUME TypeOK, NEW e \in Effect, NEW st, NEW tm, Connect(e, st, tm),
         st \in [Sock -> {"none", "connecting", "open", "closing"}],
         tm \in [Effect -> 0..MaxDelay]
  PROVE  /\ state' \in [Sock -> {"none", "connecting", "open", "closing"}]
         /\ timer' \in [Effect -> 0..MaxDelay]
         /\ socket' \in [Effect -> Sock \cup {NoSock}]
         /\ effectOf' \in [Sock -> Effect]
         /\ carried' \in [Sock -> {"good", "stale"}]
         /\ status' \in {"connecting", "open", "closed"}
<1>1. 0 \in 0..MaxDelay /\ 1000 \in 0..MaxDelay
  BY DelayConstants
<1>2. timer' \in [Effect -> 0..MaxDelay]
  <2>1. timer' = tm \/ \E v \in 0..MaxDelay : timer' = [tm EXCEPT ![e] = v]
    BY <1>1 DEF Connect
  <2> QED BY <2>1
<1>3. state' \in [Sock -> {"none", "connecting", "open", "closing"}]
  BY DEF Connect
<1>4. socket' \in [Effect -> Sock \cup {NoSock}]
  BY DEF TypeOK, Connect
<1>5. effectOf' \in [Sock -> Effect]
  BY DEF TypeOK, Connect
<1>6. carried' \in [Sock -> {"good", "stale"}]
  BY DEF TypeOK, Connect, NoUrl
<1>7. status' \in {"connecting", "open", "closed"}
  BY DEF TypeOK, Connect
<1> QED
  BY <1>2, <1>3, <1>4, <1>5, <1>6, <1>7

\* ... and by onclose.
LEMMA OnCloseTypes ==
  ASSUME TypeOK, NEW s \in Sock, NEW code, OnClose(s, code)
  PROVE  TypeOK'
<1> DEFINE e == effectOf[s]
           base == IF code = 4401 THEN 5000 ELSE 1000
<1>1. e \in Effect /\ base \in {1000, 5000} /\ attempt[e] \in 0..MaxAttempt
  BY DEF TypeOK
<1>2. Delay(base, attempt[e]) \in 1..MaxDelay
  BY <1>1, DelayBounds
<1>3. timer' \in [Effect -> 0..MaxDelay] /\ attempt' \in [Effect -> 0..MaxAttempt]
  BY <1>1, <1>2 DEF TypeOK, OnClose, MaxAttempt
<1>4. /\ state' \in [Sock -> {"none", "connecting", "open", "closing"}]
      /\ socket' \in [Effect -> Sock \cup {NoSock}]
      /\ status' \in {"connecting", "open", "closed"}
  BY <1>1 DEF TypeOK, OnClose
<1> QED
  BY <1>3, <1>4 DEF TypeOK, OnClose, env

LEMMA TypeKept == TypeOK /\ [Next]_vars => TypeOK'
<1> SUFFICES ASSUME TypeOK, [Next]_vars PROVE TypeOK'
  OBVIOUS
<1>0. 0 \in 0..MaxDelay /\ 0 \in 0..MaxAttempt
  BY DelayConstants DEF MaxAttempt
<1>1. ASSUME NEW p \in Project, NEW e \in Effect, Render(p, e) PROVE TypeOK'
  <2>1. PICK st, tm : /\ st = Closing(current) /\ tm = Cleared(current)
                      /\ Connect(e, st, tm)
    BY <1>1 DEF Render
  <2>2. /\ st \in [Sock -> {"none", "connecting", "open", "closing"}]
        /\ tm \in [Effect -> 0..MaxDelay]
    BY <1>0, <2>1 DEF TypeOK, Closing, Cleared
  <2>3. /\ project' \in Project \cup {NoProject} /\ current' \in Effect \cup {NoEffect}
        /\ target' \in [Effect -> Project \cup {NoProject}]
        /\ closedByEffect' \in [Effect -> BOOLEAN]
        /\ attempt' \in [Effect -> 0..MaxAttempt]
        /\ UNCHANGED env
    BY <1>0, <1>1 DEF Render, TypeOK
  <2> QED
    BY <2>1, <2>2, <2>3, ConnectTypes DEF TypeOK, env
<1>2. CASE RenderNothing
  BY <1>0, <1>2 DEF RenderNothing, TypeOK, Closing, Cleared, env
<1>3. ASSUME NEW e \in Effect, TimerFires(e) PROVE TypeOK'
  <2>1. PICK st, tm : /\ st = state /\ tm = [timer EXCEPT ![e] = 0]
                      /\ Connect(e, st, tm)
    BY <1>3 DEF TimerFires
  <2>2. /\ st \in [Sock -> {"none", "connecting", "open", "closing"}]
        /\ tm \in [Effect -> 0..MaxDelay]
    BY <1>0, <2>1 DEF TypeOK
  <2> QED
    BY <1>3, <2>1, <2>2, ConnectTypes DEF TimerFires, TypeOK, env
<1>4. ASSUME NEW s \in Sock, Opens(s) PROVE TypeOK'
  BY <1>4 DEF Opens, TypeOK, MaxAttempt, env
<1>5. ASSUME NEW s \in Sock, Rejects(s) \/ Fails(s) \/ Drops(s) \/ CloseEvent(s) PROVE TypeOK'
  <2>1. PICK code : OnClose(s, code)
    BY <1>5 DEF Rejects, Fails, Drops, CloseEvent
  <2> QED
    BY <2>1, OnCloseTypes
<1>6. CASE TokenObtained \/ TokenExpires \/ TokenCleared \/ ServerFlips
  BY <1>6 DEF TokenObtained, TokenExpires, TokenCleared, ServerFlips, TypeOK, closure, browser
<1>7. CASE UNCHANGED vars
  BY <1>7 DEF vars, closure, browser, env, TypeOK
<1> QED
  BY <1>1, <1>2, <1>3, <1>4, <1>5, <1>6, <1>7 DEF Next, SocketSettles

-----------------------------------------------------------------------------
LEMMA RunsKept ==
  ASSUME TypeOK, RunsKnown, [Next]_vars
  PROVE  RunsKnown'
<1>1. ASSUME NEW p \in Project, NEW e \in Effect, Render(p, e) PROVE RunsKnown'
  BY <1>1, NoProjectAssumption, NoEffectAssumption DEF Render, RunsKnown, TypeOK
<1>2. CASE RenderNothing
  BY <1>2, NoEffectAssumption DEF RenderNothing, RunsKnown, TypeOK
<1>3. CASE UNCHANGED <<project, current, target, closedByEffect>>
  BY <1>3 DEF RunsKnown
<1>4. ASSUME NEW s \in Sock, NEW code, OnClose(s, code)
      PROVE  UNCHANGED <<project, current, target, closedByEffect>>
  BY <1>4 DEF OnClose
<1>5. ASSUME NEW e \in Effect, TimerFires(e)
      PROVE  UNCHANGED <<project, current, target, closedByEffect>>
  BY <1>5 DEF TimerFires
<1>6. ASSUME NEW s \in Sock, SocketSettles(s) \/ Drops(s) \/ CloseEvent(s)
      PROVE  UNCHANGED <<project, current, target, closedByEffect>>
  BY <1>4, <1>6 DEF SocketSettles, Opens, Rejects, Fails, Drops, CloseEvent
<1>7. CASE TokenObtained \/ TokenExpires \/ TokenCleared \/ ServerFlips \/ UNCHANGED vars
  BY <1>3, <1>7 DEF TokenObtained, TokenExpires, TokenCleared, ServerFlips, vars, closure
<1> QED
  BY <1>1, <1>2, <1>3, <1>5, <1>6, <1>7 DEF Next

\* The clean-up of the current run finds the live socket and the armed timer.
LEMMA CleanUp ==
  ASSUME IInv
  PROVE  /\ \A x \in Sock : /\ Closing(current)[x] \in {"none", "closing"}
                            /\ Closing(current)[x] = "none" <=> state[x] = "none"
         /\ \A f \in Effect : Cleared(current)[f] = 0
<1>1. ASSUME NEW x \in Sock, state[x] \in {"connecting", "open"}
      PROVE  current # NoEffect /\ socket[current] = x
  <2>1. effectOf[x] = current /\ effectOf[x] \in Effect
    BY <1>1 DEF IInv, TypeOK, ServesThisProject, Live
  <2>2. socket[effectOf[x]] = x
    BY <1>1 DEF IInv, SocketsKnown
  <2> QED
    BY <2>1, <2>2, NoEffectAssumption
<1>2. ASSUME NEW x \in Sock, current # NoEffect, socket[current] = x
      PROVE  state[x] # "none"
  BY <1>2, NoSockAssumption DEF IInv, TypeOK, SocketsKnown
<1>3. ASSUME NEW x \in Sock
      PROVE  /\ Closing(current)[x] \in {"none", "closing"}
             /\ Closing(current)[x] = "none" <=> state[x] = "none"
  <2>1. state[x] \in {"none", "connecting", "open", "closing"}
    BY DEF IInv, TypeOK
  <2> QED
    BY <1>1, <1>2, <2>1 DEF Closing
<1>4. ASSUME NEW f \in Effect PROVE Cleared(current)[f] = 0
  BY DEF Cleared, IInv, ServesThisProject, Armed
<1> QED
  BY <1>3, <1>4

-----------------------------------------------------------------------------
Connections == SocketsKnown /\ OneConnection /\ ServesThisProject

LEMMA RenderKeeps ==
  ASSUME IInv, NEW p \in Project, NEW e \in Effect, Render(p, e)
  PROVE  Connections'
<1>1. /\ current' = e /\ project' # NoProject /\ target'[e] = project'
      /\ \A x \in Sock : state[x] # "none" => effectOf[x] # e
  BY NoProjectAssumption DEF Render, Free, IInv, TypeOK
<1>2. PICK st, tm : /\ st = Closing(current) /\ tm = Cleared(current)
                    /\ Connect(e, st, tm)
  BY DEF Render
<1>3. /\ \A x \in Sock : st[x] \in {"none", "closing"} /\ (st[x] = "none" <=> state[x] = "none")
      /\ \A f \in Effect : tm[f] = 0
  BY <1>2, CleanUp
<1>4. tm \in [Effect -> 0..MaxDelay] /\ st \in [Sock -> {"none", "connecting", "open", "closing"}]
  <2>1. 0 \in 0..MaxDelay
    BY DelayConstants
  <2> QED
    BY <1>2, <2>1 DEF Cleared, Closing, IInv, TypeOK
<1>5. CASE NoUrl
  <2>1. /\ timer' = [tm EXCEPT ![e] = 1000] /\ state' = st
        /\ socket' = [socket EXCEPT ![e] = NoSock] /\ effectOf' = effectOf
    BY <1>2, <1>5 DEF Connect
  <2>2. timer'[e] = 1000 /\ socket'[e] = NoSock
    BY <1>4, <2>1 DEF IInv, TypeOK
  <2>3. Quiet(e, {})
    BY <1>1, <1>3, <1>4, <2>1 DEF Quiet, IInv, TypeOK
  <2> QED
    BY <2>2, <2>3, ConnectWaits DEF IInv, Connections
<1>6. CASE ~ NoUrl
  <2>1. PICK s \in Sock :
          /\ st[s] = "none"
          /\ state' = [st EXCEPT ![s] = "connecting"]
          /\ effectOf' = [effectOf EXCEPT ![s] = e]
          /\ socket' = [socket EXCEPT ![e] = s]
          /\ timer' = tm
    BY <1>2, <1>6 DEF Connect
  <2>2. /\ state[s] = "none" /\ state'[s] = "connecting" /\ effectOf'[s] = e
        /\ socket'[e] = s /\ timer'[e] = 0
    BY <1>3, <1>4, <2>1 DEF IInv, TypeOK
  <2>3. Quiet(e, {s})
    BY <1>1, <1>3, <1>4, <2>1 DEF Quiet, IInv, TypeOK
  <2> QED
    BY <2>2, <2>3, ConnectOpens DEF IInv, Connections
<1> QED
  BY <1>5, <1>6

LEMMA TimerFiresKeeps ==
  ASSUME IInv, NEW e \in Effect, TimerFires(e)
  PROVE  Connections'
<1>1. Armed = {e} /\ Live = {} /\ e = current /\ project # NoProject /\ target[e] = project
  BY DEF TimerFires, IInv, OneConnection, ServesThisProject, Armed
<1>2. /\ current' = e /\ project' # NoProject /\ target'[e] = project'
      /\ \A x \in Sock : state[x] # "none" => effectOf[x] # e
  BY <1>1 DEF TimerFires, IInv, TypeOK, SocketsKnown, Live
<1>3. /\ \A x \in Sock : state[x] \in {"none", "closing"}
      /\ \A f \in Effect : f # e => timer[f] = 0
  BY <1>1 DEF Live, Armed, IInv, TypeOK
<1>4. CASE NoUrl
  <2>1. /\ timer' = [[timer EXCEPT ![e] = 0] EXCEPT ![e] = 1000] /\ state' = state
        /\ socket' = [socket EXCEPT ![e] = NoSock] /\ effectOf' = effectOf
    BY <1>4 DEF TimerFires, Connect
  <2>2. timer'[e] = 1000 /\ socket'[e] = NoSock
    BY <2>1 DEF IInv, TypeOK
  <2>3. Quiet(e, {})
    BY <1>2, <1>3, <2>1 DEF Quiet, IInv, TypeOK
  <2> QED
    BY <2>2, <2>3, ConnectWaits DEF IInv, Connections
<1>5. CASE ~ NoUrl
  <2>1. PICK s \in Sock :
          /\ state[s] = "none"
          /\ state' = [state EXCEPT ![s] = "connecting"]
          /\ effectOf' = [effectOf EXCEPT ![s] = e]
          /\ socket' = [socket EXCEPT ![e] = s]
          /\ timer' = [timer EXCEPT ![e] = 0]
    BY <1>5 DEF TimerFires, Connect
  <2>2. /\ state'[s] = "connecting" /\ effectOf'[s] = e
        /\ socket'[e] = s /\ timer'[e] = 0
    BY <2>1 DEF IInv, TypeOK
  <2>3. Quiet(e, {s})
    BY <1>2, <1>3, <2>1 DEF Quiet, IInv, TypeOK
  <2> QED
    BY <2>1, <2>2, <2>3, ConnectOpens DEF IInv, Connections
<1> QED
  BY <1>4, <1>5

LEMMA RenderNothingKeeps ==
  ASSUME IInv, RenderNothing
  PROVE  Connections'
<1>1. /\ \A x \in Sock : /\ state'[x] \in {"none", "closing"}
                         /\ state'[x] = "none" <=> state[x] = "none"
      /\ \A f \in Effect : timer'[f] = 0
  BY CleanUp DEF RenderNothing
<1>2. project' = NoProject /\ current' = NoEffect /\ socket' = socket /\ effectOf' = effectOf
  BY DEF RenderNothing
<1>3. Live' = {} /\ Armed' = {}
  BY <1>1 DEF Live, Armed
<1>4. SocketsKnown'
  BY <1>1, <1>2, NoEffectAssumption DEF SocketsKnown, IInv, TypeOK
<1> QED
  BY <1>2, <1>3, <1>4 DEF Connections, OneConnection, ServesThisProject

LEMMA OnCloseKeeps ==
  ASSUME IInv, NEW s \in Sock, NEW code, OnClose(s, code), state[s] # "none"
  PROVE  Connections'
<1> DEFINE e == effectOf[s]
<1>1. e \in Effect /\ socket[e] = s
  BY DEF IInv, TypeOK, SocketsKnown
<1>2. /\ state' = [state EXCEPT ![s] = "none"] /\ socket' = [socket EXCEPT ![e] = NoSock]
      /\ UNCHANGED <<project, current, target, effectOf>>
  BY <1>1 DEF OnClose
<1>3. SocketsKnown'
  BY <1>1, <1>2 DEF IInv, TypeOK, SocketsKnown
<1>4. Live' = Live \ {s}
  BY <1>2 DEF Live, IInv, TypeOK
<1>5. CASE closedByEffect[e]
  <2>1. Armed' = Armed /\ e # current
    BY <1>1, <1>5 DEF OnClose, Armed, IInv, RunsKnown
  <2>2. s \notin Live
    BY <2>1 DEF IInv, ServesThisProject
  <2> QED
    BY <1>2, <1>3, <1>4, <2>1, <2>2 DEF Connections, IInv, OneConnection, ServesThisProject
<1>6. CASE ~ closedByEffect[e]
  <2>1. e = current /\ s \in Live
    BY <1>1, <1>6 DEF IInv, TypeOK, RunsKnown, SocketsKnown, Live
  <2>2. Live = {s} /\ Armed = {} /\ project # NoProject /\ target[e] = project
    BY <2>1 DEF IInv, OneConnection, ServesThisProject
  <2>3. \A base \in {1000, 5000} : Delay(base, attempt[e]) # 0
    BY <1>1, DelayBounds DEF IInv, TypeOK
  <2>4. PICK d \in Int : d # 0 /\ timer' = [timer EXCEPT ![e] = d]
    BY <1>6, <2>3, <1>1, DelayBounds DEF OnClose, IInv, TypeOK
  <2>5. Armed' = {e}
    BY <1>1, <2>2, <2>4 DEF Armed, IInv, TypeOK
  <2> QED
    BY <1>2, <1>3, <1>4, <2>1, <2>2, <2>5 DEF Connections, OneConnection, ServesThisProject
<1> QED
  BY <1>5, <1>6

LEMMA InvariantKept == IInv /\ [Next]_vars => IInv'
<1> SUFFICES ASSUME IInv, [Next]_vars PROVE IInv'
  OBVIOUS
<1>1. TypeOK' /\ RunsKnown'
  BY TypeKept, RunsKept DEF IInv
<1>2. ASSUME NEW s \in Sock, Opens(s) PROVE Connections'
  <2>1. /\ state' = [state EXCEPT ![s] = "open"] /\ state[s] = "connecting"
        /\ UNCHANGED <<project, current, target, socket, timer, effectOf>>
    BY <1>2 DEF Opens
  <2>2. Live' = Live /\ Armed' = Armed
    BY <2>1 DEF Live, Armed, IInv, TypeOK
  <2>3. SocketsKnown'
    BY <2>1, NoSockAssumption DEF IInv, TypeOK, SocketsKnown
  <2> QED
    BY <2>1, <2>2, <2>3 DEF Connections, IInv, OneConnection, ServesThisProject
<1>3. ASSUME NEW s \in Sock, Rejects(s) \/ Fails(s) \/ Drops(s) \/ CloseEvent(s)
      PROVE  Connections'
  <2>1. PICK code : OnClose(s, code) /\ state[s] # "none"
    BY <1>3 DEF Rejects, Fails, Drops, CloseEvent
  <2> QED
    BY <2>1, OnCloseKeeps
<1>4. ASSUME TokenObtained \/ TokenExpires \/ TokenCleared \/ ServerFlips \/ UNCHANGED vars
      PROVE  Connections'
  <2>1. UNCHANGED <<project, current, target, socket, timer, state, effectOf>>
    BY <1>4 DEF TokenObtained, TokenExpires, TokenCleared, ServerFlips, vars, closure, browser
  <2>2. Live' = Live /\ Armed' = Armed
    BY <2>1 DEF Live, Armed
  <2>3. SocketsKnown'
    BY <2>1 DEF IInv, SocketsKnown
  <2> QED
    BY <2>1, <2>2, <2>3 DEF Connections, IInv, OneConnection, ServesThisProject
<1>5. ASSUME NEW s \in Sock, SocketSettles(s) \/ Drops(s) \/ CloseEvent(s)
      PROVE  Connections'
  BY <1>2, <1>3, <1>5 DEF SocketSettles
<1>6. Connections'
  BY <1>4, <1>5, RenderKeeps, RenderNothingKeeps, TimerFiresKeeps DEF Next
<1> QED
  BY <1>1, <1>6 DEF IInv, Connections

LEMMA InvariantHolds == Spec => []IInv
<1>1. Init => IInv
  <2> SUFFICES ASSUME Init PROVE IInv
    OBVIOUS
  <2>1. 0 \in 0..MaxDelay /\ 0 \in 0..MaxAttempt
    BY DelayConstants DEF MaxAttempt
  <2>2. TypeOK
    BY <2>1 DEF Init, TypeOK
  <2>3. RunsKnown /\ SocketsKnown
    BY NoEffectAssumption DEF Init, RunsKnown, SocketsKnown
  <2>4. Live = {} /\ Armed = {}
    BY DEF Init, Live, Armed
  <2>5. OneConnection /\ ServesThisProject
    BY <2>4 DEF Init, OneConnection, ServesThisProject
  <2> QED
    BY <2>2, <2>3, <2>5 DEF IInv
<1> QED
  BY <1>1, InvariantKept, PTL DEF Spec

\* The hook's variables always have their types; in particular the delay of a
\* reconnect stays within 30 seconds (plus jitter) however often it fails.
THEOREM TypeCorrect == Spec => []TypeOK
<1>1. IInv => TypeOK
  BY DEF IInv
<1> QED
  BY <1>1, InvariantHolds, PTL

\* However the runs, the callbacks of old sockets, the token and the server
\* interleave, the hook has one socket or one armed timer while a project is
\* shown, and neither otherwise.
THEOREM OneConnectionHolds == Spec => []OneConnection
<1>1. IInv => OneConnection
  BY DEF IInv
<1> QED
  BY <1>1, InvariantHolds, PTL

\* Whatever is alive belongs to the project on the page.
THEOREM ServesThisProjectHolds == Spec => []ServesThisProject
<1>1. IInv => ServesThisProject
  BY DEF IInv
<1> QED
  BY <1>1, InvariantHolds, PTL

\* connect() and the clean-up before it: "open" stays the status only of a
\* connect() without a token, and no socket loses its close event.
LEMMA ConnectStatus ==
  ASSUME StatusNotStuckOpen, NEW e \in Effect, NEW st, NEW tm, Connect(e, st, tm),
         \A s \in Sock : state[s] \in {"open", "closing"} => st[s] \in {"open", "closing"}
  PROVE  StatusNotStuckOpen'
<1>1. CASE NoUrl
  BY <1>1 DEF Connect, StatusNotStuckOpen
<1>2. CASE ~ NoUrl
  BY <1>2 DEF Connect, StatusNotStuckOpen
<1> QED BY <1>1, <1>2

LEMMA StatusStep ==
  ASSUME TypeOK, StatusNotStuckOpen, [Next]_vars
  PROVE  StatusNotStuckOpen'
<1>1. ASSUME NEW p \in Project, NEW e \in Effect, Render(p, e) PROVE StatusNotStuckOpen'
  <2>1. \A s \in Sock : state[s] \in {"open", "closing"} => Closing(current)[s] \in {"open", "closing"}
    BY DEF Closing
  <2>2. Connect(e, Closing(current), Cleared(current))
    BY <1>1 DEF Render
  <2> QED BY <2>1, <2>2, ConnectStatus
<1>2. CASE RenderNothing
  BY <1>2 DEF RenderNothing, StatusNotStuckOpen
<1>3. ASSUME NEW e \in Effect, TimerFires(e) PROVE StatusNotStuckOpen'
  BY <1>3, ConnectStatus DEF TimerFires
<1>4. ASSUME NEW s \in Sock, Opens(s) PROVE StatusNotStuckOpen'
  <2>1. state'[s] = "open"
    BY <1>4 DEF Opens, TypeOK
  <2> QED BY <2>1 DEF StatusNotStuckOpen
<1>5. ASSUME NEW s \in Sock, Rejects(s) \/ Fails(s) \/ Drops(s) \/ CloseEvent(s)
      PROVE  StatusNotStuckOpen'
  BY <1>5 DEF Rejects, Fails, Drops, CloseEvent, OnClose, StatusNotStuckOpen
<1>6. CASE TokenObtained \/ TokenExpires \/ TokenCleared \/ ServerFlips \/ UNCHANGED vars
  BY <1>6 DEF TokenObtained, TokenExpires, TokenCleared, ServerFlips, vars, closure, browser, StatusNotStuckOpen
<1> QED BY <1>1, <1>2, <1>3, <1>4, <1>5, <1>6 DEF Next, SocketSettles

\* The status is not "open" for ever without a socket: whoever replaces or closes
\* the open one leaves a close event to come, which sets the status.
THEOREM StatusNeverStuck == Spec => []StatusNotStuckOpen
<1>1. Init => StatusNotStuckOpen
  BY DEF Init, StatusNotStuckOpen
<1>2. TypeOK /\ StatusNotStuckOpen /\ [Next]_vars => StatusNotStuckOpen'
  BY StatusStep
<1> QED BY <1>1, <1>2, TypeCorrect, PTL DEF Spec

-----------------------------------------------------------------------------
(* The hook implements ProjectLink.                                        *)

\* Only the room of the project on the page is heard, through its one socket.
LEMMA RoomsKnown ==
  ASSUME IInv
  PROVE  /\ \A s \in Sock : state[s] = "open" => Live = {s} /\ Rooms = {project} /\ project # NoProject
         /\ (\A s \in Sock : state[s] # "open") => Rooms = {}
<1>1. ASSUME NEW s \in Sock, state[s] = "open"
      PROVE  Live = {s} /\ Rooms = {project} /\ project # NoProject
  <2>1. s \in Live
    BY <1>1 DEF Live
  <2>2. Live = {s} /\ project # NoProject
    BY <2>1 DEF IInv, OneConnection
  <2>3. target[effectOf[s]] = project
    BY <2>1 DEF IInv, ServesThisProject
  <2>4. {t \in Sock : state[t] = "open"} = {s}
    BY <1>1, <2>2 DEF Live
  <2> QED BY <2>2, <2>3, <2>4 DEF Rooms
<1> QED BY <1>1 DEF Rooms

\* connect() opens nothing by itself.
LEMMA ConnectOpensNone ==
  ASSUME NEW e \in Effect, NEW st \in [Sock -> {"none", "connecting", "open", "closing"}], NEW tm,
         Connect(e, st, tm), NEW s \in Sock, state'[s] = "open"
  PROVE  st[s] = "open"
BY DEF Connect

\* The clean-up leaves no socket open.
LEMMA ClosingLeavesNone ==
  ASSUME IInv
  PROVE  /\ Closing(current) \in [Sock -> {"none", "connecting", "open", "closing"}]
         /\ \A s \in Sock : Closing(current)[s] # "open"
<1>1. ASSUME NEW s \in Sock, state[s] = "open" PROVE current # NoEffect /\ s = socket[current]
  <2>1. effectOf[s] = current /\ effectOf[s] \in Effect
    BY <1>1 DEF IInv, TypeOK, ServesThisProject, Live
  <2>2. socket[effectOf[s]] = s
    BY <1>1 DEF IInv, SocketsKnown
  <2> QED BY <2>1, <2>2, NoEffectAssumption
<1> QED BY <1>1 DEF Closing, IInv, TypeOK

LEMMA StepImplementsLink ==
  ASSUME IInv, IInv', [Next]_vars
  PROVE  [Link!Next]_<<project, Rooms>>
<1> USE DEF Link!Next, Link!Show, Link!Up, Link!Down
<1>1. ASSUME NEW p \in Project, NEW e \in Effect, Render(p, e) PROVE Link!Show(p)
  <2>1. p # project /\ project' = p
    BY <1>1 DEF Render
  <2>2. Connect(e, Closing(current), Cleared(current))
    BY <1>1 DEF Render
  <2>3. \A s \in Sock : state'[s] # "open"
    BY <2>2, ClosingLeavesNone, ConnectOpensNone
  <2>4. Rooms' = {}
    BY <2>3 DEF Rooms
  <2> QED BY <2>1, <2>4
<1>2. CASE RenderNothing
  <2>1. project # NoProject /\ project' = NoProject
    BY <1>2 DEF RenderNothing
  <2>2. \A s \in Sock : state'[s] # "open"
    BY <1>2, ClosingLeavesNone DEF RenderNothing
  <2>3. Rooms' = {}
    BY <2>2 DEF Rooms
  <2> QED BY <2>1, <2>3
<1>3. ASSUME NEW e \in Effect, TimerFires(e) PROVE UNCHANGED <<project, Rooms>>
  <2>1. e \in Armed /\ Live = {}
    BY <1>3 DEF TimerFires, Armed, IInv, OneConnection
  <2>2. \A s \in Sock : state[s] # "open"
    BY <2>1 DEF Live
  <2>3. \A s \in Sock : state'[s] # "open"
    BY <1>3, <2>2, ConnectOpensNone DEF TimerFires, IInv, TypeOK
  <2> QED BY <1>3, <2>2, <2>3 DEF TimerFires, Rooms
<1>4. ASSUME NEW s \in Sock, Opens(s) PROVE Link!Up
  <2>1. s \in Live /\ state[s] = "connecting" /\ state'[s] = "open" /\ UNCHANGED project
    BY <1>4 DEF Opens, Live, IInv, TypeOK
  <2>2. Live = {s}
    BY <2>1 DEF IInv, OneConnection
  <2>3. \A t \in Sock : state[t] # "open"
    BY <2>1, <2>2 DEF Live
  <2>4. Rooms = {}
    BY <2>3 DEF Rooms
  <2>5. Rooms' = {project'} /\ project' # NoProject
    <3>1. s \in Live'
      BY <2>1 DEF Live
    <3>2. Live' = {s} /\ project' # NoProject
      BY <3>1 DEF IInv, OneConnection
    <3>3. target'[effectOf'[s]] = project'
      BY <3>1 DEF IInv, ServesThisProject
    <3>4. {t \in Sock : state'[t] = "open"} = {s}
      BY <2>1, <3>2 DEF Live
    <3> QED BY <3>2, <3>3, <3>4 DEF Rooms
  <2> QED BY <2>1, <2>4, <2>5
<1>5. ASSUME NEW s \in Sock, NEW code, OnClose(s, code)
      PROVE  Link!Down \/ UNCHANGED <<project, Rooms>>
  <2>1. state' = [state EXCEPT ![s] = "none"] /\ UNCHANGED <<project, target, effectOf>>
    BY <1>5 DEF OnClose
  <2>2. CASE state[s] = "open"
    <3>1. Live = {s} /\ Rooms = {project}
      BY <2>2, RoomsKnown
    <3>2. \A t \in Sock : state'[t] # "open"
      BY <2>1, <3>1 DEF Live, IInv, TypeOK
    <3>3. Rooms' = {}
      BY <3>2 DEF Rooms
    <3> QED BY <2>1, <3>1, <3>3
  <2>3. CASE state[s] # "open"
    <3>1. \A t \in Sock : state'[t] = "open" <=> state[t] = "open"
      BY <2>1, <2>3 DEF IInv, TypeOK
    <3> QED BY <2>1, <3>1 DEF Rooms
  <2> QED BY <2>2, <2>3
<1>6. ASSUME NEW s \in Sock, Rejects(s) \/ Fails(s) \/ Drops(s) \/ CloseEvent(s)
      PROVE  Link!Down \/ UNCHANGED <<project, Rooms>>
  BY <1>5, <1>6 DEF Rejects, Fails, Drops, CloseEvent
<1>7. CASE TokenObtained \/ TokenExpires \/ TokenCleared \/ ServerFlips \/ UNCHANGED vars
  BY <1>7 DEF TokenObtained, TokenExpires, TokenCleared, ServerFlips, vars, closure, browser, Rooms
<1> QED BY <1>1, <1>2, <1>3, <1>4, <1>6, <1>7 DEF Next, SocketSettles

\* WebSocketClient!ImplementsLink: for any number of runs, sockets and projects
\* the hook gives the page a link to the room of its project and no other.
THEOREM HookImplementsLink == Spec => ImplementsLink
<1>1. Init => Link!Init
  BY DEF Init, Link!Init, Rooms
<1>2. IInv /\ IInv' /\ [Next]_vars => [Link!Next]_<<project, Rooms>>
  BY StepImplementsLink
<1> QED BY <1>1, <1>2, InvariantHolds, PTL DEF Spec, ImplementsLink, Link!Spec
=============================================================================
