----------------------------- MODULE AuthSession -----------------------------
(***************************************************************************)
(* The session of a browser: its tabs share the tokens in localStorage     *)
(* (api/tokenStore.ts), and each has its own React state (AuthContext.tsx) *)
(* and its own axios client, which on a 401 refreshes the access token and *)
(* repeats the request (api/client.ts).  The server is stateless: a token  *)
(* is known by its user, and can be refused at any time because it has     *)
(* expired or its user is inactive (services/auth_service.py,              *)
(* core/deps.py).                                                          *)
(*                                                                         *)
(* A tab has one call of each kind under way at most: /me of               *)
(* restoreSession; POST register, POST login and /me of the forms; and one *)
(* of its pages' requests.                                                 *)
(***************************************************************************)
CONSTANTS
  Tab, User, NoUser,
  BusyTab    \* bound: the tabs whose forms and pages somebody uses

Kind == {"restore", "register", "login", "me", "data"}
Form == {"register", "login", "me"}
Strand == {{"restore"}, Form, {"data"}}  \* calls of which one follows the other
Call == Tab \X Kind

ASSUME NoUserAssumption == NoUser \notin User

VARIABLES
  access, refresh, \* whose tokens localStorage has
  page,       \* each tab: closed, a form of /login or /register, or the app
  user,       \* user of its AuthContext
  loading,    \* isLoading
  leaving,    \* location.assign was called, the page is still there
  refreshing, \* whose refresh token refreshPromise was started with
  stage, token, retried, \* each call: how far it is, its header, its _retried
  maker,      \* who was shown when a page's request was made
  old,        \* what stems from before the tokens were last replaced or removed
  revived     \* the access token was set by such an old refresh

store == <<access, refresh, revived>>
tab == <<page, user, loading, leaving>>
calls == <<stage, token, retried, maker>>
vars == <<store, tab, refreshing, calls, old>>

\* What can be old: calls, refreshes, and the user a tab shows.
Thing == Tab \X (Kind \cup {"refresh", "user"})

Init ==
  /\ access = NoUser /\ refresh = NoUser /\ revived = FALSE
  /\ page = [t \in Tab |-> "closed"]
  /\ user = [t \in Tab |-> NoUser]
  /\ loading = [t \in Tab |-> FALSE] /\ leaving = [t \in Tab |-> FALSE]
  /\ refreshing = [t \in Tab |-> NoUser]
  /\ stage = [k \in Call |-> "idle"]
  /\ token = [k \in Call |-> NoUser]
  /\ retried = [k \in Call |-> FALSE]
  /\ maker = [k \in Call |-> NoUser]
  /\ old = {}

-----------------------------------------------------------------------------
(* tokenStore.                                                             *)

\* What is there to become old.
Live == {x \in Thing :
          \/ x \in Call /\ stage[x] # "idle"
          \/ x[2] = "refresh" /\ refreshing[x[1]] # NoUser
          \/ x[2] = "user" /\ user[x[1]] # NoUser}

\* Wrong version: the refresh token stays.
ClearAccess == access' = NoUser /\ revived' = FALSE /\ UNCHANGED refresh

Clear == access' = NoUser /\ refresh' = NoUser /\ revived' = FALSE

\* Wrong version: a refresh token that is there is not replaced.
SetAccessOnly(u) ==
  /\ access' = u /\ revived' = FALSE
  /\ refresh' = IF refresh = NoUser THEN u ELSE refresh

SetPair(u) == access' = u /\ refresh' = u /\ revived' = FALSE

-----------------------------------------------------------------------------
(* Calls.                                                                  *)

\* The request interceptor: the header has the token that is stored now.
Send(k) ==
  /\ stage' = [stage EXCEPT ![k] = "sent"]
  /\ token' = [token EXCEPT ![k] = access]
  /\ retried' = [retried EXCEPT ![k] = FALSE]

\* A call ends, and the form goes on with the next.
SendNext(k, next, bearer) ==
  /\ stage' = [stage EXCEPT ![k] = "idle", ![next] = "sent"]
  /\ token' = [token EXCEPT ![k] = NoUser, ![next] = bearer]
  /\ retried' = [retried EXCEPT ![k] = FALSE, ![next] = FALSE]
  /\ UNCHANGED maker

End(k) ==
  /\ stage' = [stage EXCEPT ![k] = "idle"]
  /\ token' = [token EXCEPT ![k] = NoUser]
  /\ retried' = [retried EXCEPT ![k] = FALSE]
  /\ maker' = [maker EXCEPT ![k] = NoUser]

Idle(t, kinds) == \A c \in kinds : stage[<<t, c>>] = "idle"

\* A page fetches or changes something.
Request(t) ==
  /\ page[t] = "app" /\ ~ loading[t] /\ user[t] # NoUser
  /\ Idle(t, {"data"}) /\ t \in BusyTab
  /\ Send(<<t, "data">>)
  /\ maker' = [maker EXCEPT ![<<t, "data">>] = user[t]]
  /\ old' = IF revived \/ <<t, "user">> \in old THEN old \cup {<<t, "data">>} ELSE old
  /\ UNCHANGED <<store, tab, refreshing>>

\* LoginPage or RegisterPage is submitted.
Submit(t, c) ==
  /\ page[t] = "form" /\ c \in {"register", "login"} /\ t \in BusyTab
  /\ Idle(t, Form)
  /\ Send(<<t, c>>)
  /\ UNCHANGED <<store, tab, refreshing, maker, old>>

\* register: an account is created; login follows.
Registered(t) ==
  /\ stage[<<t, "register">>] = "sent"
  /\ SendNext(<<t, "register">>, <<t, "login">>, access)
  /\ old' = old \ {<<t, "register">>, <<t, "login">>}
  /\ UNCHANGED <<store, tab, refreshing>>

\* login: the pair is stored, and /me asked with it.
LoggedIn(t, u) ==
  /\ stage[<<t, "login">>] = "sent"
  /\ SetPair(u)
  /\ SendNext(<<t, "login">>, <<t, "me">>, u)
  /\ old' = Live \ {<<t, "login">>}
  /\ UNCHANGED <<tab, refreshing>>

\* /me answers; the form then navigates to the app.
ShowUser(t, c) ==
  /\ c \in {"restore", "me"} /\ stage[<<t, c>>] = "sent" /\ token[<<t, c>>] # NoUser
  /\ user' = [user EXCEPT ![t] = token[<<t, c>>]]
  /\ old' = IF <<t, c>> \in old THEN (old \ {<<t, c>>}) \cup {<<t, "user">>}
                                ELSE old \ {<<t, "user">>}
  /\ IF c = "me" THEN page' = [page EXCEPT ![t] = "app"] /\ UNCHANGED loading
                 ELSE loading' = [loading EXCEPT ![t] = FALSE] /\ UNCHANGED page
  /\ End(<<t, c>>)
  /\ UNCHANGED <<store, leaving, refreshing>>

Respond(t) ==
  /\ stage[<<t, "data">>] = "sent" /\ token[<<t, "data">>] # NoUser
  /\ End(<<t, "data">>) /\ old' = old \ {<<t, "data">>}
  /\ UNCHANGED <<store, tab, refreshing>>

\* ProtectedRoute, once nothing is loading.
Shown(t, u) == IF u = NoUser /\ page[t] = "app" THEN "form" ELSE page[t]

\* The call's promise rejects.  restoreSession then removes the tokens,
\* whatever the reason; a form shows an error.
Rejected(t, c) ==
  /\ End(<<t, c>>)
  /\ IF c = "restore"
       THEN /\ Clear /\ old' = Live \ {<<t, c>>}
            /\ loading' = [loading EXCEPT ![t] = FALSE]
            /\ page' = [page EXCEPT ![t] = Shown(t, user[t])]
       ELSE old' = old \ {<<t, c>>} /\ UNCHANGED <<store, loading, page>>
  /\ UNCHANGED <<user, leaving, refreshing>>

\* Anything but a 401: no connection, a 409, a 500.
Fails(t, c) == stage[<<t, c>>] = "sent" /\ Rejected(t, c)

-----------------------------------------------------------------------------
(* The response interceptor.                                               *)

\* A 401: the token is missing, expired or of an inactive user; or the
\* password is wrong.
Refused(t, c) == stage[<<t, c>>] = "sent" /\ c # "register"

\* Wrong version: without _retried.
GivesUpLate(t, c) == refresh = NoUser

\* It was refreshed already, or cannot be.
GivesUp(t, c) == retried[<<t, c>>] \/ refresh = NoUser

\* Wrong version: nobody starts the refresh.
AwaitOwnRefresh(t, c) ==
  /\ Refused(t, c) /\ ~ GivesUp(t, c)
  /\ stage' = [stage EXCEPT ![<<t, c>>] = "waiting"]
  /\ token' = [token EXCEPT ![<<t, c>>] = NoUser]
  /\ retried' = [retried EXCEPT ![<<t, c>>] = TRUE]
  /\ UNCHANGED <<store, tab, refreshing, maker, old>>

Reject401(t, c) == Refused(t, c) /\ GivesUp(t, c) /\ Rejected(t, c)

\* The call waits for refreshPromise, which is started if there is none.
AwaitRefresh(t, c) ==
  /\ Refused(t, c) /\ ~ GivesUp(t, c)
  /\ stage' = [stage EXCEPT ![<<t, c>>] = "waiting"]
  /\ token' = [token EXCEPT ![<<t, c>>] = NoUser]
  /\ retried' = [retried EXCEPT ![<<t, c>>] = TRUE]
  /\ IF refreshing[t] = NoUser
       THEN refreshing' = [refreshing EXCEPT ![t] = refresh] /\ old' = old \ {<<t, "refresh">>}
       ELSE UNCHANGED <<refreshing, old>>
  /\ UNCHANGED <<store, tab, maker>>

Waiting(t) == {k \in {t} \X Kind : stage[k] = "waiting"}

\* The new access token is stored, and the waiting calls are sent with it.
Refreshed(t) ==
  /\ refreshing[t] # NoUser
  /\ access' = refreshing[t] /\ UNCHANGED refresh
  /\ revived' = (revived \/ <<t, "refresh">> \in old)
  /\ refreshing' = [refreshing EXCEPT ![t] = NoUser]
  /\ stage' = [k \in Call |-> IF k \in Waiting(t) THEN "sent" ELSE stage[k]]
  /\ token' = [k \in Call |-> IF k \in Waiting(t) THEN refreshing[t] ELSE token[k]]
  /\ old' = IF <<t, "refresh">> \in old THEN (old \cup Waiting(t)) \ {<<t, "refresh">>}
                                        ELSE old \ (Waiting(t) \ {<<t, "data">>})
  /\ UNCHANGED <<tab, retried, maker>>

\* The refresh token is refused, or there is no connection.  All waiting calls
\* reject, and the browser is sent to /login.
RefreshFails(t) ==
  /\ refreshing[t] # NoUser
  /\ Clear
  /\ leaving' = [leaving EXCEPT ![t] = TRUE]
  /\ refreshing' = [refreshing EXCEPT ![t] = NoUser]
  /\ stage' = [k \in Call |-> IF k \in Waiting(t) THEN "idle" ELSE stage[k]]
  /\ retried' = [k \in Call |-> retried[k] /\ k \notin Waiting(t)]
  /\ maker' = [k \in Call |-> IF k \in Waiting(t) THEN NoUser ELSE maker[k]]
  /\ loading' = [loading EXCEPT ![t] = @ /\ stage[<<t, "restore">>] # "waiting"]
  /\ page' = [page EXCEPT ![t] = IF loading'[t] THEN @ ELSE Shown(t, user[t])]
  /\ old' = Live \ (Waiting(t) \cup {<<t, "refresh">>})
  /\ UNCHANGED <<user, token>>

-----------------------------------------------------------------------------
(* The tab.                                                                *)

Logout(t) ==
  /\ page[t] = "app" /\ ~ loading[t] /\ user[t] # NoUser
  /\ Clear /\ old' = Live \ {<<t, "user">>}
  /\ user' = [user EXCEPT ![t] = NoUser]
  /\ page' = [page EXCEPT ![t] = "form"]
  /\ UNCHANGED <<loading, leaving, refreshing, calls>>

\* The page is loaded, at /login if it was sent there: restoreSession.
Open(t, there) ==
  /\ page[t] = "closed" /\ there \in {"form", "app"} /\ (leaving[t] => there = "form")
  /\ leaving' = [leaving EXCEPT ![t] = FALSE]
  /\ IF access = NoUser /\ refresh = NoUser
       THEN page' = [page EXCEPT ![t] = "form"] /\ UNCHANGED <<loading, calls, old>>
       ELSE /\ page' = [page EXCEPT ![t] = there]
            /\ loading' = [loading EXCEPT ![t] = TRUE]
            /\ Send(<<t, "restore">>) /\ UNCHANGED <<maker, old>>
  /\ UNCHANGED <<store, user, refreshing>>

\* The page is closed or unloaded, with everything under way.
Close(t) ==
  /\ page[t] # "closed"
  /\ page' = [page EXCEPT ![t] = "closed"]
  /\ user' = [user EXCEPT ![t] = NoUser]
  /\ loading' = [loading EXCEPT ![t] = FALSE]
  /\ refreshing' = [refreshing EXCEPT ![t] = NoUser]
  /\ stage' = [k \in Call |-> IF k[1] = t THEN "idle" ELSE stage[k]]
  /\ token' = [k \in Call |-> IF k[1] = t THEN NoUser ELSE token[k]]
  /\ retried' = [k \in Call |-> k[1] # t /\ retried[k]]
  /\ maker' = [k \in Call |-> IF k[1] = t THEN NoUser ELSE maker[k]]
  /\ old' = {x \in old : x[1] # t}
  /\ UNCHANGED <<store, leaving>>

-----------------------------------------------------------------------------
Answer(t, c) ==
  \/ c = "register" /\ Registered(t)
  \/ c = "login" /\ \E u \in User : LoggedIn(t, u)
  \/ ShowUser(t, c)
  \/ c = "data" /\ Respond(t)

Settle(t, c) == Answer(t, c) \/ Fails(t, c) \/ Reject401(t, c) \/ AwaitRefresh(t, c)
SettleRefresh(t) == Refreshed(t) \/ RefreshFails(t)
Load(t) == Close(t) \/ \E there \in {"form", "app"} : Open(t, there)

Next ==
  \E t \in Tab :
    \/ Request(t) \/ Logout(t) \/ Load(t) \/ SettleRefresh(t)
    \/ \E c \in Kind : Submit(t, c) \/ Settle(t, c)

Spec == Init /\ [][Next]_vars

\* Every request is answered in some way, and the browser goes where it is sent.
Fairness ==
  \A t \in Tab :
    /\ WF_vars(SettleRefresh(t)) /\ WF_vars(leaving[t] /\ Load(t))
    /\ \A s \in Strand : WF_vars(\E c \in s : Settle(t, c))

FairSpec == Spec /\ Fairness

-----------------------------------------------------------------------------
(* Properties.                                                             *)

\* Every variable has its type.
TypeOK ==
  /\ access \in User \cup {NoUser} /\ refresh \in User \cup {NoUser} /\ revived \in BOOLEAN
  /\ page \in [Tab -> {"closed", "form", "app"}]
  /\ user \in [Tab -> User \cup {NoUser}]
  /\ loading \in [Tab -> BOOLEAN] /\ leaving \in [Tab -> BOOLEAN]
  /\ refreshing \in [Tab -> User \cup {NoUser}]
  /\ stage \in [Call -> {"idle", "sent", "waiting"}]
  /\ token \in [Call -> User \cup {NoUser}]
  /\ retried \in [Call -> BOOLEAN] /\ maker \in [Call -> User \cup {NoUser}]
  /\ old \in SUBSET Live

\* Whatever tabs, refreshes and forms race, the tokens are of one user and that
\* user is the one a tab shows, unless an answer came in from before the
\* tokens were last replaced or removed.
SessionsAgree ==
  revived \/ ( /\ access = refresh
               /\ \A t \in Tab : user[t] # NoUser /\ <<t, "user">> \notin old => user[t] = access )

\* A page's request is carried out in the name of the user who made it, also when
\* it is repeated after a refresh, with the same exception.
InNameOfMaker ==
  \A t \in Tab :
    stage[<<t, "data">>] = "sent" /\ <<t, "data">> \notin old => token[<<t, "data">>] = maker[<<t, "data">>]

\* Nobody waits for a refresh that is over ("Coalesces concurrent 401s into a
\* single in-flight refresh call", client.ts).
WaitersServed == \A t \in Tab : Waiting(t) # {} <=> refreshing[t] # NoUser

\* Restoring a session, submitting a form and a page's request come to an end: a
\* call is repeated once and not for ever.
CallsEnd == \A t \in Tab, s \in Strand : ~ Idle(t, s) ~> Idle(t, s)

\* If nobody submits a form, the browser is not sent to /login for ever.
ReloadsEnd == <>[](\A t \in Tab : Idle(t, Form)) => \A t \in Tab : <>[]~ leaving[t]
=============================================================================
