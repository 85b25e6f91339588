-------------------------- MODULE AuthSessionProofs --------------------------
(***************************************************************************)
(* TLAPS proofs about module AuthSession, for any number of tabs and       *)
(* users: what is not old agrees with the stored tokens.                   *)
(***************************************************************************)
EXTENDS AuthSession, TLAPS

\* TypeOK in two parts, with the members of old apart.
Types ==
  /\ access \in User \cup {NoUser} /\ refresh \in User \cup {NoUser} /\ revived \in BOOLEAN
  /\ page \in [Tab -> {"closed", "form", "app"}]
  /\ user \in [Tab -> User \cup {NoUser}]
  /\ loading \in [Tab -> BOOLEAN] /\ leaving \in [Tab -> BOOLEAN]
  /\ refreshing \in [Tab -> User \cup {NoUser}]
  /\ stage \in [Call -> {"idle", "sent", "waiting"}]
  /\ token \in [Call -> User \cup {NoUser}]
  /\ retried \in [Call -> BOOLEAN] /\ maker \in [Call -> User \cup {NoUser}]

OldLive ==
  /\ old \subseteq Thing
  /\ \A t \in Tab :
       /\ <<t, "user">> \in old => user[t] # NoUser
       /\ <<t, "refresh">> \in old => refreshing[t] # NoUser
       /\ \A c \in Kind : <<t, c>> \in old => stage[<<t, c>>] # "idle"

\* The stored pair and the users shown.
Pair == ~ revived => access = refresh

Users ==
  \A t \in Tab : user[t] # NoUser /\ <<t, "user">> \notin old /\ ~ revived => user[t] = access

\* Calls and refreshes under way.
Headers ==
  \A t \in Tab, c \in Kind :
    stage[<<t, c>>] = "sent" /\ <<t, c>> \notin old /\ ~ revived => token[<<t, c>>] = access

Refreshes ==
  \A t \in Tab : refreshing[t] # NoUser /\ <<t, "refresh">> \notin old => refreshing[t] = refresh

\* A page's request is its maker's also while it waits, and although the access
\* token may be revived.
Makers ==
  \A t \in Tab : stage[<<t, "data">>] # "idle" /\ <<t, "data">> \notin old =>
    /\ maker[<<t, "data">>] = refresh
    /\ stage[<<t, "data">>] = "sent" => token[<<t, "data">>] = maker[<<t, "data">>]

\* WaitersServed, call by call.
Served ==
  \A t \in Tab : (\E c \in Kind : stage[<<t, c>>] = "waiting") <=> refreshing[t] # NoUser

\* Nothing is sent over a call that is under way.
ClosedIdle == \A t \in Tab : page[t] = "closed" => Idle(t, Kind) /\ refreshing[t] = NoUser

OneForm ==
  \A t \in Tab, c, d \in Form : stage[<<t, c>>] # "idle" /\ stage[<<t, d>>] # "idle" => c = d

IInv ==
  /\ Types /\ OldLive /\ Pair /\ Users /\ Headers /\ Refreshes /\ Makers /\ Served
  /\ ClosedIdle /\ OneForm

-----------------------------------------------------------------------------
(* One lemma for each action.                                              *)

LEMMA LiveIs ==
  ASSUME NEW t \in Tab
  PROVE  /\ <<t, "user">> \in Live <=> user[t] # NoUser
         /\ <<t, "refresh">> \in Live <=> refreshing[t] # NoUser
         /\ \A c \in Kind : <<t, c>> \in Live <=> stage[<<t, c>>] # "idle"
         /\ Live \subseteq Thing
BY DEF Live, Thing, Call, Kind

LEMMA ServedKept ==
  ASSUME Served, refreshing' = refreshing,
         \A s \in Tab, d \in Kind : stage'[<<s, d>>] = "waiting" <=> stage[<<s, d>>] = "waiting"
  PROVE  Served'
BY DEF Served

LEMMA OneFormKept ==
  ASSUME OneForm,
         \A s \in Tab, d \in Kind : stage'[<<s, d>>] # "idle" => stage[<<s, d>>] # "idle"
  PROVE  OneForm'
BY DEF OneForm, Form, Kind

LEMMA HeadersKept ==
  ASSUME Headers, access' = access, revived' = revived,
         \A s \in Tab, d \in Kind :
           stage'[<<s, d>>] = "sent" =>
             /\ stage[<<s, d>>] = "sent" /\ token'[<<s, d>>] = token[<<s, d>>]
             /\ <<s, d>> \in old => <<s, d>> \in old'
  PROVE  Headers'
BY DEF Headers

LEMMA OneMoreWaits ==
  ASSUME Served, NEW t \in Tab, NEW c \in Kind, refreshing'[t] # NoUser,
         \A s \in Tab : s # t => refreshing'[s] = refreshing[s],
         \A s \in Tab, d \in Kind :
           stage'[<<s, d>>] = "waiting" <=> stage[<<s, d>>] = "waiting" \/ (s = t /\ d = c)
  PROVE  Served'
BY DEF Served

LEMMA ServedReleased ==
  ASSUME Served, NEW t \in Tab, refreshing'[t] = NoUser,
         \A s \in Tab : s # t => refreshing'[s] = refreshing[s],
         \A s \in Tab, d \in Kind : stage'[<<s, d>>] = "waiting" <=> stage[<<s, d>>] = "waiting" /\ s # t
  PROVE  Served'
BY DEF Served

\* A step of one tab.
LEMMA ClosedIdleKept ==
  ASSUME ClosedIdle, NEW t \in Tab,
         \A s \in Tab : s # t => page'[s] = page[s] /\ refreshing'[s] = refreshing[s],
         \A s \in Tab, d \in Kind : s # t => stage'[<<s, d>>] = stage[<<s, d>>],
         page'[t] = "closed" => refreshing'[t] = NoUser /\ \A d \in Kind : stage'[<<t, d>>] = "idle"
  PROVE  ClosedIdle'
BY DEF ClosedIdle, Idle

LEMMA NotClosed ==
  ASSUME ClosedIdle, NEW t \in Tab, NEW c \in Kind,
         stage[<<t, c>>] # "idle" \/ refreshing[t] # NoUser
  PROVE  page[t] # "closed"
BY DEF ClosedIdle, Idle

\* A form starts its calls, or goes on with the next.
LEMMA OneFormStarts ==
  ASSUME OneForm, NEW t \in Tab, NEW c \in Kind,
         \A d \in Form : stage[<<t, d>>] = "idle" \/ c \notin Form,
         \A s \in Tab, d \in Kind :
           stage'[<<s, d>>] # "idle" => stage[<<s, d>>] # "idle" \/ (s = t /\ d = c)
  PROVE  OneForm'
<1> SUFFICES ASSUME NEW s \in Tab, NEW x \in Form, NEW y \in Form,
                    stage'[<<s, x>>] # "idle", stage'[<<s, y>>] # "idle"
             PROVE  x = y
  BY DEF OneForm
<1>1. Form \subseteq Kind
  BY DEF Form, Kind
<1>2. ASSUME NEW z \in Form, stage'[<<s, z>>] # "idle"
      PROVE  stage[<<s, z>>] # "idle" \/ (s = t /\ z = c)
  BY <1>1, <1>2
<1>3. CASE s # t \/ c \notin Form
  BY <1>2, <1>3 DEF OneForm
<1>4. CASE s = t /\ c \in Form
  <2>1. x = c /\ y = c
    BY <1>2, <1>4
  <2> QED BY <2>1
<1> QED BY <1>3, <1>4

LEMMA OneFormGoesOn ==
  ASSUME OneForm, NEW t \in Tab, NEW c \in Form, NEW n \in Form,
         stage[<<t, c>>] # "idle", stage'[<<t, c>>] = "idle",
         \A s \in Tab, d \in Kind :
           stage'[<<s, d>>] # "idle" => stage[<<s, d>>] # "idle" \/ (s = t /\ d = n)
  PROVE  OneForm'
<1> SUFFICES ASSUME NEW s \in Tab, NEW x \in Form, NEW y \in Form,
                    stage'[<<s, x>>] # "idle", stage'[<<s, y>>] # "idle"
             PROVE  x = y
  BY DEF OneForm
<1>1. Form \subseteq Kind
  BY DEF Form, Kind
<1>2. ASSUME NEW z \in Form, stage'[<<s, z>>] # "idle"
      PROVE  stage[<<s, z>>] # "idle" \/ (s = t /\ z = n)
  BY <1>1, <1>2
<1>3. CASE s # t
  BY <1>2, <1>3 DEF OneForm
<1>4. CASE s = t
  <2>1. \A z \in Form : stage'[<<t, z>>] # "idle" => z = n
    BY <1>2, <1>4 DEF OneForm
  <2> QED BY <1>4, <2>1
<1> QED BY <1>3, <1>4

LEMMA RequestStep ==
  ASSUME IInv, NEW t \in Tab, Request(t)
  PROVE  IInv'
<1> USE DEF IInv, Types, Call, Kind, store, tab, calls, Request, Send
<1>1. Types' BY DEF Types
<1>2. OldLive'
  <2>1. <<t, "data">> \in Thing
    BY DEF Thing
  <2> QED BY <2>1 DEF OldLive
<1>3. Pair' BY DEF Pair
<1>4. Users' BY DEF Users
<1>5. Headers' BY DEF Headers, Pair
<1>6. Refreshes' BY DEF Refreshes
<1>7. Makers' BY DEF Makers, Users, Pair
<1>8. Served'
  <2>1. \A s \in Tab, d \in Kind : stage'[<<s, d>>] = "waiting" <=> stage[<<s, d>>] = "waiting"
    BY DEF Idle, Form, OneForm
  <2>2. refreshing' = refreshing /\ Served
    OBVIOUS
  <2> HIDE DEF IInv, Types, Call, Kind, Request
  <2> QED BY <2>1, <2>2, ServedKept
<1>9. ClosedIdle'
  <2>1. /\ \A s \in Tab : s # t => page'[s] = page[s] /\ refreshing'[s] = refreshing[s]
        /\ \A s \in Tab, d \in Kind : s # t => stage'[<<s, d>>] = stage[<<s, d>>]
    OBVIOUS
  <2>2. ClosedIdle
    OBVIOUS
  <2>3. page'[t] # "closed"
    OBVIOUS
  <2> HIDE DEF IInv, Types, Call, Kind, Request
  <2> QED BY <2>1, <2>2, <2>3, ClosedIdleKept
<1>10. OneForm'
  <2>1. \A s \in Tab, d \in Kind :
          stage'[<<s, d>>] # "idle" => stage[<<s, d>>] # "idle" \/ (s = t /\ d = "data")
    OBVIOUS
  <2>2. \A d \in Form : stage[<<t, d>>] = "idle" \/ "data" \notin Form
    BY DEF Idle, Form
  <2>3. OneForm /\ "data" \in Kind
    OBVIOUS
  <2> HIDE DEF IInv, Types, Call, Kind, Request
  <2> QED BY <2>1, <2>2, <2>3, OneFormStarts
<1> QED BY <1>1, <1>2, <1>3, <1>4, <1>5, <1>6, <1>7, <1>8, <1>9, <1>10 DEF IInv

LEMMA SubmitStep ==
  ASSUME IInv, NEW t \in Tab, NEW c \in Kind, Submit(t, c)
  PROVE  IInv'
<1> USE DEF IInv, Types, Call, Kind, store, tab, calls, Submit, Send
<1>1. Types' BY DEF Types
<1>2. OldLive' BY DEF OldLive, Thing
<1>3. Pair' BY DEF Pair
<1>4. Users' BY DEF Users
<1>5. Headers' BY DEF Headers, Pair
<1>6. Refreshes' BY DEF Refreshes
<1>7. Makers' BY DEF Makers
<1>8. Served'
  <2>1. \A s \in Tab, d \in Kind : stage'[<<s, d>>] = "waiting" <=> stage[<<s, d>>] = "waiting"
    BY DEF Idle, Form, OneForm
  <2>2. refreshing' = refreshing /\ Served
    OBVIOUS
  <2> HIDE DEF IInv, Types, Call, Kind, Submit
  <2> QED BY <2>1, <2>2, ServedKept
<1>9. ClosedIdle'
  <2>1. /\ \A s \in Tab : s # t => page'[s] = page[s] /\ refreshing'[s] = refreshing[s]
        /\ \A s \in Tab, d \in Kind : s # t => stage'[<<s, d>>] = stage[<<s, d>>]
    OBVIOUS
  <2>2. ClosedIdle
    OBVIOUS
  <2>3. page'[t] # "closed"
    OBVIOUS
  <2> HIDE DEF IInv, Types, Call, Kind, Submit
  <2> QED BY <2>1, <2>2, <2>3, ClosedIdleKept
<1>10. OneForm'
  <2>1. \A s \in Tab, d \in Kind :
          stage'[<<s, d>>] # "idle" => stage[<<s, d>>] # "idle" \/ (s = t /\ d = c)
    OBVIOUS
  <2>2. \A d \in Form : stage[<<t, d>>] = "idle" \/ c \notin Form
    BY DEF Idle, Form
  <2>3. OneForm /\ c \in Kind
    OBVIOUS
  <2> HIDE DEF IInv, Types, Call, Kind, Submit
  <2> QED BY <2>1, <2>2, <2>3, OneFormStarts
<1> QED BY <1>1, <1>2, <1>3, <1>4, <1>5, <1>6, <1>7, <1>8, <1>9, <1>10 DEF IInv

LEMMA RegisteredStep ==
  ASSUME IInv, NEW t \in Tab, Registered(t)
  PROVE  IInv'
<1> USE DEF IInv, Types, Call, Kind, store, tab, calls, Registered, SendNext
<1>1. Types' BY DEF Types
<1>2. OldLive' BY DEF OldLive, Thing
<1>3. Pair' BY DEF Pair
<1>4. Users' BY DEF Users
<1>5. Headers'
  <2>1. \A s \in Tab, d \in Kind : <<s, d>> # <<t, "login">> /\ stage'[<<s, d>>] = "sent" =>
          stage[<<s, d>>] = "sent" /\ token'[<<s, d>>] = token[<<s, d>>]
    OBVIOUS
  <2>2. \A s \in Tab, d \in Kind : <<s, d>> # <<t, "login">> /\ stage'[<<s, d>>] = "sent" =>
          (<<s, d>> \in old => <<s, d>> \in old')
    OBVIOUS
  <2>3. token'[<<t, "login">>] = access
    OBVIOUS
  <2>4. Headers /\ access' = access /\ revived' = revived
    OBVIOUS
  <2> HIDE DEF IInv, Types, Call, Kind, Registered
  <2> QED BY <2>1, <2>2, <2>3, <2>4 DEF Headers
<1>6. Refreshes' BY DEF Refreshes
<1>7. Makers' BY DEF Makers
<1>8. Served'
  <2>1. \A s \in Tab, d \in Kind : stage'[<<s, d>>] = "waiting" <=> stage[<<s, d>>] = "waiting"
    BY DEF Idle, Form, OneForm
  <2>2. refreshing' = refreshing /\ Served
    OBVIOUS
  <2> HIDE DEF IInv, Types, Call, Kind, Registered
  <2> QED BY <2>1, <2>2, ServedKept
<1>9. ClosedIdle'
  <2>1. /\ \A s \in Tab : s # t => page'[s] = page[s] /\ refreshing'[s] = refreshing[s]
        /\ \A s \in Tab, d \in Kind : s # t => stage'[<<s, d>>] = stage[<<s, d>>]
    OBVIOUS
  <2>2. ClosedIdle
    OBVIOUS
  <2>3. page[t] # "closed"
    BY NotClosed
  <2>4. page'[t] # "closed"
    BY <2>3 DEF Shown
  <2> HIDE DEF IInv, Types, Call, Kind, Registered
  <2> QED BY <2>1, <2>2, <2>4, ClosedIdleKept
<1>10. OneForm'
  <2>1. \A s \in Tab, d \in Kind :
          stage'[<<s, d>>] # "idle" => stage[<<s, d>>] # "idle" \/ (s = t /\ d = "login")
    OBVIOUS
  <2>2. stage[<<t, "register">>] # "idle" /\ stage'[<<t, "register">>] = "idle" /\ OneForm
    OBVIOUS
  <2>3. "register" \in Form /\ "login" \in Form
    BY DEF Form
  <2> HIDE DEF IInv, Types, Call, Kind, Registered
  <2> QED BY <2>1, <2>2, <2>3, OneFormGoesOn
<1> QED BY <1>1, <1>2, <1>3, <1>4, <1>5, <1>6, <1>7, <1>8, <1>9, <1>10 DEF IInv

LEMMA LoggedInStep ==
  ASSUME IInv, NEW t \in Tab, NEW u \in User, LoggedIn(t, u)
  PROVE  IInv'
<1> USE DEF IInv, Types, Call, Kind, store, tab, calls, LoggedIn, SendNext, SetPair
<1>1. Types' BY DEF Types
<1>2. OldLive' BY LiveIs DEF OldLive, Thing
<1>3. Pair' BY DEF Pair
<1>4. Users' BY LiveIs DEF Users
<1>5. Headers' BY LiveIs DEF Headers, Pair
<1>6. Refreshes' BY LiveIs DEF Refreshes
<1>7. Makers' BY LiveIs DEF Makers
<1>8. Served'
  <2>1. \A s \in Tab, d \in Kind : stage'[<<s, d>>] = "waiting" <=> stage[<<s, d>>] = "waiting"
    BY DEF Idle, Form, OneForm
  <2>2. refreshing' = refreshing /\ Served
    OBVIOUS
  <2> HIDE DEF IInv, Types, Call, Kind, LoggedIn
  <2> QED BY <2>1, <2>2, ServedKept
<1>9. ClosedIdle'
  <2>1. /\ \A s \in Tab : s # t => page'[s] = page[s] /\ refreshing'[s] = refreshing[s]
        /\ \A s \in Tab, d \in Kind : s # t => stage'[<<s, d>>] = stage[<<s, d>>]
    OBVIOUS
  <2>2. ClosedIdle
    OBVIOUS
  <2>3. page[t] # "closed"
    BY NotClosed
  <2>4. page'[t] # "closed"
    BY <2>3 DEF Shown
  <2> HIDE DEF IInv, Types, Call, Kind, LoggedIn
  <2> QED BY <2>1, <2>2, <2>4, ClosedIdleKept
<1>10. OneForm'
  <2>1. \A s \in Tab, d \in Kind :
          stage'[<<s, d>>] # "idle" => stage[<<s, d>>] # "idle" \/ (s = t /\ d = "me")
    OBVIOUS
  <2>2. stage[<<t, "login">>] # "idle" /\ stage'[<<t, "login">>] = "idle" /\ OneForm
    OBVIOUS
  <2>3. "login" \in Form /\ "me" \in Form
    BY DEF Form
  <2> HIDE DEF IInv, Types, Call, Kind, LoggedIn
  <2> QED BY <2>1, <2>2, <2>3, OneFormGoesOn
<1> QED BY <1>1, <1>2, <1>3, <1>4, <1>5, <1>6, <1>7, <1>8, <1>9, <1>10 DEF IInv

LEMMA ShowUserStep ==
  ASSUME IInv, NEW t \in Tab, NEW c \in Kind, ShowUser(t, c)
  PROVE  IInv'
<1> USE DEF IInv, Types, Call, Kind, store, tab, calls, ShowUser, End
<1>1. Types' BY DEF Types
<1>2. OldLive'
  <2>1. <<t, "user">> \in Thing
    BY DEF Thing
  <2>2. old' \subseteq old \cup {<<t, "user">>} /\ <<t, c>> \notin old'
    OBVIOUS
  <2>3. /\ \A s \in Tab : user[s] # NoUser => user'[s] # NoUser
        /\ user'[t] # NoUser /\ refreshing' = refreshing
        /\ \A s \in Tab, d \in Kind : <<s, d>> # <<t, c>> => stage'[<<s, d>>] = stage[<<s, d>>]
    OBVIOUS
  <2>4. OldLive /\ "user" \notin Kind
    OBVIOUS
  <2> HIDE DEF IInv, Types, Call, Kind, ShowUser
  <2> QED BY <2>1, <2>2, <2>3, <2>4 DEF OldLive
<1>3. Pair' BY DEF Pair
<1>4. Users' BY DEF Users, Headers
<1>5. Headers'
  <2>1. \A s \in Tab, d \in Kind : stage'[<<s, d>>] = "sent" =>
          stage[<<s, d>>] = "sent" /\ token'[<<s, d>>] = token[<<s, d>>]
    OBVIOUS
  <2>2. \A s \in Tab, d \in Kind : stage'[<<s, d>>] = "sent" =>
          (<<s, d>> \in old => <<s, d>> \in old')
    OBVIOUS
  <2>3. Headers /\ access' = access /\ revived' = revived
    OBVIOUS
  <2> HIDE DEF IInv, Types, Call, Kind, ShowUser
  <2> QED BY <2>1, <2>2, <2>3, HeadersKept
<1>6. Refreshes' BY DEF Refreshes
<1>7. Makers' BY DEF Makers
<1>8. Served'
  <2>1. \A s \in Tab, d \in Kind : stage'[<<s, d>>] = "waiting" <=> stage[<<s, d>>] = "waiting"
    BY DEF Idle, Form, OneForm
  <2>2. refreshing' = refreshing /\ Served
    OBVIOUS
  <2> HIDE DEF IInv, Types, Call, Kind, ShowUser
  <2> QED BY <2>1, <2>2, ServedKept
<1>9. ClosedIdle'
  <2>1. /\ \A s \in Tab : s # t => page'[s] = page[s] /\ refreshing'[s] = refreshing[s]
        /\ \A s \in Tab, d \in Kind : s # t => stage'[<<s, d>>] = stage[<<s, d>>]
    OBVIOUS
  <2>2. ClosedIdle
    OBVIOUS
  <2>3. page[t] # "closed"
    BY NotClosed
  <2>4. page'[t] # "closed"
    BY <2>3 DEF Shown
  <2> HIDE DEF IInv, Types, Call, Kind, ShowUser
  <2> QED BY <2>1, <2>2, <2>4, ClosedIdleKept
<1>10. OneForm'
  <2>1. \A s \in Tab, d \in Kind : stage'[<<s, d>>] # "idle" => stage[<<s, d>>] # "idle"
    OBVIOUS
  <2>2. OneForm
    OBVIOUS
  <2> HIDE DEF IInv, Types, Call, Kind, ShowUser
  <2> QED BY <2>1, <2>2, OneFormKept
<1> QED BY <1>1, <1>2, <1>3, <1>4, <1>5, <1>6, <1>7, <1>8, <1>9, <1>10 DEF IInv

LEMMA RespondStep ==
  ASSUME IInv, NEW t \in Tab, Respond(t)
  PROVE  IInv'
<1> USE DEF IInv, Types, Call, Kind, store, tab, calls, Respond, End
<1>1. Types' BY DEF Types
<1>2. OldLive' BY DEF OldLive, Thing
<1>3. Pair' BY DEF Pair
<1>4. Users' BY DEF Users
<1>5. Headers'
  <2>1. \A s \in Tab, d \in Kind : stage'[<<s, d>>] = "sent" =>
          /\ stage[<<s, d>>] = "sent" /\ token'[<<s, d>>] = token[<<s, d>>]
          /\ <<s, d>> \in old => <<s, d>> \in old'
    OBVIOUS
  <2>2. Headers /\ access' = access /\ revived' = revived
    OBVIOUS
  <2> HIDE DEF IInv, Types, Call, Kind, Respond
  <2> QED BY <2>1, <2>2, HeadersKept
<1>6. Refreshes' BY DEF Refreshes
<1>7. Makers' BY DEF Makers
<1>8. Served'
  <2>1. \A s \in Tab, d \in Kind : stage'[<<s, d>>] = "waiting" <=> stage[<<s, d>>] = "waiting"
    BY DEF Idle, Form, OneForm
  <2>2. refreshing' = refreshing /\ Served
    OBVIOUS
  <2> HIDE DEF IInv, Types, Call, Kind, Respond
  <2> QED BY <2>1, <2>2, ServedKept
<1>9. ClosedIdle'
  <2>1. /\ \A s \in Tab : s # t => page'[s] = page[s] /\ refreshing'[s] = refreshing[s]
        /\ \A s \in Tab, d \in Kind : s # t => stage'[<<s, d>>] = stage[<<s, d>>]
    OBVIOUS
  <2>2. ClosedIdle
    OBVIOUS
  <2>3. page[t] # "closed"
    BY NotClosed
  <2>4. page'[t] # "closed"
    BY <2>3 DEF Shown
  <2> HIDE DEF IInv, Types, Call, Kind, Respond
  <2> QED BY <2>1, <2>2, <2>4, ClosedIdleKept
<1>10. OneForm'
  <2>1. \A s \in Tab, d \in Kind : stage'[<<s, d>>] # "idle" => stage[<<s, d>>] # "idle"
    OBVIOUS
  <2>2. OneForm
    OBVIOUS
  <2> HIDE DEF IInv, Types, Call, Kind, Respond
  <2> QED BY <2>1, <2>2, OneFormKept
<1> QED BY <1>1, <1>2, <1>3, <1>4, <1>5, <1>6, <1>7, <1>8, <1>9, <1>10 DEF IInv

LEMMA RejectedStep ==
  ASSUME IInv, NEW t \in Tab, NEW c \in Kind, Rejected(t, c), stage[<<t, c>>] = "sent"
  PROVE  IInv'
<1> USE DEF IInv, Types, Call, Kind, store, tab, calls, Rejected, End, Clear, Shown
<1>1. Types' BY DEF Types
<1>2. OldLive'
  <2>1. old' \subseteq (old \cup Live) \ {<<t, c>>}
    OBVIOUS
  <2>2. /\ user' = user /\ refreshing' = refreshing
        /\ \A s \in Tab, d \in Kind : <<s, d>> # <<t, c>> => stage'[<<s, d>>] = stage[<<s, d>>]
    OBVIOUS
  <2>3. OldLive
    OBVIOUS
  <2> HIDE DEF IInv, Types, Call, Kind, Rejected, Clear
  <2>4. old' \subseteq Thing
    BY <2>1, <2>3, LiveIs DEF OldLive
  <2>5. \A s \in Tab : <<s, "user">> \in old' => user'[s] # NoUser
    BY <2>1, <2>2, <2>3, LiveIs DEF OldLive
  <2>6. \A s \in Tab : <<s, "refresh">> \in old' => refreshing'[s] # NoUser
    BY <2>1, <2>2, <2>3, LiveIs DEF OldLive
  <2>7. \A s \in Tab, d \in Kind : <<s, d>> \in old' => stage'[<<s, d>>] # "idle"
    BY <2>1, <2>2, <2>3, LiveIs DEF OldLive
  <2> QED BY <2>4, <2>5, <2>6, <2>7 DEF OldLive
<1>3. Pair' BY DEF Pair
<1>4. Users' BY LiveIs DEF Users
<1>5. Headers'
  <2>1. CASE c = "restore"
    <3>1. access' = NoUser /\ old' = Live \ {<<t, c>>}
      BY <2>1
    <3>2. \A s \in Tab, d \in Kind : stage'[<<s, d>>] = "sent" =>
            stage[<<s, d>>] = "sent" /\ <<s, d>> # <<t, c>>
      OBVIOUS
    <3> HIDE DEF IInv, Types, Call, Kind, Rejected
    <3>3. \A s \in Tab, d \in Kind : stage'[<<s, d>>] = "sent" => <<s, d>> \in old'
      BY <3>1, <3>2, LiveIs
    <3> QED BY <3>3 DEF Headers
  <2>2. CASE c # "restore"
    <3>1. \A s \in Tab, d \in Kind : stage'[<<s, d>>] = "sent" =>
            stage[<<s, d>>] = "sent" /\ token'[<<s, d>>] = token[<<s, d>>] /\ <<s, d>> # <<t, c>>
      OBVIOUS
    <3>2. old' = old \ {<<t, c>>} /\ access' = access /\ revived' = revived
      BY <2>2
    <3>3. Headers
      OBVIOUS
    <3> HIDE DEF IInv, Types, Call, Kind, Rejected
    <3> QED BY <3>1, <3>2, <3>3, HeadersKept
  <2> QED BY <2>1, <2>2
<1>6. Refreshes' BY LiveIs DEF Refreshes
<1>7. Makers' BY LiveIs DEF Makers
<1>8. Served'
  <2>1. \A s \in Tab, d \in Kind : stage'[<<s, d>>] = "waiting" <=> stage[<<s, d>>] = "waiting"
    BY DEF Idle, Form, OneForm
  <2>2. refreshing' = refreshing /\ Served
    OBVIOUS
  <2> HIDE DEF IInv, Types, Call, Kind, Rejected
  <2> QED BY <2>1, <2>2, ServedKept
<1>9. ClosedIdle'
  <2>1. /\ \A s \in Tab : s # t => page'[s] = page[s] /\ refreshing'[s] = refreshing[s]
        /\ \A s \in Tab, d \in Kind : s # t => stage'[<<s, d>>] = stage[<<s, d>>]
    OBVIOUS
  <2>2. ClosedIdle
    OBVIOUS
  <2>3. page[t] # "closed"
    BY NotClosed
  <2>4. page'[t] # "closed"
    BY <2>3 DEF Shown
  <2> HIDE DEF IInv, Types, Call, Kind, Rejected
  <2> QED BY <2>1, <2>2, <2>4, ClosedIdleKept
<1>10. OneForm'
  <2>1. \A s \in Tab, d \in Kind : stage'[<<s, d>>] # "idle" => stage[<<s, d>>] # "idle"
    OBVIOUS
  <2>2. OneForm
    OBVIOUS
  <2> HIDE DEF IInv, Types, Call, Kind, Rejected
  <2> QED BY <2>1, <2>2, OneFormKept
<1> QED BY <1>1, <1>2, <1>3, <1>4, <1>5, <1>6, <1>7, <1>8, <1>9, <1>10 DEF IInv

LEMMA AwaitRefreshStep ==
  ASSUME IInv, NEW t \in Tab, NEW c \in Kind, AwaitRefresh(t, c)
  PROVE  IInv'
<1> USE DEF IInv, Types, Call, Kind, store, tab, calls, AwaitRefresh, Refused, GivesUp
<1>1. Types' BY DEF Types
<1>2. OldLive' BY DEF OldLive, Thing
<1>3. Pair' BY DEF Pair
<1>4. Users' BY DEF Users
<1>5. Headers'
  <2>1. \A s \in Tab, d \in Kind : stage'[<<s, d>>] = "sent" =>
          /\ stage[<<s, d>>] = "sent" /\ token'[<<s, d>>] = token[<<s, d>>]
          /\ <<s, d>> \in old => <<s, d>> \in old'
    OBVIOUS
  <2>2. Headers /\ access' = access /\ revived' = revived
    OBVIOUS
  <2> HIDE DEF IInv, Types, Call, Kind, AwaitRefresh
  <2> QED BY <2>1, <2>2, HeadersKept
<1>6. Refreshes' BY DEF Refreshes
<1>7. Makers' BY DEF Makers
<1>8. Served'
  <2>1. \A s \in Tab, d \in Kind :
          stage'[<<s, d>>] = "waiting" <=> stage[<<s, d>>] = "waiting" \/ (s = t /\ d = c)
    OBVIOUS
  <2>2. refreshing'[t] # NoUser /\ \A s \in Tab : s # t => refreshing'[s] = refreshing[s]
    OBVIOUS
  <2>3. Served
    OBVIOUS
  <2> HIDE DEF IInv, Types, Call, Kind, AwaitRefresh
  <2> QED BY <2>1, <2>2, <2>3, OneMoreWaits
<1>9. ClosedIdle'
  <2>1. /\ \A s \in Tab : s # t => page'[s] = page[s] /\ refreshing'[s] = refreshing[s]
        /\ \A s \in Tab, d \in Kind : s # t => stage'[<<s, d>>] = stage[<<s, d>>]
    OBVIOUS
  <2>2. ClosedIdle
    OBVIOUS
  <2>3. page[t] # "closed"
    BY NotClosed
  <2>4. page'[t] # "closed"
    BY <2>3 DEF Shown
  <2> HIDE DEF IInv, Types, Call, Kind, AwaitRefresh
  <2> QED BY <2>1, <2>2, <2>4, ClosedIdleKept
<1>10. OneForm'
  <2>1. \A s \in Tab, d \in Kind : stage'[<<s, d>>] # "idle" => stage[<<s, d>>] # "idle"
    OBVIOUS
  <2>2. OneForm
    OBVIOUS
  <2> HIDE DEF IInv, Types, Call, Kind, AwaitRefresh
  <2> QED BY <2>1, <2>2, OneFormKept
<1> QED BY <1>1, <1>2, <1>3, <1>4, <1>5, <1>6, <1>7, <1>8, <1>9, <1>10 DEF IInv

\* The calls that waited are sent with the token that is stored.
LEMMA RefreshedHeaders ==
  ASSUME Headers, Pair, Refreshes, NEW t \in Tab, Refreshed(t)
  PROVE  Headers'
<1> SUFFICES ASSUME NEW s \in Tab, NEW d \in Kind,
                    stage'[<<s, d>>] = "sent", <<s, d>> \notin old', ~ revived'
             PROVE  token'[<<s, d>>] = access'
  BY DEF Headers
<1>1. <<t, "refresh">> \notin old /\ ~ revived /\ access' = refreshing[t] /\ access = access'
  BY DEF Refreshed, Refreshes, Pair
<1>2. <<s, d>> \in Call
  BY DEF Call
<1>3. CASE <<s, d>> \in Waiting(t)
  BY <1>1, <1>2, <1>3 DEF Refreshed
<1>4. CASE <<s, d>> \notin Waiting(t)
  <2>1. stage[<<s, d>>] = "sent" /\ token'[<<s, d>>] = token[<<s, d>>]
    BY <1>2, <1>4 DEF Refreshed
  <2>2. <<s, d>> \notin old
    BY <1>1, <1>4 DEF Refreshed
  <2> QED BY <1>1, <2>1, <2>2 DEF Headers
<1> QED BY <1>3, <1>4

LEMMA RefreshedStep ==
  ASSUME IInv, NEW t \in Tab, Refreshed(t)
  PROVE  IInv'
<1> USE DEF IInv, Types, Call, Kind, store, tab, calls, Refreshed, Waiting
<1>1. Types' BY DEF Types
<1>2. OldLive' BY DEF OldLive, Thing
<1>3. Pair' BY DEF Pair, Refreshes
<1>4. Users' BY DEF Users, Refreshes, Pair
<1>5. Headers' BY RefreshedHeaders
<1>6. Refreshes' BY DEF Refreshes
<1>7. Makers' BY DEF Makers, Refreshes
<1>8. Served'
  <2>1. \A s \in Tab, d \in Kind : stage'[<<s, d>>] = "waiting" <=> stage[<<s, d>>] = "waiting" /\ s # t
    OBVIOUS
  <2>2. refreshing'[t] = NoUser /\ \A s \in Tab : s # t => refreshing'[s] = refreshing[s]
    OBVIOUS
  <2>3. Served
    OBVIOUS
  <2> HIDE DEF IInv, Types, Call, Kind, Refreshed
  <2> QED BY <2>1, <2>2, <2>3, ServedReleased
<1>9. ClosedIdle'
  <2>1. /\ \A s \in Tab : s # t => page'[s] = page[s] /\ refreshing'[s] = refreshing[s]
        /\ \A s \in Tab, d \in Kind : s # t => stage'[<<s, d>>] = stage[<<s, d>>]
    OBVIOUS
  <2>2. ClosedIdle
    OBVIOUS
  <2>3. page[t] # "closed"
    BY NotClosed
  <2>4. page'[t] # "closed"
    BY <2>3 DEF Shown
  <2> HIDE DEF IInv, Types, Call, Kind, Refreshed
  <2> QED BY <2>1, <2>2, <2>4, ClosedIdleKept
<1>10. OneForm'
  <2>1. \A s \in Tab, d \in Kind : stage'[<<s, d>>] # "idle" => stage[<<s, d>>] # "idle"
    OBVIOUS
  <2>2. OneForm
    OBVIOUS
  <2> HIDE DEF IInv, Types, Call, Kind, Refreshed
  <2> QED BY <2>1, <2>2, OneFormKept
<1> QED BY <1>1, <1>2, <1>3, <1>4, <1>5, <1>6, <1>7, <1>8, <1>9, <1>10 DEF IInv

LEMMA RefreshFailsStep ==
  ASSUME IInv, NEW t \in Tab, RefreshFails(t)
  PROVE  IInv'
<1> USE DEF IInv, Types, Call, Kind, store, tab, calls, RefreshFails, Waiting, Clear, Shown
<1>1. Types' BY DEF Types
<1>2. OldLive' BY LiveIs DEF OldLive, Thing
<1>3. Pair' BY DEF Pair
<1>4. Users' BY LiveIs DEF Users
<1>5. Headers' BY LiveIs DEF Headers, Pair
<1>6. Refreshes' BY LiveIs DEF Refreshes
<1>7. Makers' BY LiveIs DEF Makers
<1>8. Served'
  <2>1. \A s \in Tab, d \in Kind : stage'[<<s, d>>] = "waiting" <=> stage[<<s, d>>] = "waiting" /\ s # t
    OBVIOUS
  <2>2. refreshing'[t] = NoUser /\ \A s \in Tab : s # t => refreshing'[s] = refreshing[s]
    OBVIOUS
  <2>3. Served
    OBVIOUS
  <2> HIDE DEF IInv, Types, Call, Kind, RefreshFails
  <2> QED BY <2>1, <2>2, <2>3, ServedReleased
<1>9. ClosedIdle'
  <2>1. /\ \A s \in Tab : s # t => page'[s] = page[s] /\ refreshing'[s] = refreshing[s]
        /\ \A s \in Tab, d \in Kind : s # t => stage'[<<s, d>>] = stage[<<s, d>>]
    OBVIOUS
  <2>2. ClosedIdle
    OBVIOUS
  <2>3. page[t] # "closed"
    BY NotClosed
  <2>4. page'[t] # "closed"
    BY <2>3 DEF Shown
  <2> HIDE DEF IInv, Types, Call, Kind, RefreshFails
  <2> QED BY <2>1, <2>2, <2>4, ClosedIdleKept
<1>10. OneForm'
  <2>1. \A s \in Tab, d \in Kind : stage'[<<s, d>>] # "idle" => stage[<<s, d>>] # "idle"
    OBVIOUS
  <2>2. OneForm
    OBVIOUS
  <2> HIDE DEF IInv, Types, Call, Kind, RefreshFails
  <2> QED BY <2>1, <2>2, OneFormKept
<1> QED BY <1>1, <1>2, <1>3, <1>4, <1>5, <1>6, <1>7, <1>8, <1>9, <1>10 DEF IInv

LEMMA LogoutStep ==
  ASSUME IInv, NEW t \in Tab, Logout(t)
  PROVE  IInv'
<1> USE DEF IInv, Types, Call, Kind, store, tab, calls, Logout, Clear
<1>1. Types' BY DEF Types
<1>2. OldLive' BY LiveIs DEF OldLive, Thing
<1>3. Pair' BY DEF Pair
<1>4. Users' BY LiveIs DEF Users
<1>5. Headers' BY LiveIs DEF Headers, Pair
<1>6. Refreshes' BY LiveIs DEF Refreshes
<1>7. Makers' BY LiveIs DEF Makers
<1>8. Served'
  <2>1. \A s \in Tab, d \in Kind : stage'[<<s, d>>] = "waiting" <=> stage[<<s, d>>] = "waiting"
    BY DEF Idle, Form, OneForm
  <2>2. refreshing' = refreshing /\ Served
    OBVIOUS
  <2> HIDE DEF IInv, Types, Call, Kind, Logout
  <2> QED BY <2>1, <2>2, ServedKept
<1>9. ClosedIdle'
  <2>1. /\ \A s \in Tab : s # t => page'[s] = page[s] /\ refreshing'[s] = refreshing[s]
        /\ \A s \in Tab, d \in Kind : s # t => stage'[<<s, d>>] = stage[<<s, d>>]
    OBVIOUS
  <2>2. ClosedIdle
    OBVIOUS
  <2>3. page'[t] # "closed"
    OBVIOUS
  <2> HIDE DEF IInv, Types, Call, Kind, Logout
  <2> QED BY <2>1, <2>2, <2>3, ClosedIdleKept
<1>10. OneForm'
  <2>1. \A s \in Tab, d \in Kind : stage'[<<s, d>>] # "idle" => stage[<<s, d>>] # "idle"
    OBVIOUS
  <2>2. OneForm
    OBVIOUS
  <2> HIDE DEF IInv, Types, Call, Kind, Logout
  <2> QED BY <2>1, <2>2, OneFormKept
<1> QED BY <1>1, <1>2, <1>3, <1>4, <1>5, <1>6, <1>7, <1>8, <1>9, <1>10 DEF IInv

LEMMA CloseStep ==
  ASSUME IInv, NEW t \in Tab, Close(t)
  PROVE  IInv'
<1> USE DEF IInv, Types, Call, Kind, store, tab, calls, Close
<1>1. Types' BY DEF Types
<1>2. OldLive' BY DEF OldLive, Thing
<1>3. Pair' BY DEF Pair
<1>4. Users' BY DEF Users
<1>5. Headers'
  <2>1. \A s \in Tab, d \in Kind : stage'[<<s, d>>] = "sent" =>
          /\ stage[<<s, d>>] = "sent" /\ token'[<<s, d>>] = token[<<s, d>>]
          /\ <<s, d>> \in old => <<s, d>> \in old'
    OBVIOUS
  <2>2. Headers /\ access' = access /\ revived' = revived
    OBVIOUS
  <2> HIDE DEF IInv, Types, Call, Kind, Close
  <2> QED BY <2>1, <2>2, HeadersKept
<1>6. Refreshes' BY DEF Refreshes
<1>7. Makers' BY DEF Makers
<1>8. Served'
  <2>1. \A s \in Tab, d \in Kind : stage'[<<s, d>>] = "waiting" <=> stage[<<s, d>>] = "waiting" /\ s # t
    OBVIOUS
  <2>2. refreshing'[t] = NoUser /\ \A s \in Tab : s # t => refreshing'[s] = refreshing[s]
    OBVIOUS
  <2>3. Served
    OBVIOUS
  <2> HIDE DEF IInv, Types, Call, Kind, Close
  <2> QED BY <2>1, <2>2, <2>3, ServedReleased
<1>9. ClosedIdle'
  <2>1. /\ \A s \in Tab : s # t => page'[s] = page[s] /\ refreshing'[s] = refreshing[s]
        /\ \A s \in Tab, d \in Kind : s # t => stage'[<<s, d>>] = stage[<<s, d>>]
    OBVIOUS
  <2>2. ClosedIdle
    OBVIOUS
  <2>3. refreshing'[t] = NoUser /\ \A d \in Kind : stage'[<<t, d>>] = "idle"
    OBVIOUS
  <2> HIDE DEF IInv, Types, Call, Kind, Close
  <2> QED BY <2>1, <2>2, <2>3, ClosedIdleKept
<1>10. OneForm'
  <2>1. \A s \in Tab, d \in Kind : stage'[<<s, d>>] # "idle" => stage[<<s, d>>] # "idle"
    OBVIOUS
  <2>2. OneForm
    OBVIOUS
  <2> HIDE DEF IInv, Types, Call, Kind, Close
  <2> QED BY <2>1, <2>2, OneFormKept
<1> QED BY <1>1, <1>2, <1>3, <1>4, <1>5, <1>6, <1>7, <1>8, <1>9, <1>10 DEF IInv

LEMMA OpenStep ==
  ASSUME IInv, NEW t \in Tab, NEW there \in {"form", "app"}, Open(t, there)
  PROVE  IInv'
<1> Types
  BY DEF IInv
<1>1. /\ page[t] = "closed" /\ UNCHANGED <<access, refresh, revived, user, refreshing, maker, old>>
      /\ page'[t] # "closed" /\ \A s \in Tab : s # t => page'[s] = page[s]
  BY DEF Open, store, calls, Types
<1>2. \/ UNCHANGED <<stage, token, retried, loading>>
      \/ /\ stage' = [stage EXCEPT ![<<t, "restore">>] = "sent"]
         /\ token' = [token EXCEPT ![<<t, "restore">>] = access]
         /\ retried' = [retried EXCEPT ![<<t, "restore">>] = FALSE]
         /\ loading' = [loading EXCEPT ![t] = TRUE]
  BY DEF Open, Send, calls
<1>3. stage[<<t, "restore">>] = "idle"
  BY <1>1 DEF IInv, ClosedIdle, Idle, Kind
<1>4. \A s \in Tab, c \in Kind : <<s, c>> # <<t, "restore">> =>
        stage'[<<s, c>>] = stage[<<s, c>>] /\ token'[<<s, c>>] = token[<<s, c>>]
  BY <1>2 DEF Types, Call
<1>5. stage'[<<t, "restore">>] # "idle" => token'[<<t, "restore">>] = access
  BY <1>2, <1>3 DEF Types, Call, Kind
<1>6. Types'
  <2>1. <<t, "restore">> \in Call
    BY DEF Call, Kind
  <2>2. page' \in [Tab -> {"closed", "form", "app"}] /\ leaving' \in [Tab -> BOOLEAN]
    BY DEF Open, Types
  <2>3. /\ stage' \in [Call -> {"idle", "sent", "waiting"}] /\ token' \in [Call -> User \cup {NoUser}]
        /\ retried' \in [Call -> BOOLEAN] /\ loading' \in [Tab -> BOOLEAN]
    <3>1. CASE UNCHANGED <<stage, token, retried, loading>>
      BY <3>1 DEF Types
    <3>2. CASE ~ UNCHANGED <<stage, token, retried, loading>>
      <4>1. stage' \in [Call -> {"idle", "sent", "waiting"}]
        BY <1>2, <2>1, <3>2 DEF Types
      <4>2. token' \in [Call -> User \cup {NoUser}]
        BY <1>2, <2>1, <3>2 DEF Types
      <4>3. retried' \in [Call -> BOOLEAN]
        BY <1>2, <2>1, <3>2 DEF Types
      <4>4. loading' \in [Tab -> BOOLEAN]
        <5>1. loading' = [loading EXCEPT ![t] = TRUE]
          BY <1>2, <3>2
        <5> QED BY <5>1 DEF Types
      <4> QED BY <4>1, <4>2, <4>3, <4>4
    <3> QED BY <3>1, <3>2
  <2> QED BY <1>1, <2>2, <2>3 DEF Types
<1>7. OldLive'
  <2>1. <<t, "restore">> \notin old
    BY <1>3 DEF IInv, OldLive, Kind
  <2>2. \A s \in Tab, c \in Kind : <<s, c>> \in old => stage'[<<s, c>>] # "idle"
    BY <1>4, <2>1 DEF IInv, OldLive
  <2> QED BY <1>1, <2>2 DEF IInv, OldLive
<1>8. Pair' /\ Users' /\ Refreshes' BY <1>1 DEF IInv, Pair, Users, Refreshes
<1>9. Headers' BY <1>1, <1>4, <1>5 DEF IInv, Headers
<1>10. Makers' BY <1>1, <1>4 DEF IInv, Makers, Kind
<1>11. Served'
  <2>1. \A s \in Tab, d \in Kind : stage'[<<s, d>>] = "waiting" <=> stage[<<s, d>>] = "waiting"
    BY <1>2, <1>3 DEF Types, Call, Kind
  <2> QED BY <1>1, <2>1, ServedKept DEF IInv
<1>12. ClosedIdle' BY <1>1, <1>4 DEF IInv, ClosedIdle, Idle
<1>13. OneForm'
  <2>1. \A d \in Form : d # "restore" /\ d \in Kind
    BY DEF Form, Kind
  <2>2. \A s \in Tab, d \in Form : stage'[<<s, d>>] # "idle" => stage[<<s, d>>] # "idle"
    BY <1>4, <2>1
  <2>3. OneForm
    BY DEF IInv
  <2> QED BY <2>2, <2>3 DEF OneForm
<1> QED BY <1>6, <1>7, <1>8, <1>9, <1>10, <1>11, <1>12, <1>13 DEF IInv

-----------------------------------------------------------------------------
(* The theorems.                                                           *)

LEMMA TypesAndOld ==
  ASSUME Types, OldLive
  PROVE  TypeOK
<1>1. ASSUME NEW x \in old PROVE x \in Live
  <2>1. PICK t \in Tab, y \in Kind \cup {"refresh", "user"} : x = <<t, y>>
    BY <1>1 DEF OldLive, Thing
  <2> QED BY <1>1, <2>1, LiveIs DEF OldLive
<1> QED BY <1>1 DEF Types, TypeOK

LEMMA Inductive == Spec => []IInv
<1>1. Init => IInv
  <2> SUFFICES ASSUME Init PROVE IInv
    OBVIOUS
  <2>1. Types
    BY DEF Init, Types
  <2>2. OldLive /\ Pair /\ Users /\ Refreshes
    BY DEF Init, OldLive, Pair, Users, Refreshes
  <2>3. \A t \in Tab, c \in Kind : stage[<<t, c>>] = "idle"
    BY DEF Init, Call
  <2>4. Headers /\ Makers /\ Served /\ ClosedIdle /\ OneForm
    BY <2>3 DEF Init, Headers, Makers, Served, ClosedIdle, OneForm, Idle, Form, Kind
  <2> QED BY <2>1, <2>2, <2>4 DEF IInv
<1>2. ASSUME IInv, [Next]_vars PROVE IInv'
  <2>1. CASE UNCHANGED vars
    BY <1>2, <2>1 DEF vars, store, tab, calls, IInv, Types, OldLive, Pair, Users, Headers, Refreshes, Makers,
       Served, ClosedIdle, OneForm, Idle
  <2>2. ASSUME NEW t \in Tab, Request(t) \/ Logout(t) \/ Load(t) \/ SettleRefresh(t) PROVE IInv'
    BY <1>2, <2>2, RequestStep, LogoutStep, CloseStep, OpenStep, RefreshedStep, RefreshFailsStep
       DEF Load, SettleRefresh
  <2>3. ASSUME NEW t \in Tab, NEW c \in Kind, Submit(t, c) \/ Settle(t, c) PROVE IInv'
    BY <1>2, <2>3, SubmitStep, RegisteredStep, LoggedInStep, ShowUserStep, RespondStep, RejectedStep,
       AwaitRefreshStep DEF Settle, Answer, Fails, Reject401, Refused
  <2> QED BY <1>2, <2>1, <2>2, <2>3 DEF Next
<1> QED BY <1>1, <1>2, PTL DEF Spec

\* Every variable has its type for any number of tabs and users.
THEOREM TypeCorrect == Spec => []TypeOK
<1>1. IInv => TypeOK
  BY TypesAndOld DEF IInv
<1> QED BY <1>1, Inductive, PTL

\* AuthContext and tokenStore agree whatever tabs do, but for answers from
\* before the tokens were last replaced or removed.
THEOREM SessionsAlwaysAgree == Spec => []SessionsAgree
<1>1. IInv => SessionsAgree
  BY DEF IInv, Pair, Users, SessionsAgree
<1> QED BY <1>1, Inductive, PTL

\* The interceptors of client.ts send and repeat a request in the name of the
\* user who made it.
THEOREM RequestsKeepTheirMaker == Spec => []InNameOfMaker
<1>1. IInv => InNameOfMaker
  BY DEF IInv, Makers, InNameOfMaker
<1> QED BY <1>1, Inductive, PTL

\* A call waits exactly while refreshPromise is under way.
THEOREM WaitersAlwaysServed == Spec => []WaitersServed
<1>1. IInv => WaitersServed
  <2>1. \A t \in Tab : Waiting(t) # {} <=> \E c \in Kind : stage[<<t, c>>] = "waiting"
    <3> TAKE t \in Tab
    <3>1. ASSUME NEW k \in Waiting(t) PROVE \E c \in Kind : stage[<<t, c>>] = "waiting"
      <4>1. PICK c \in Kind : k = <<t, c>>
        BY <3>1 DEF Waiting
      <4> QED BY <3>1, <4>1 DEF Waiting
    <3>2. ASSUME NEW c \in Kind, stage[<<t, c>>] = "waiting" PROVE <<t, c>> \in Waiting(t)
      BY <3>2 DEF Waiting
    <3> QED BY <3>1, <3>2
  <2> QED BY <2>1 DEF IInv, Served, WaitersServed
<1> QED BY <1>1, Inductive, PTL
=============================================================================
