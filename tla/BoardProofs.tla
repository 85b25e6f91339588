---------------------------- MODULE BoardProofs -----------------------------
(***************************************************************************)
(* Theorems about Board for any tasks, columns and number of drags.        *)
(***************************************************************************)
EXTENDS Board, TLAPS

USE NoneAssumption

-----------------------------------------------------------------------------
(* Lists of tasks.                                                         *)

\* The answer of the server is a list.
LEMMA ListedIsList ==
  ASSUME TypeOK
  PROVE  Listed \in Lists
<1> DEFINE S == {u \in Task : row[u] \in Column}
<1>1. Listed \in [S -> Column]
  BY DEF Listed
<1>2. S \in SUBSET Task
  OBVIOUS
<1> QED BY <1>1, <1>2 DEF Lists

\* Moving a card of a list to another column gives a list.
LEMMA MovedIsList ==
  ASSUME NEW l \in Lists, NEW t \in DOMAIN l, NEW c \in Column
  PROVE  [l EXCEPT ![t] = c] \in Lists
<1>1. PICK S \in SUBSET Task : l \in [S -> Column]
  BY DEF Lists
<1>2. [l EXCEPT ![t] = c] \in [S -> Column]
  BY <1>1
<1> QED BY <1>2 DEF Lists

-----------------------------------------------------------------------------
(* Types.                                                                  *)

QueryType ==
  /\ fetch \in {"idle", "asked", "answered"}
  /\ ans \in Lists \cup {None} /\ data \in Lists \cup {None}
  /\ error \in BOOLEAN /\ missed \in BOOLEAN

DragType ==
  /\ stage \in [Move -> {"idle", "sent", "ok", "bad"}]
  /\ drag \in [Move -> Drags \cup {None}]
  /\ \A m \in UnderWay : drag[m] \in Drags

RestType ==
  /\ row \in [Task -> Column \cup {"new", "gone"}]
  /\ wire \in Nat /\ own \in {"idle", "reply"} /\ failures \in Nat

LEMMA TypeParts == TypeOK <=> QueryType /\ DragType /\ RestType /\ overtaken \subseteq UnderWay
BY DEF TypeOK, QueryType, DragType, RestType

\* What a drag remembers.
LEMMA DragFields ==
  ASSUME TypeOK, NEW m \in UnderWay
  PROVE  /\ m \in Move /\ drag[m].card \in Task /\ drag[m].to \in Column
         /\ drag[m].before \in Lists
BY DEF TypeOK, UnderWay, Drags

LEMMA InitTypes == Init => TypeOK
<1> SUFFICES ASSUME Init PROVE TypeOK
  OBVIOUS
<1>1. UnderWay = {}
  BY DEF Init, UnderWay
<1>2. RestType
  BY DEF Init, RestType
<1>3. QueryType
  BY DEF Init, QueryType
<1>4. DragType
  BY <1>1 DEF Init, DragType
<1> QED BY <1>1, <1>2, <1>3, <1>4, TypeParts DEF Init

LEMMA QueryStaysTyped ==
  ASSUME TypeOK, [Next]_vars
  PROVE  QueryType'
<1> USE DEF QueryType
<1>1. QueryType
  BY TypeParts
<1>2. ASSUME NEW ms, Invalidate(ms) PROVE QueryType'
  BY <1>1, <1>2 DEF Invalidate, Fetch
<1>3. CASE Read
  BY <1>1, <1>3, ListedIsList DEF Read
<1>4. CASE Receive \/ FetchFails \/ Focus
  BY <1>1, <1>4 DEF Receive, FetchFails, Focus, Fetch
<1>5. CASE Deliver \/ OwnSucceeds
  BY <1>5, <1>2 DEF Deliver, OwnSucceeds
<1>6. CASE Undelivered \/ OwnFails
  BY <1>1, <1>6 DEF Undelivered, Unnoticed, OwnFails, query
<1>7. CASE \E t \in Task, c \in Column \cup {"gone"} : ChangeByOthers(t, c) \/ ChangeByOwn(t, c)
  BY <1>1, <1>7 DEF ChangeByOthers, ChangeByOwn, query
<1>8. CASE \E m \in Move : Server(m) \/ MoveFails(m)
  BY <1>1, <1>8 DEF Server, CommitMove, RejectMove, MoveFails, query
<1>9. ASSUME NEW m \in Move, SettleOK(m) PROVE QueryType'
  BY <1>9, <1>2 DEF SettleOK
<1>10. ASSUME NEW m \in Move, RollBack(m) PROVE QueryType'
  <2>1. m \in UnderWay
    BY <1>10 DEF RollBack, UnderWay
  <2> QED BY <1>1, <1>10, <2>1, DragFields DEF RollBack
<1>11. ASSUME NEW m \in Move, NEW t \in Task, NEW c \in Column, Drop(m, t, c) PROVE QueryType'
  <2>1. data \in Lists /\ t \in DOMAIN data /\ data' = [data EXCEPT ![t] = c]
    BY <1>1, <1>11 DEF Drop
  <2>2. data' \in Lists
    BY <2>1, MovedIsList
  <2> QED BY <1>1, <1>11, <2>2 DEF Drop
<1>12. CASE UNCHANGED vars
  BY <1>1, <1>12 DEF vars, query
<1> QED BY <1>3, <1>4, <1>5, <1>6, <1>7, <1>8, <1>9, <1>10, <1>11, <1>12 DEF Next, Settle

LEMMA DragsStayTyped ==
  ASSUME TypeOK, [Next]_vars
  PROVE  DragType' /\ (overtaken \subseteq UnderWay)'
<1> USE DEF DragType, UnderWay
<1>1. DragType /\ overtaken \subseteq UnderWay
  BY TypeParts
<1>2. ASSUME NEW ms \in SUBSET UnderWay, Invalidate(ms) PROVE overtaken' \subseteq ms
  BY <1>2 DEF Invalidate, Fetch
<1>3. CASE Read \/ Receive \/ FetchFails \/ Focus
  BY <1>1, <1>3 DEF Read, Receive, FetchFails, Focus, Fetch, moves
<1>4. CASE Deliver \/ OwnSucceeds
  BY <1>1, <1>2, <1>4 DEF Deliver, OwnSucceeds, moves
<1>5. CASE Undelivered \/ OwnFails
  BY <1>1, <1>5 DEF Undelivered, OwnFails, moves
<1>6. CASE \E t \in Task, c \in Column \cup {"gone"} : ChangeByOthers(t, c) \/ ChangeByOwn(t, c)
  BY <1>1, <1>6 DEF ChangeByOthers, ChangeByOwn, moves
<1>7. ASSUME NEW m \in Move, CommitMove(m) \/ RejectMove(m) \/ MoveFails(m)
      PROVE  DragType' /\ (overtaken \subseteq UnderWay)'
  BY <1>1, <1>7 DEF CommitMove, RejectMove, MoveFails
<1>8. ASSUME NEW m \in Move, SettleOK(m) PROVE DragType' /\ (overtaken \subseteq UnderWay)'
  <2>1. overtaken' \subseteq UnderWay \ {m}
    BY <1>8, <1>2 DEF SettleOK
  <2> QED BY <1>1, <1>8, <2>1 DEF SettleOK
<1>9. ASSUME NEW m \in Move, RollBack(m) PROVE DragType' /\ (overtaken \subseteq UnderWay)'
  BY <1>1, <1>9 DEF RollBack
<1>10. ASSUME NEW m \in Move, NEW t \in Task, NEW c \in Column, Drop(m, t, c)
       PROVE  DragType' /\ (overtaken \subseteq UnderWay)'
  <2>1. data \in Lists
    BY <1>10, TypeParts DEF Drop, QueryType
  <2>2. [card |-> t, to |-> c, before |-> data] \in Drags
    BY <2>1 DEF Drags
  <2> QED BY <1>1, <1>10, <2>2 DEF Drop
<1>11. CASE UNCHANGED vars
  BY <1>1, <1>11 DEF vars, moves
<1> QED BY <1>3, <1>4, <1>5, <1>6, <1>7, <1>8, <1>9, <1>10, <1>11 DEF Next, Settle, Server

LEMMA RestStaysTyped ==
  ASSUME TypeOK, [Next]_vars
  PROVE  RestType'
<1> USE DEF RestType
<1>1. RestType
  BY TypeParts
<1>2. CASE Read \/ Receive \/ FetchFails \/ Focus
  BY <1>1, <1>2 DEF Read, Receive, FetchFails, MayFail, Focus
<1>3. CASE Deliver \/ OwnSucceeds \/ Undelivered \/ OwnFails
  BY <1>1, <1>3 DEF Deliver, OwnSucceeds, Undelivered, OwnFails, MayFail
<1>4. CASE \E t \in Task, c \in Column \cup {"gone"} : ChangeByOthers(t, c) \/ ChangeByOwn(t, c)
  BY <1>1, <1>4 DEF ChangeByOthers, ChangeByOwn, Changes
<1>5. ASSUME NEW m \in Move, CommitMove(m) PROVE RestType'
  <2>1. m \in UnderWay
    BY <1>5 DEF CommitMove, UnderWay
  <2> QED BY <1>1, <1>5, <2>1, DragFields DEF CommitMove
<1>6. CASE \E m \in Move : RejectMove(m) \/ MoveFails(m) \/ Settle(m)
  BY <1>1, <1>6 DEF RejectMove, MoveFails, MayFail, Settle, SettleOK, RollBack
<1>7. CASE \E m \in Move, t \in Task, c \in Column : Drop(m, t, c)
  BY <1>1, <1>7 DEF Drop
<1>8. CASE UNCHANGED vars
  BY <1>1, <1>8 DEF vars
<1> QED BY <1>2, <1>3, <1>4, <1>5, <1>6, <1>7, <1>8 DEF Next, Server

\* Board!TypeOK holds for any tasks, columns and number of drags.
THEOREM TypeCorrect == Spec => []TypeOK
<1>1. TypeOK /\ [Next]_vars => TypeOK'
  BY QueryStaysTyped, DragsStayTyped, RestStaysTyped, TypeParts
     DEF TypeOK, QueryType, DragType, RestType
<1> QED BY InitTypes, <1>1, PTL DEF Spec

-----------------------------------------------------------------------------
(* A board at rest shows the table.                                        *)

\* Once every event has come in and no drag is under way, the answer under way,
\* or else the list, is that of the table.  The tab's own other requests do not
\* matter: an event tells of them as well.
Fresh ==
  wire = 0 /\ UnderWay = {} /\ ~ missed =>
    /\ fetch = "answered" => ans = Listed
    /\ fetch = "idle" => data = Listed

\* An invalidation makes the list fresh.
LEMMA InvalidateFreshens ==
  ASSUME NEW ms, Invalidate(ms), TypeOK
  PROVE  fetch' = "asked" \/ missed'
BY DEF Invalidate, Fetch, TypeOK

LEMMA FreshStep ==
  ASSUME TypeOK, Fresh, [Next]_vars
  PROVE  Fresh'
<1>1. CASE fetch' = "asked" \/ missed' \/ wire' # 0 \/ UnderWay' # {}
  BY <1>1 DEF Fresh
<1>2. CASE Read
  BY <1>2 DEF Fresh, Read, UnderWay, moves, Listed
<1>3. CASE Receive
  BY <1>3 DEF Fresh, Receive, UnderWay, moves, Listed
<1>4. CASE FetchFails \/ Focus
  BY <1>1, <1>4 DEF FetchFails, Focus, Fetch
<1>5. CASE Deliver \/ OwnSucceeds
  BY <1>1, <1>5, InvalidateFreshens DEF Deliver, OwnSucceeds
<1>6. CASE Undelivered
  BY <1>1, <1>6 DEF Undelivered, Unnoticed, query, TypeOK
<1>7. CASE OwnFails
  BY <1>7 DEF OwnFails, Fresh, UnderWay, moves, query, Listed
<1>8. CASE \E t \in Task, c \in Column \cup {"gone"} : ChangeByOthers(t, c) \/ ChangeByOwn(t, c)
  <2>1. wire' = wire + 1 /\ wire \in Nat
    BY <1>8 DEF ChangeByOthers, ChangeByOwn, TypeOK
  <2>2. wire' # 0
    BY <2>1
  <2> QED BY <1>1, <2>2
<1>9. ASSUME NEW m \in Move, Server(m) \/ MoveFails(m) PROVE Fresh'
  <2>1. stage' [m] # "idle"
    BY <1>9 DEF Server, CommitMove, RejectMove, MoveFails, TypeOK
  <2>2. UnderWay' # {}
    BY <2>1 DEF UnderWay
  <2> QED BY <1>1, <2>2
<1>10. ASSUME NEW m \in Move, Settle(m) PROVE Fresh'
  BY <1>1, <1>10, InvalidateFreshens DEF Settle, SettleOK, RollBack
<1>11. ASSUME NEW m \in Move, NEW t \in Task, NEW c \in Column, Drop(m, t, c) PROVE Fresh'
  <2>1. stage' [m] # "idle"
    BY <1>11 DEF Drop, TypeOK
  <2>2. UnderWay' # {}
    BY <2>1 DEF UnderWay
  <2> QED BY <1>1, <2>2
<1>12. CASE UNCHANGED vars
  BY <1>12 DEF vars, query, moves, Fresh, UnderWay, Listed
<1> QED BY <1>2, <1>3, <1>4, <1>5, <1>6, <1>7, <1>8, <1>9, <1>10, <1>11, <1>12 DEF Next

\* Board!BoardShowsTable: a board at rest shows the table, whatever drags failed
\* or cancelled a fetch, unless nobody told the tab of a change.
THEOREM BoardAlwaysShowsTable == Spec => []BoardShowsTable
<1>1. Init => Fresh
  BY DEF Init, Fresh
<1>2. TypeOK /\ Fresh /\ [Next]_vars => Fresh'
  BY FreshStep
<1>3. TypeOK /\ Fresh => BoardShowsTable
  <2> SUFFICES ASSUME TypeOK, Fresh, ~ Pending PROVE wire = 0 /\ UnderWay = {}
    BY DEF BoardShowsTable, Fresh
  <2> QED BY DEF Pending, TypeOK
<1> QED BY <1>1, <1>2, <1>3, TypeCorrect, PTL DEF Spec

-----------------------------------------------------------------------------
(* A dragged card stays where it was dropped.                              *)

Held(m) ==
  /\ fetch = "idle" /\ data # None
  /\ drag[m].card \in DOMAIN data /\ data[drag[m].card] = drag[m].to

\* Nothing is being fetched for a board with a drag that was not overtaken.
MovesHeld == \A m \in UnderWay \ overtaken : Held(m)

\* Nothing happens to drags, list and request.
Untouched == UNCHANGED <<stage, drag, fetch, data, overtaken>>

LEMMA UntouchedHolds ==
  ASSUME MovesHeld, Untouched
  PROVE  MovesHeld'
BY DEF MovesHeld, Held, Untouched, UnderWay

\* A new request, or one of a page without a list, overtakes every drag.
LEMMA InvalidateHolds ==
  ASSUME MovesHeld, NEW ms, Invalidate(ms), UnderWay' = UnderWay \cap ms
  PROVE  MovesHeld'
<1>1. CASE overtaken' = ms
  BY <1>1 DEF MovesHeld
<1>2. CASE fetch # "idle" /\ overtaken' = overtaken \cap ms
  <2>1. UnderWay \subseteq overtaken
    BY <1>2 DEF MovesHeld, Held
  <2> QED BY <1>2, <2>1 DEF MovesHeld
<1> QED BY <1>1, <1>2 DEF Invalidate, Fetch

LEMMA HeldStep ==
  ASSUME TypeOK, MovesHeld, [Next]_vars
  PROVE  MovesHeld'
<1>1. CASE Read \/ Receive \/ FetchFails
  <2>1. UnderWay \subseteq overtaken
    BY <1>1 DEF MovesHeld, Held, Read, Receive, FetchFails
  <2>2. UnderWay' \subseteq overtaken'
    BY <1>1, <2>1 DEF Read, Receive, FetchFails, moves, UnderWay
  <2> QED BY <2>2 DEF MovesHeld
<1>2. CASE Focus
  BY <1>2 DEF Focus, Fetch, moves, UnderWay, MovesHeld
<1>3. CASE Deliver \/ OwnSucceeds
  <2>1. UnderWay' = UnderWay /\ Invalidate(UnderWay)
    BY <1>3 DEF Deliver, OwnSucceeds, moves, UnderWay
  <2> QED BY <2>1, InvalidateHolds
<1>4. CASE Undelivered \/ OwnFails
  BY <1>4, UntouchedHolds DEF Undelivered, OwnFails, query, moves, Untouched
<1>5. CASE \E t \in Task, c \in Column \cup {"gone"} : ChangeByOthers(t, c) \/ ChangeByOwn(t, c)
  BY <1>5, UntouchedHolds DEF ChangeByOthers, ChangeByOwn, query, moves, Untouched
<1>6. ASSUME NEW m \in Move, Server(m) \/ MoveFails(m) PROVE MovesHeld'
  <2>1. UnderWay' = UnderWay
    BY <1>6 DEF Server, CommitMove, RejectMove, MoveFails, TypeOK, UnderWay
  <2>2. UNCHANGED <<drag, fetch, data, overtaken>>
    BY <1>6 DEF Server, CommitMove, RejectMove, MoveFails, query
  <2> QED BY <2>1, <2>2 DEF MovesHeld, Held
<1>7. ASSUME NEW m \in Move, SettleOK(m) PROVE MovesHeld'
  <2>1. UnderWay' = UnderWay \ {m}
    BY <1>7 DEF SettleOK, TypeOK, UnderWay
  <2>2. UnderWay' = UnderWay \cap (UnderWay \ {m})
    BY <2>1
  <2>3. Invalidate(UnderWay \ {m})
    BY <1>7 DEF SettleOK
  <2> QED BY <2>2, <2>3, InvalidateHolds
<1>8. ASSUME NEW m \in Move, RollBack(m) PROVE MovesHeld'
  <2>1. UnderWay' = UnderWay \ {m} /\ overtaken' = UnderWay \ {m}
    BY <1>8 DEF RollBack, TypeOK, UnderWay
  <2> QED BY <2>1 DEF MovesHeld
<1>9. ASSUME NEW m \in Move, NEW t \in Task, NEW c \in Column, Drop(m, t, c) PROVE MovesHeld'
  <2>1. /\ data \in Lists /\ t \in DOMAIN data /\ data' = [data EXCEPT ![t] = c] /\ fetch' = "idle"
        /\ drag' = [drag EXCEPT ![m] = [card |-> t, to |-> c, before |-> data]]
        /\ overtaken' = overtaken \cup {n \in UnderWay : drag[n].card = t}
    BY <1>9 DEF Drop, TypeOK
  <2>2. data' # None
    BY <2>1, MovedIsList
  <2>3. UnderWay' = UnderWay \cup {m} /\ m \notin UnderWay
    BY <1>9 DEF Drop, TypeOK, UnderWay
  <2>4. drag' [m].card = t /\ drag' [m].to = c
    BY <2>1 DEF TypeOK
  <2>5. Held(m)'
    BY <2>1, <2>2, <2>4 DEF Held, Lists
  <2>6. ASSUME NEW n \in UnderWay' \ overtaken', n # m PROVE Held(n)'
    <3>1. n \in UnderWay \ overtaken /\ drag[n].card # t
      BY <2>1, <2>3, <2>6
    <3>2. Held(n) /\ drag' [n] = drag[n]
      BY <2>1, <2>6, <3>1 DEF MovesHeld, TypeOK, UnderWay
    <3> QED BY <2>1, <2>2, <3>1, <3>2 DEF Held, Lists
  <2> QED BY <2>5, <2>6 DEF MovesHeld
<1>10. CASE UNCHANGED vars
  BY <1>10, UntouchedHolds DEF vars, query, moves, Untouched
<1> QED BY <1>1, <1>2, <1>3, <1>4, <1>5, <1>6, <1>7, <1>8, <1>9, <1>10 DEF Next, Settle

\* Board!MoveStaysShown: a card stays where it was dropped until its request is
\* answered, another drag of it or a rollback comes, or a new fetch begins.
THEOREM MovesStayShown == Spec => []MoveStaysShown
<1>1. Init => MovesHeld
  BY DEF Init, MovesHeld, UnderWay
<1>2. TypeOK /\ MovesHeld /\ [Next]_vars => MovesHeld'
  BY HeldStep
<1>3. MovesHeld => MoveStaysShown
  BY DEF MovesHeld, Held, MoveStaysShown
<1> QED BY <1>1, <1>2, <1>3, TypeCorrect, PTL DEF Spec
=============================================================================
