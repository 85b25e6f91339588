--------------------------- MODULE PresenceProofs ---------------------------
(***************************************************************************)
(* What holds of Presence for any users, tabs, processes and faults.       *)
(* The first part is about the hash only: every step but Join, Leave and   *)
(* ClearField leaves it alone and keeps the set of connections that owe a  *)
(* decrement, so the invariant follows from three cases and one lemma      *)
(* about everything else.  The second and third parts are about the lists  *)
(* the tabs keep: a join comes after the tab's snapshot, and a tab that    *)
(* has been sent everything agrees with the hash.                          *)
(***************************************************************************)
EXTENDS Presence, FiniteSetTheorems, SequenceTheorems, TLAPS

Cleaner(c) == pc[c] \in {"clearing", "dropped"}

\* An entry whose count is not positive has a handler that was, or is, about
\* to delete it.
ZeroHasCleaner ==
  \A u \in fields : count[u] <= 0 => \E c \in ConnsOf(u) : Cleaner(c)

\* Until a join falls into the window of a leave, a handler in that window is
\* the user's last one.
ClearerIsLast ==
  \A u \in User \ raced : \A c \in ConnsOf(u) :
    pc[c] = "clearing" => Holding(u) = {}

IInv ==
  /\ TypeOK
  /\ CountNeverExceedsHolders
  /\ ZeroHasCleaner
  /\ ExactUnlessRaced
  /\ ClearerIsLast

-----------------------------------------------------------------------------
\* Publishing keeps a queue a queue of messages, and leaves it non-empty.
LEMMA MessageAppended ==
  \A s \in Seq(Message) : \A m \in Message :
    Append(s, m) \in Seq(Message) /\ Append(s, m) # <<>>
  BY AppendProperties

\* Type correctness: every step of every handler, listener and fault keeps the
\* variables in their types, and never relays without a message in hand.
THEOREM TypeCorrect == Spec => []TypeOK
<1>1. Init => TypeOK
  BY DEF Init, TypeOK, Steps
<1>2. TypeOK /\ [Next]_vars => TypeOK'
  <2> SUFFICES ASSUME TypeOK, [Next]_vars PROVE TypeOK'
    OBVIOUS
  <2> USE OwnerType, HostType DEF TypeOK, Steps, Ended, Goto, hash, handler, relay, history
  <2>1. ASSUME NEW c \in Conn, Connect(c) PROVE TypeOK'
    BY <2>1 DEF Connect, Register
  <2>2. ASSUME NEW c \in Conn, ClientCloses(c) PROVE TypeOK'
    BY <2>2 DEF ClientCloses
  <2>3. ASSUME NEW c \in Conn, Join(c) PROVE TypeOK'
    BY <2>3 DEF Join, HIncrBy, ConnsOf
  <2>4. ASSUME NEW c \in Conn, ReadOnline(c) PROVE TypeOK'
    BY <2>4 DEF ReadOnline
  <2>5. ASSUME NEW c \in Conn, SendSnapshot(c) PROVE TypeOK'
    BY <2>5 DEF SendSnapshot
  <2>6. ASSUME NEW c \in Conn, SnapshotFails(c) PROVE TypeOK'
    BY <2>6 DEF SnapshotFails
  <2>7. ASSUME NEW u \in User, NEW kind \in {"joined", "left"}, PublishEvent(kind, u)
        PROVE  /\ queue' \in [Instance -> Seq(Message)]
               /\ \A i \in Instance : queue[i] # <<>> => queue'[i] # <<>>
    <3>1. [type |-> kind, user |-> u] \in Message
      BY DEF Message
    <3> QED
      BY <2>7, <3>1, MessageAppended DEF PublishEvent
  <2>8. ASSUME NEW c \in Conn, PublishJoined(c) PROVE TypeOK'
    BY <2>7, <2>8 DEF PublishJoined, Tells
  <2>9. ASSUME NEW c \in Conn, Disconnect(c) PROVE TypeOK'
    BY <2>9 DEF Disconnect, Unregister
  <2>10. ASSUME NEW c \in Conn, Leave(c) PROVE TypeOK'
    BY <2>10 DEF Leave, HIncrBy
  <2>11. ASSUME NEW c \in Conn, ClearField(c) PROVE TypeOK'
    BY <2>11 DEF ClearField, HDel
  <2>12. ASSUME NEW c \in Conn, PublishLeft(c) PROVE TypeOK'
    BY <2>7, <2>12 DEF PublishLeft, Tells
  <2>13. ASSUME NEW i \in Instance, StartRelay(i) PROVE TypeOK'
    BY <2>13 DEF StartRelay
  <2>14. ASSUME NEW i \in Instance, NEW c \in Conn, RelayTo(i, c) PROVE TypeOK'
    <3>1. Head(queue[i]) \in Message
      BY <2>14 DEF RelayTo
    <3> QED
      BY <2>14, <3>1 DEF RelayTo, Applied, Message
  <2>15. ASSUME NEW i \in Instance, NEW c \in Conn, RelayToGone(i, c) PROVE TypeOK'
    <3>1. dead' \in [Instance -> SUBSET Conn]
      BY <2>15 DEF RelayToGone
    <3>2. todo' \in [Instance -> SUBSET Conn]
      BY <2>15 DEF RelayToGone
    <3> QED
      BY <2>15, <3>1, <3>2 DEF RelayToGone
  <2>16. ASSUME NEW i \in Instance, EndRelay(i) PROVE TypeOK'
    <3>1. Tail(queue[i]) \in Seq(Message)
      BY <2>16 DEF EndRelay
    <3> QED
      BY <2>16, <3>1 DEF EndRelay, Unregister
  <2>17. ASSUME NEW c \in Conn, RedisError(c) PROVE TypeOK'
    BY <2>17 DEF RedisError
  <2>18. ASSUME NEW i \in Instance, ListenerDies(i) PROVE TypeOK'
    BY <2>18 DEF ListenerDies
  <2>19. ASSUME NEW i \in Instance, Crash(i) PROVE TypeOK'
    BY <2>19 DEF Crash
  <2>20. CASE UNCHANGED vars
    BY <2>20 DEF vars
  <2> QED
    BY <2>1, <2>2, <2>3, <2>4, <2>5, <2>6, <2>8, <2>9, <2>10, <2>11, <2>12,
       <2>13, <2>14, <2>15, <2>16, <2>17, <2>18, <2>19, <2>20
       DEF Next, HandlerStep, ListenerStep, Fault
<1> QED
  BY <1>1, <1>2, PTL DEF Spec
-----------------------------------------------------------------------------
\* The connections of a user that owe a decrement are finitely many.
LEMMA HoldingFinite ==
  ASSUME NEW u \in User
  PROVE  /\ IsFiniteSet(Holding(u))
         /\ Cardinality(Holding(u)) \in Nat
         /\ Cardinality(Holding(u)) = 0 <=> Holding(u) = {}
<1>1. Holding(u) \in SUBSET Conn
  BY DEF Holding, ConnsOf
<1>2. IsFiniteSet(Holding(u))
  BY <1>1, ConnFinite, FS_Subset
<1> QED
  BY <1>2, FS_CardinalityType, FS_EmptySet

\* A step "about something else": it leaves the hash alone, changes nobody's
\* debt, puts no handler into the window of a leave and loses no cleaner.
Bystander ==
  /\ UNCHANGED <<fields, count, raced>>
  /\ \A c \in Conn :
       /\ pc'[c] \in HoldingPC <=> pc[c] \in HoldingPC
       /\ pc'[c] = "clearing" => pc[c] = "clearing"
       /\ Cleaner(c) => Cleaner(c)'

\* Every step but Join, Leave and ClearField is one.
LEMMA OtherStepsStandBy ==
  ASSUME TypeOK, [Next]_vars
  PROVE  \/ Bystander
         \/ \E c \in Conn : Join(c) \/ Leave(c) \/ ClearField(c)
<1> USE DEF Bystander, Cleaner, HoldingPC, Goto, TypeOK, hash, handler, history
<1>1. ASSUME NEW c \in Conn,
             \/ Connect(c) \/ ReadOnline(c) \/ SendSnapshot(c) \/ SnapshotFails(c)
             \/ PublishJoined(c) \/ Disconnect(c) \/ PublishLeft(c)
      PROVE  Bystander
  BY <1>1 DEF Connect, ReadOnline, SendSnapshot, SnapshotFails, PublishJoined,
              Disconnect, PublishLeft
<1>2. ASSUME NEW c \in Conn, ClientCloses(c) PROVE Bystander
  BY <1>2 DEF ClientCloses
<1>3. ASSUME NEW i \in Instance, ListenerStep(i) PROVE Bystander
  BY <1>3 DEF ListenerStep, StartRelay, EndRelay, RelayTo, RelayToGone
<1>4. ASSUME NEW c \in Conn, RedisError(c) PROVE Bystander
  BY <1>4 DEF RedisError
<1>5. ASSUME NEW i \in Instance, ListenerDies(i) PROVE Bystander
  BY <1>5 DEF ListenerDies
<1>6. ASSUME NEW i \in Instance, Crash(i) PROVE Bystander
  BY <1>6 DEF Crash, Ended
<1>7. CASE UNCHANGED vars
  BY <1>7 DEF vars
<1> QED
  BY <1>1, <1>2, <1>3, <1>4, <1>5, <1>6, <1>7 DEF Next, HandlerStep, Fault

\* The set of debtors after a step in which only c's handler moves.
LEMMA HoldingAfterMove ==
  ASSUME TypeOK, NEW c \in Conn, NEW step \in Steps \cup Ended, Goto(c, step),
         NEW u \in User
  PROVE  /\ owner[c] # u => Holding(u)' = Holding(u)
         /\ owner[c] = u /\ step \in HoldingPC => Holding(u)' = Holding(u) \cup {c}
         /\ owner[c] = u /\ step \notin HoldingPC => Holding(u)' = Holding(u) \ {c}
<1>1. \A d \in Conn : pc'[d] = IF d = c THEN step ELSE pc[d]
  BY DEF Goto, TypeOK
<1> QED
  BY <1>1 DEF Holding, ConnsOf

\* The inductive invariant is kept by every step.
LEMMA InvariantKept ==
  ASSUME IInv, TypeOK', [Next]_vars
  PROVE  IInv'
<1> USE OwnerType DEF IInv
<1>1. CASE Bystander
  <2>1. \A u \in User : Holding(u)' = Holding(u)
    BY <1>1 DEF Bystander, Holding, ConnsOf
  <2>2. CountNeverExceedsHolders'
    BY <1>1, <2>1 DEF Bystander, CountNeverExceedsHolders
  <2>3. ZeroHasCleaner'
    BY <1>1 DEF Bystander, ZeroHasCleaner, ConnsOf
  <2>4. ExactUnlessRaced'
    BY <1>1, <2>1 DEF Bystander, ExactUnlessRaced
  <2>5. ClearerIsLast'
    BY <1>1, <2>1 DEF Bystander, ClearerIsLast, ConnsOf
  <2> QED
    BY <2>2, <2>3, <2>4, <2>5
<1>2. ASSUME NEW c \in Conn, Join(c) PROVE IInv'
  <2> DEFINE u == owner[c]
  <2>1. u \in User /\ c \notin Holding(u)
    BY <1>2 DEF Join, Holding, HoldingPC
  <2>2. Goto(c, "joined") /\ "joined" \in Steps \cup Ended /\ "joined" \in HoldingPC
    BY <1>2 DEF Join, Steps, HoldingPC
  <2>3. /\ Holding(u)' = Holding(u) \cup {c}
        /\ \A v \in User \ {u} : Holding(v)' = Holding(v)
    BY <2>1, <2>2, HoldingAfterMove
  <2>4. Cardinality(Holding(u)') = Cardinality(Holding(u)) + 1
    BY <2>1, <2>3, HoldingFinite, FS_AddElement
  <2>5. /\ count'[u] = count[u] + 1
        /\ \A v \in User \ {u} : count'[v] = count[v]
        /\ fields' = fields \cup {u}
        /\ raced \subseteq raced'
    BY <1>2, <2>1 DEF Join, HIncrBy, TypeOK
  <2>6. \A d \in Conn : pc'[d] = IF d = c THEN "joined" ELSE pc[d]
    BY <2>2 DEF Goto, TypeOK
  <2>7. CountNeverExceedsHolders'
    <3> SUFFICES ASSUME NEW v \in User PROVE count'[v] <= Cardinality(Holding(v)')
      BY DEF CountNeverExceedsHolders
    <3>1. count[v] <= Cardinality(Holding(v)) /\ count[v] \in Int /\ Cardinality(Holding(v)) \in Nat
      BY HoldingFinite DEF CountNeverExceedsHolders, TypeOK
    <3>2. CASE v = u
      BY <2>4, <2>5, <3>1, <3>2
    <3>3. CASE v # u
      BY <2>3, <2>5, <3>1, <3>3
    <3> QED
      BY <3>2, <3>3
  <2>8. ZeroHasCleaner'
    <3> SUFFICES ASSUME NEW v \in fields', count'[v] <= 0
                 PROVE  \E d \in ConnsOf(v) : Cleaner(d)'
      BY DEF ZeroHasCleaner, ConnsOf
    <3>1. v \in User /\ count[v] \in Int
      BY <2>1, <2>5 DEF TypeOK
    <3>2. v \in fields /\ count[v] <= 0
      BY <2>1, <2>5, <3>1 DEF TypeOK
    <3>3. PICK d \in ConnsOf(v) : Cleaner(d)
      BY <3>2 DEF ZeroHasCleaner
    <3> QED
      BY <1>2, <2>6, <3>3 DEF Cleaner, ConnsOf, Join
  <2>9. ExactUnlessRaced'
    <3> SUFFICES ASSUME NEW v \in User \ raced'
                 PROVE  count'[v] = Cardinality(Holding(v)') /\ (Holding(v)' # {} => v \in fields')
      BY DEF ExactUnlessRaced
    <3>1. count[v] = Cardinality(Holding(v)) /\ (Holding(v) # {} => v \in fields)
      BY <2>5 DEF ExactUnlessRaced
    <3> QED
      BY <2>1, <2>3, <2>4, <2>5, <3>1
  <2>10. ClearerIsLast'
    <3> SUFFICES ASSUME NEW v \in User \ raced', NEW d \in ConnsOf(v), pc'[d] = "clearing"
                 PROVE  Holding(v)' = {}
      BY DEF ClearerIsLast, ConnsOf
    <3>1. pc[d] = "clearing" /\ v \notin raced /\ d \in Conn
      BY <2>5, <2>6 DEF ConnsOf
    <3>2. v # u
      BY <1>2, <3>1 DEF Join
    <3> QED
      BY <2>3, <3>1, <3>2 DEF ClearerIsLast
  <2> QED
    BY <2>7, <2>8, <2>9, <2>10
<1>3. ASSUME NEW c \in Conn, Leave(c) PROVE IInv'
  <2> DEFINE u == owner[c]
  <2> DEFINE step == IF count[u] - 1 <= 0 THEN "clearing" ELSE "closed"
  <2>1. u \in User /\ c \in ConnsOf(u) /\ c \in Holding(u)
    BY <1>3 DEF Leave, Holding, ConnsOf, HoldingPC
  <2>2. Goto(c, step) /\ step \in Steps \cup Ended /\ step \notin HoldingPC
    BY <1>3 DEF Leave, Steps, Ended, HoldingPC
  <2>3. /\ Holding(u)' = Holding(u) \ {c}
        /\ \A v \in User \ {u} : Holding(v)' = Holding(v)
    BY <2>1, <2>2, HoldingAfterMove
  <2>4. Cardinality(Holding(u)') = Cardinality(Holding(u)) - 1
    <3>1. IsFiniteSet(Holding(u))
      BY HoldingFinite
    <3> HIDE DEF u
    <3>2. Cardinality(Holding(u) \ {c}) = Cardinality(Holding(u)) - 1
      BY <2>1, <3>1, FS_RemoveElement
    <3> QED BY <2>3, <3>2
  <2>5. /\ count'[u] = count[u] - 1
        /\ \A v \in User \ {u} : count'[v] = count[v]
        /\ fields' = fields \cup {u}
        /\ raced' = raced
    BY <1>3, <2>1 DEF Leave, HIncrBy, TypeOK, history
  <2>6. \A d \in Conn : pc'[d] = IF d = c THEN step ELSE pc[d]
    BY <2>2 DEF Goto, TypeOK
  <2>7. CountNeverExceedsHolders'
    <3> SUFFICES ASSUME NEW v \in User PROVE count'[v] <= Cardinality(Holding(v)')
      BY DEF CountNeverExceedsHolders
    <3>1. count[v] <= Cardinality(Holding(v)) /\ count[v] \in Int /\ Cardinality(Holding(v)) \in Nat
      BY HoldingFinite DEF CountNeverExceedsHolders, TypeOK
    <3>2. CASE v = u
      BY <2>4, <2>5, <3>1, <3>2
    <3>3. CASE v # u
      BY <2>3, <2>5, <3>1, <3>3
    <3> QED
      BY <3>2, <3>3
  <2>8. ZeroHasCleaner'
    <3> SUFFICES ASSUME NEW v \in fields', count'[v] <= 0
                 PROVE  \E d \in ConnsOf(v) : Cleaner(d)'
      BY DEF ZeroHasCleaner, ConnsOf
    <3>1. CASE v = u
      BY <2>1, <2>5, <2>6, <3>1 DEF Cleaner, ConnsOf
    <3>2. CASE v # u
      <4>1. v \in User /\ v \in fields /\ count[v] <= 0
        BY <2>1, <2>5, <3>2 DEF TypeOK
      <4>2. PICK d \in ConnsOf(v) : Cleaner(d)
        BY <4>1 DEF ZeroHasCleaner
      <4> QED
        BY <2>6, <3>2, <4>2 DEF Cleaner, ConnsOf
    <3> QED
      BY <3>1, <3>2
  <2>9. ExactUnlessRaced'
    <3> SUFFICES ASSUME NEW v \in User \ raced
                 PROVE  count'[v] = Cardinality(Holding(v)') /\ (Holding(v)' # {} => v \in fields')
      BY <2>5 DEF ExactUnlessRaced
    <3>1. count[v] = Cardinality(Holding(v)) /\ (Holding(v) # {} => v \in fields)
      BY DEF ExactUnlessRaced
    <3> QED
      BY <2>1, <2>3, <2>4, <2>5, <3>1
  <2>10. ClearerIsLast'
    <3> SUFFICES ASSUME NEW v \in User \ raced, NEW d \in ConnsOf(v), pc'[d] = "clearing"
                 PROVE  Holding(v)' = {}
      BY <2>5 DEF ClearerIsLast, ConnsOf
    <3>1. CASE d = c
      <4>1. v = u /\ count[u] - 1 <= 0
        BY <2>6, <3>1 DEF ConnsOf
      <4>2. count[u] = Cardinality(Holding(u))
        BY <4>1 DEF ExactUnlessRaced
      <4>3. Cardinality(Holding(u)) \in Nat /\ IsFiniteSet(Holding(u))
        BY <2>1, HoldingFinite
      <4>4. Cardinality(Holding(u)') = 0
        <5>1. IsFiniteSet(Holding(u)') /\ Cardinality(Holding(u)') \in Nat
          BY <2>3, <4>3, FS_RemoveElement, FS_CardinalityType
        <5> QED
          BY <2>4, <4>1, <4>2, <4>3, <5>1
      <4> QED
        BY <2>3, <4>1, <4>3, <4>4, FS_RemoveElement, FS_EmptySet
    <3>2. CASE d # c
      <4>1. pc[d] = "clearing" /\ d \in Conn
        BY <2>6, <3>2 DEF ConnsOf
      <4>2. Holding(v) = {}
        BY <4>1 DEF ClearerIsLast
      <4> QED
        BY <2>1, <2>3, <4>2
    <3> QED
      BY <3>1, <3>2
  <2> QED
    BY <2>7, <2>8, <2>9, <2>10
<1>4. ASSUME NEW c \in Conn, ClearField(c) PROVE IInv'
  <2> DEFINE u == owner[c]
  <2>1. u \in User /\ c \in ConnsOf(u) /\ c \notin Holding(u) /\ pc[c] = "clearing"
    BY <1>4 DEF ClearField, Holding, ConnsOf, HoldingPC
  <2>2. Goto(c, "goodbye") /\ "goodbye" \in Steps \cup Ended /\ "goodbye" \notin HoldingPC
    BY <1>4 DEF ClearField, Steps, HoldingPC
  <2>3. \A v \in User : Holding(v)' = Holding(v)
    BY <2>1, <2>2, HoldingAfterMove
  <2>4. /\ count'[u] = 0
        /\ \A v \in User \ {u} : count'[v] = count[v]
        /\ fields' = fields \ {u}
        /\ raced' = raced
    BY <1>4, <2>1 DEF ClearField, HDel, TypeOK, history
  <2>5. \A d \in Conn : pc'[d] = IF d = c THEN "goodbye" ELSE pc[d]
    BY <2>2 DEF Goto, TypeOK
  <2>6. CountNeverExceedsHolders'
    <3> SUFFICES ASSUME NEW v \in User PROVE count'[v] <= Cardinality(Holding(v)')
      BY DEF CountNeverExceedsHolders
    <3>1. count[v] <= Cardinality(Holding(v)) /\ Cardinality(Holding(v)) \in Nat
      BY HoldingFinite DEF CountNeverExceedsHolders
    <3> QED
      BY <2>3, <2>4, <3>1
  <2>7. ZeroHasCleaner'
    <3> SUFFICES ASSUME NEW v \in fields', count'[v] <= 0
                 PROVE  \E d \in ConnsOf(v) : Cleaner(d)'
      BY DEF ZeroHasCleaner, ConnsOf
    <3>1. v # u /\ v \in User /\ v \in fields /\ count[v] <= 0
      BY <2>1, <2>4 DEF TypeOK
    <3>2. PICK d \in ConnsOf(v) : Cleaner(d)
      BY <3>1 DEF ZeroHasCleaner
    <3> QED
      BY <2>5, <3>1, <3>2 DEF Cleaner, ConnsOf
  <2>8. ExactUnlessRaced'
    <3> SUFFICES ASSUME NEW v \in User \ raced
                 PROVE  count'[v] = Cardinality(Holding(v)') /\ (Holding(v)' # {} => v \in fields')
      BY <2>4 DEF ExactUnlessRaced
    <3>1. count[v] = Cardinality(Holding(v)) /\ (Holding(v) # {} => v \in fields)
      BY DEF ExactUnlessRaced
    <3>2. v = u => Holding(v) = {} /\ Cardinality(Holding(v)) = 0
      BY <2>1, HoldingFinite DEF ClearerIsLast
    <3> QED
      BY <2>1, <2>3, <2>4, <3>1, <3>2
  <2>9. ClearerIsLast'
    BY <2>3, <2>4, <2>5 DEF ClearerIsLast, ConnsOf
  <2> QED
    BY <2>6, <2>7, <2>8, <2>9
<1> QED
  BY <1>1, <1>2, <1>3, <1>4, OtherStepsStandBy

LEMMA InvariantHolds == Spec => []IInv
<1>1. Init => IInv
  <2> SUFFICES ASSUME Init PROVE IInv
    OBVIOUS
  <2>1. TypeOK
    BY DEF Init, TypeOK, Steps
  <2>2. \A u \in User : Holding(u) = {} /\ Cardinality(Holding(u)) = 0 /\ count[u] = 0
    BY OwnerType, FS_EmptySet DEF Init, Holding, ConnsOf, HoldingPC
  <2>3. CountNeverExceedsHolders /\ ExactUnlessRaced /\ ClearerIsLast
    BY <2>2 DEF CountNeverExceedsHolders, ExactUnlessRaced, ClearerIsLast
  <2>4. ZeroHasCleaner
    BY DEF Init, ZeroHasCleaner
  <2> QED
    BY <2>1, <2>3, <2>4 DEF IInv
<1>2. IInv /\ TypeOK' /\ [Next]_vars => IInv'
  BY InvariantKept
<1> QED
  BY <1>1, <1>2, TypeCorrect, PTL DEF Spec

\* presence.join and presence.leave never count a connection twice: the count in
\* Redis is at most the number of connections that still owe a decrement.
THEOREM CountBounded == Spec => []CountNeverExceedsHolders
  BY InvariantHolds, PTL DEF IInv

\* However joins and leaves interleave, and whatever fails, an entry of the hash
\* has a handler responsible for it or one that an error ended.
THEOREM StaleEntriesComeFromErrors == Spec => []NoStaleEntry
<1>1. IInv => NoStaleEntry
  <2> SUFFICES ASSUME IInv, NEW u \in fields
               PROVE  \E c \in ConnsOf(u) : pc[c] \in HoldingPC \cup {"clearing", "dropped"}
    BY DEF NoStaleEntry
  <2>1. u \in User /\ count[u] \in Int
    BY DEF IInv, TypeOK
  <2>2. CASE count[u] <= 0
    BY <2>2 DEF IInv, ZeroHasCleaner, Cleaner
  <2>3. CASE count[u] > 0
    <3>1. Cardinality(Holding(u)) # 0
      BY <2>1, <2>3, HoldingFinite DEF IInv, CountNeverExceedsHolders
    <3>2. Holding(u) # {}
      BY <2>1, <3>1, HoldingFinite
    <3> QED
      BY <3>2 DEF Holding
  <2> QED
    BY <2>1, <2>2, <2>3
<1> QED
  BY <1>1, InvariantHolds, PTL

\* A join inside the window between the two commands of a leave is the only way
\* the hash can lose a connected user or a count.
THEOREM ExactWithoutRace == Spec => []ExactUnlessRaced
  BY InvariantHolds, PTL DEF IInv

-----------------------------------------------------------------------------
(* A tab's own join comes after its snapshot.                              *)

\* The steps before a handler has sent its snapshot; no handler goes back.
Early == {"idle", "joining", "joined", "snapshot"}
Past(u) == \E d \in ConnsOf(u) : pc[d] \notin Early

\* Nobody's join is on its way, or in the tab's own list, before one of the
\* user's handlers has got past its snapshot.
JoinsComeFromPast ==
  /\ \A i \in Instance : \A k \in DOMAIN queue[i] :
       \A u \in User : queue[i][k] = [type |-> "joined", user |-> u] => Past(u)
  /\ \A c \in Conn : pc[c] \in Early /\ owner[c] \in view[c] => Past(owner[c])

\* No step of a handler, a client or a fault leads back to an early step.
LEMMA NeverEarlyAgain ==
  ASSUME TypeOK, [Next]_vars
  PROVE  \A c \in Conn : pc'[c] \in Early => pc[c] \in Early
<1> USE DEF Early, Goto, TypeOK, handler
<1>1. ASSUME NEW c \in Conn,
             Connect(c) \/ ClientCloses(c) \/ Join(c) \/ ReadOnline(c) \/ SendSnapshot(c) \/ SnapshotFails(c)
      PROVE  \A d \in Conn : pc'[d] \in Early => pc[d] \in Early
  BY <1>1 DEF Connect, ClientCloses, Join, ReadOnline, SendSnapshot, SnapshotFails
<1>2. ASSUME NEW c \in Conn,
             PublishJoined(c) \/ Disconnect(c) \/ Leave(c) \/ ClearField(c) \/ PublishLeft(c) \/ RedisError(c)
      PROVE  \A d \in Conn : pc'[d] \in Early => pc[d] \in Early
  BY <1>2 DEF PublishJoined, Disconnect, Leave, ClearField, PublishLeft, RedisError
<1>3. ASSUME NEW i \in Instance, ListenerStep(i) \/ ListenerDies(i)
      PROVE  \A d \in Conn : pc'[d] \in Early => pc[d] \in Early
  BY <1>3 DEF ListenerStep, StartRelay, EndRelay, RelayTo, RelayToGone, ListenerDies
<1>4. ASSUME NEW i \in Instance, Crash(i)
      PROVE  \A d \in Conn : pc'[d] \in Early => pc[d] \in Early
  BY <1>4 DEF Crash
<1>5. CASE UNCHANGED vars
  BY <1>5 DEF vars
<1> QED
  BY <1>1, <1>2, <1>3, <1>4, <1>5 DEF Next, HandlerStep, Fault

\* A queue changes by a publication at its end, or it loses messages.
LEMMA QueueStep ==
  ASSUME TypeOK, [Next]_vars
  PROVE  \A i \in Instance :
           \/ queue'[i] = queue[i] /\ listening'[i] = listening[i]
           \/ queue'[i] = <<>>
           \/ queue[i] # <<>> /\ queue'[i] = Tail(queue[i]) /\ listening'[i] = listening[i]
           \/ \E c \in Conn :
                \/ PublishJoined(c) /\ queue'[i] = Append(queue[i], [type |-> "joined", user |-> owner[c]])
                \/ PublishLeft(c) /\ queue'[i] = Append(queue[i], [type |-> "left", user |-> owner[c]])
<1> SUFFICES ASSUME NEW i \in Instance
             PROVE  \/ queue'[i] = queue[i] /\ listening'[i] = listening[i]
                    \/ queue'[i] = <<>>
                    \/ queue[i] # <<>> /\ queue'[i] = Tail(queue[i]) /\ listening'[i] = listening[i]
                    \/ \E c \in Conn :
                         \/ PublishJoined(c) /\ queue'[i] = Append(queue[i], [type |-> "joined", user |-> owner[c]])
                         \/ PublishLeft(c) /\ queue'[i] = Append(queue[i], [type |-> "left", user |-> owner[c]])
  OBVIOUS
<1> DEFINE Same == queue'[i] = queue[i] /\ listening'[i] = listening[i]
<1>1. ASSUME NEW c \in Conn, PublishJoined(c) \/ PublishLeft(c)
      PROVE  \/ Same
             \/ PublishJoined(c) /\ queue'[i] = Append(queue[i], [type |-> "joined", user |-> owner[c]])
             \/ PublishLeft(c) /\ queue'[i] = Append(queue[i], [type |-> "left", user |-> owner[c]])
  BY <1>1 DEF PublishJoined, PublishLeft, PublishEvent
<1>2. ASSUME NEW c \in Conn,
             Connect(c) \/ ClientCloses(c) \/ Join(c) \/ ReadOnline(c) \/ SendSnapshot(c) \/ SnapshotFails(c)
      PROVE  Same
  BY <1>2 DEF Connect, ClientCloses, Join, ReadOnline, SendSnapshot, SnapshotFails
<1>3. ASSUME NEW c \in Conn, Disconnect(c) \/ Leave(c) \/ ClearField(c) \/ RedisError(c)
      PROVE  Same
  BY <1>3 DEF Disconnect, Leave, ClearField, RedisError
<1>4. ASSUME NEW j \in Instance, ListenerStep(j)
      PROVE  Same \/ (queue[i] # <<>> /\ queue'[i] = Tail(queue[i]) /\ listening'[i] = listening[i])
  BY <1>4 DEF ListenerStep, StartRelay, EndRelay, RelayTo, RelayToGone, TypeOK
<1>5. ASSUME NEW j \in Instance, ListenerDies(j) \/ Crash(j)
      PROVE  Same \/ queue'[i] = <<>>
  BY <1>5 DEF ListenerDies, Crash, TypeOK
<1>6. CASE UNCHANGED vars
  BY <1>6 DEF vars
<1> QED
  BY <1>1, <1>2, <1>3, <1>4, <1>5, <1>6 DEF Next, HandlerStep, Fault

\* A tab's list changes by one message, by its snapshot, or it is lost.
LEMMA ViewStep ==
  ASSUME TypeOK, [Next]_vars
  PROVE  \A c \in Conn :
           \/ view'[c] = view[c]
           \/ view'[c] = {} /\ ~ up'[c]
           \/ SendSnapshot(c) /\ view'[c] = onlineIds[c]
           \/ \E i \in Instance : RelayTo(i, c) /\ view'[c] = Applied(view[c], Head(queue[i]))
<1> SUFFICES ASSUME NEW c \in Conn
             PROVE  \/ view'[c] = view[c]
                    \/ view'[c] = {} /\ ~ up'[c]
                    \/ SendSnapshot(c) /\ view'[c] = onlineIds[c]
                    \/ \E i \in Instance : RelayTo(i, c) /\ view'[c] = Applied(view[c], Head(queue[i]))
  OBVIOUS
<1> USE DEF TypeOK
<1>1. ASSUME NEW d \in Conn,
             \/ Connect(d) \/ Join(d) \/ ReadOnline(d) \/ SnapshotFails(d) \/ PublishJoined(d) \/ Disconnect(d)
             \/ Leave(d) \/ ClearField(d) \/ PublishLeft(d)
      PROVE  view'[c] = view[c]
  BY <1>1 DEF Connect, Join, ReadOnline, SnapshotFails, PublishJoined, Disconnect, Leave, ClearField, PublishLeft
<1>2. ASSUME NEW d \in Conn, ClientCloses(d) \/ RedisError(d)
      PROVE  view'[c] = view[c] \/ (view'[c] = {} /\ ~ up'[c])
  BY <1>2 DEF ClientCloses, RedisError
<1>3. ASSUME NEW d \in Conn, SendSnapshot(d)
      PROVE  view'[c] = view[c] \/ (SendSnapshot(c) /\ view'[c] = onlineIds[c])
  BY <1>3 DEF SendSnapshot
<1>4. ASSUME NEW i \in Instance, NEW d \in Conn, RelayTo(i, d)
      PROVE  view'[c] = view[c] \/ (RelayTo(i, c) /\ view'[c] = Applied(view[c], Head(queue[i])))
  BY <1>4 DEF RelayTo
<1>5. ASSUME NEW i \in Instance, NEW d \in Conn,
             StartRelay(i) \/ RelayToGone(i, d) \/ EndRelay(i) \/ ListenerDies(i)
      PROVE  view'[c] = view[c]
  BY <1>5 DEF StartRelay, RelayToGone, EndRelay, ListenerDies
<1>6. ASSUME NEW i \in Instance, Crash(i)
      PROVE  view'[c] = view[c] \/ (view'[c] = {} /\ ~ up'[c])
  BY <1>6 DEF Crash
<1>7. CASE UNCHANGED vars
  BY <1>7 DEF vars
<1> QED
  BY <1>1, <1>2, <1>3, <1>4, <1>5, <1>6, <1>7 DEF Next, HandlerStep, ListenerStep, Fault

LEMMA JoinsStayPast ==
  ASSUME TypeOK, JoinsComeFromPast, [Next]_vars
  PROVE  JoinsComeFromPast'
<1>1. \A u \in User : Past(u) => Past(u)'
  BY NeverEarlyAgain DEF Past, ConnsOf
<1>2. ASSUME NEW i \in Instance, NEW k \in DOMAIN queue'[i], NEW u \in User,
             queue'[i][k] = [type |-> "joined", user |-> u]
      PROVE  Past(u)'
  <2>1. queue[i] \in Seq(Message)
    BY DEF TypeOK
  <2>2. ASSUME NEW l \in DOMAIN queue[i], queue[i][l] = queue'[i][k] PROVE Past(u)'
    BY <1>1, <1>2, <2>2 DEF JoinsComeFromPast
  <2>3. CASE queue[i] # <<>> /\ queue'[i] = Tail(queue[i])
    <3>1. k + 1 \in DOMAIN queue[i] /\ queue[i][k + 1] = queue'[i][k]
      BY <2>1, <2>3
    <3> QED BY <2>2, <3>1
  <2>4. ASSUME NEW m \in Message, queue'[i] = Append(queue[i], m)
        PROVE  queue'[i][k] = m \/ (k \in DOMAIN queue[i] /\ queue'[i][k] = queue[i][k])
    BY <2>1, <2>4
  <2>5. ASSUME NEW c \in Conn, PublishJoined(c),
               queue'[i] = Append(queue[i], [type |-> "joined", user |-> owner[c]])
        PROVE  Past(u)'
    <3>1. [type |-> "joined", user |-> owner[c]] \in Message
      BY OwnerType DEF Message
    <3>2. Past(owner[c])'
      BY <2>5 DEF PublishJoined, Goto, Past, ConnsOf, Early, TypeOK
    <3>3. owner[c] = u \/ (k \in DOMAIN queue[i] /\ queue'[i][k] = queue[i][k])
      BY <1>2, <2>4, <2>5, <3>1
    <3> QED BY <2>2, <3>2, <3>3
  <2>6. ASSUME NEW c \in Conn, PublishLeft(c),
               queue'[i] = Append(queue[i], [type |-> "left", user |-> owner[c]])
        PROVE  Past(u)'
    <3>1. [type |-> "left", user |-> owner[c]] \in Message
      BY OwnerType DEF Message
    <3>2. k \in DOMAIN queue[i] /\ queue'[i][k] = queue[i][k]
      BY <1>2, <2>4, <2>6, <3>1
    <3> QED BY <2>2, <3>2
  <2>7. CASE queue'[i] = queue[i]
    BY <2>2, <2>7
  <2>8. CASE queue'[i] = <<>>
    BY <2>8
  <2> QED BY <2>3, <2>5, <2>6, <2>7, <2>8, QueueStep
<1>3. ASSUME NEW c \in Conn, pc'[c] \in Early, owner[c] \in view'[c]
      PROVE  Past(owner[c])'
  <2>1. owner[c] \in User /\ pc[c] \in Early
    BY <1>3, OwnerType, NeverEarlyAgain
  <2>2. CASE owner[c] \in view[c]
    BY <1>1, <2>1, <2>2 DEF JoinsComeFromPast
  <2>3. CASE SendSnapshot(c)
    BY <1>3, <2>3 DEF SendSnapshot, Goto, Early, TypeOK
  <2>4. ASSUME NEW i \in Instance, RelayTo(i, c), view'[c] = Applied(view[c], Head(queue[i])),
               owner[c] \notin view[c]
        PROVE  Past(owner[c])'
    <3>1. queue[i] \in Seq(Message) /\ queue[i] # <<>>
      BY <2>4 DEF RelayTo, TypeOK
    <3>2. 1 \in DOMAIN queue[i] /\ Head(queue[i]) = queue[i][1]
      BY <3>1
    <3>3. Head(queue[i]) = [type |-> "joined", user |-> owner[c]]
      <4>1. Head(queue[i]) \in Message
        BY <3>1
      <4>2. ASSUME NEW m \in Message, owner[c] \in Applied(view[c], m)
            PROVE  m = [type |-> "joined", user |-> owner[c]]
        BY <2>4, <4>2 DEF Applied, Message
      <4> QED BY <1>3, <2>4, <4>1, <4>2
    <3> QED BY <1>1, <2>1, <3>1, <3>2, <3>3 DEF JoinsComeFromPast
  <2> QED BY <1>3, <2>2, <2>3, <2>4, ViewStep
<1> QED BY <1>2, <1>3 DEF JoinsComeFromPast

\* presence_joined of a user reaches a tab of that user after the tab's own
\* snapshot, unless the user has another tab: project_websocket sends the
\* snapshot before it publishes the join.
THEOREM OwnJoinAfterSnapshot == Spec => []SnapshotBeforeOwnJoin
<1>1. Init => JoinsComeFromPast
  BY OwnerType DEF Init, JoinsComeFromPast
<1>2. TypeOK /\ JoinsComeFromPast /\ [Next]_vars => JoinsComeFromPast'
  BY JoinsStayPast
<1>3. JoinsComeFromPast => SnapshotBeforeOwnJoin
  BY DEF JoinsComeFromPast, SnapshotBeforeOwnJoin, Past, Early
<1> QED
  BY <1>1, <1>2, <1>3, TypeCorrect, PTL DEF Spec

-----------------------------------------------------------------------------
(* Tabs that agree with the hash.                                          *)

\* A client that is still there has a live handler and is registered; a relay
\* sends to sockets of its own process only, and gives up only on lost clients.
LivePC == {"joining", "joined", "snapshot", "announcing", "open"}
Registered ==
  /\ \A c \in Conn : up[c] => pc[c] \in LivePC /\ c \in conns[host[c]]
  /\ \A i \in Instance : \A c \in dead[i] : ~ up[c] /\ pc[c] # "idle"
  /\ \A i \in Instance : \A c \in todo[i] \cup conns[i] : host[c] = i /\ pc[c] # "idle"

\* A handler that moves on and touches no registry keeps it.
LEMMA RegisteredOnMove ==
  ASSUME TypeOK, Registered, NEW c \in Conn, NEW step \in (Steps \cup Ended) \ {"idle"},
         UNCHANGED <<up, conns, todo, dead>>, Goto(c, step), up[c] => step \in LivePC
  PROVE  Registered'
<1>1. \A d \in Conn : pc'[d] = IF d = c THEN step ELSE pc[d]
  BY DEF TypeOK, Goto
<1>2. \A d \in Conn : up'[d] => pc'[d] \in LivePC /\ d \in conns'[host[d]]
  BY <1>1 DEF Registered
<1>3. \A i \in Instance : \A d \in dead'[i] : ~ up'[d] /\ pc'[d] # "idle"
  BY <1>1 DEF Registered, TypeOK
<1>4. \A i \in Instance : \A d \in todo'[i] \cup conns'[i] : host[d] = i /\ pc'[d] # "idle"
  BY <1>1 DEF Registered, TypeOK
<1> QED BY <1>2, <1>3, <1>4 DEF Registered

\* Registration holds throughout.
LEMMA RegisteredKept ==
  ASSUME TypeOK, Registered, [Next]_vars
  PROVE  Registered'
<1> USE HostType DEF TypeOK, LivePC, handler, relay
<1>1. ASSUME NEW c \in Conn, Connect(c) PROVE Registered'
  BY <1>1 DEF Registered, Connect, Register, Goto
<1>2. ASSUME NEW c \in Conn, ClientCloses(c) PROVE Registered'
  BY <1>2 DEF Registered, ClientCloses
<1>3. ASSUME NEW c \in Conn,
             \/ Join(c) \/ ReadOnline(c) \/ SendSnapshot(c) \/ SnapshotFails(c)
             \/ PublishJoined(c) \/ PublishLeft(c) \/ Leave(c) \/ ClearField(c)
      PROVE  Registered'
  <2>1. UNCHANGED <<up, conns, todo, dead>>
    BY <1>3 DEF Join, ReadOnline, SendSnapshot, SnapshotFails, PublishJoined, PublishLeft, Leave, ClearField
  <2>2. \/ pc[c] \notin LivePC
        \/ Goto(c, "joined") \/ Goto(c, "snapshot") \/ Goto(c, "announcing") \/ Goto(c, "open")
        \/ ~ up[c]
    BY <1>3 DEF Join, ReadOnline, SendSnapshot, SnapshotFails, PublishJoined, PublishLeft, Leave, ClearField
  <2>3. \E step \in (Steps \cup Ended) \ {"idle"} : Goto(c, step)
    BY <1>3 DEF Join, ReadOnline, SendSnapshot, SnapshotFails, PublishJoined, PublishLeft, Leave, ClearField, Steps, Ended
  <2>4. PICK step \in (Steps \cup Ended) \ {"idle"} : Goto(c, step) /\ (up[c] => step \in LivePC)
    BY <2>2, <2>3 DEF Registered, Steps
  <2> QED BY <2>1, <2>4, RegisteredOnMove
<1>6. ASSUME NEW c \in Conn, Disconnect(c) PROVE Registered'
  BY <1>6 DEF Registered, Disconnect, Unregister, Goto
<1>8. ASSUME NEW i \in Instance, StartRelay(i) PROVE Registered'
  BY <1>8 DEF Registered, StartRelay
<1>9. ASSUME NEW i \in Instance, NEW c \in Conn, RelayTo(i, c) PROVE Registered'
  BY <1>9 DEF Registered, RelayTo
<1>10. ASSUME NEW i \in Instance, NEW c \in Conn, RelayToGone(i, c) PROVE Registered'
  BY <1>10 DEF Registered, RelayToGone
<1>11. ASSUME NEW i \in Instance, EndRelay(i) PROVE Registered'
  BY <1>11 DEF Registered, EndRelay, Unregister
<1>12. ASSUME NEW c \in Conn, RedisError(c) PROVE Registered'
  BY <1>12 DEF Registered, RedisError, Goto
<1>13. ASSUME NEW i \in Instance, ListenerDies(i) PROVE Registered'
  BY <1>13 DEF Registered, ListenerDies
<1>14. ASSUME NEW i \in Instance, Crash(i) PROVE Registered'
  <2>1. \A c \in Conn : up'[c] => up[c] /\ pc'[c] = pc[c] /\ host[c] # i
    BY <1>14 DEF Crash, Registered, Ended
  <2>2. \A c \in Conn : ~ up[c] => ~ up'[c]
    BY <1>14 DEF Crash
  <2>3. \A c \in Conn : pc[c] # "idle" => pc'[c] # "idle"
    BY <1>14 DEF Crash
  <2>4. \A j \in Instance :
          \/ conns'[j] = conns[j] /\ todo'[j] = todo[j] /\ dead'[j] = dead[j]
          \/ j = i /\ conns'[j] = {} /\ todo'[j] = {} /\ dead'[j] = {}
    <3>1. \A j \in Instance \ {i} : conns'[j] = conns[j] /\ todo'[j] = todo[j] /\ dead'[j] = dead[j]
      BY <1>14 DEF Crash
    <3>2. conns'[i] = {} /\ todo'[i] = {} /\ dead'[i] = {}
      BY <1>14 DEF Crash
    <3> QED BY <3>1, <3>2
  <2>5. \A c \in Conn : up'[c] => pc'[c] \in LivePC /\ c \in conns'[host[c]]
    BY <2>1, <2>4 DEF Registered
  <2>6. \A j \in Instance : \A c \in dead'[j] : ~ up'[c] /\ pc'[c] # "idle"
    BY <2>2, <2>3, <2>4 DEF Registered
  <2>7. \A j \in Instance : \A c \in todo'[j] \cup conns'[j] : host[c] = j /\ pc'[c] # "idle"
    <3> SUFFICES ASSUME NEW j \in Instance, NEW c \in todo'[j] \cup conns'[j]
                 PROVE  host[c] = j /\ pc'[c] # "idle"
      OBVIOUS
    <3>1. c \in todo[j] \cup conns[j] /\ c \in Conn
      BY <2>4
    <3>2. host[c] = j /\ pc[c] # "idle"
      BY <3>1 DEF Registered
    <3> QED BY <2>3, <3>1, <3>2
  <2> QED BY <2>5, <2>6, <2>7 DEF Registered
<1>15. CASE UNCHANGED vars
  BY <1>15 DEF Registered, vars
<1> QED
  BY <1>1, <1>2, <1>3, <1>6, <1>8, <1>9, <1>10, <1>11, <1>12, <1>13, <1>14, <1>15
     DEF Next, HandlerStep, ListenerStep, Fault

\* A handler of the user is about to publish, or was ended by an error.
Owes(u) ==
  \E d \in ConnsOf(u) : \/ pc[d] \in {"clearing", "goodbye", "announcing", "leaked", "dropped"}
                        \/ pc[d] \in {"joined", "snapshot"} /\ first[d]

\* What is said of the user is what the hash holds, or another word is due, or
\* the last word was overtaken.
Tracks(u, listed) == (listed <=> u \in fields) \/ Owes(u) \/ u \in crossed

\* The messages about the user that the listener has yet to send to the tab.
Pending(c, u) ==
  {k \in DOMAIN queue[host[c]] : /\ queue[host[c]][k].user = u
                                 /\ k > 1 \/ ~ relaying[host[c]] \/ c \in todo[host[c]]}

\* The last message about a user in a queue.
LastAbout(i, u, k) ==
  /\ k \in DOMAIN queue[i] /\ queue[i][k].user = u
  /\ \A l \in DOMAIN queue[i] : queue[i][l].user = u => l <= k

LastSays(i, u) ==
  \A k : \A listed \in BOOLEAN :
    listening[i] /\ LastAbout(i, u, k) /\ (listed <=> queue[i][k].type = "joined") => Tracks(u, listed)

\* The tab is there and has been sent all there is about the user.
Reached(c, u) == u \notin missed[c] /\ up[c] /\ listening[host[c]] /\ Pending(c, u) = {}

Follows(c, u) ==
  Reached(c, u) =>
    /\ pc[c] = "snapshot" => Tracks(u, u \in onlineIds[c])
    /\ pc[c] \in {"announcing", "open"} => Tracks(u, u \in view[c])

Telling ==
  /\ \A i \in Instance : \A u \in User : LastSays(i, u)
  /\ \A c \in Conn : \A u \in User : Follows(c, u)

\* Only a publication can make the word on a user wrong: a step that changes the
\* hash leaves a handler of that user that is going to publish.
LEMMA TracksKept ==
  ASSUME TypeOK, [Next]_vars, NEW u \in User,
         ~ \E d \in ConnsOf(u) : PublishJoined(d) \/ PublishLeft(d)
  PROVE  \A listed \in BOOLEAN : Tracks(u, listed) => Tracks(u, listed)'
<1> SUFFICES Owes(u)' \/ (/\ u \in fields <=> u \in fields'
                          /\ u \in crossed => u \in crossed'
                          /\ Owes(u) => Owes(u)')
  BY DEF Tracks
<1> USE OwnerType DEF TypeOK, Owes, ConnsOf, Goto, handler, hash, history
<1>1. ASSUME NEW c \in Conn, Connect(c) \/ ClientCloses(c) \/ ReadOnline(c)
      PROVE  UNCHANGED <<fields, crossed>> /\ (Owes(u) => Owes(u)')
  BY <1>1 DEF Connect, ClientCloses, ReadOnline
<1>2. ASSUME NEW c \in Conn, Join(c)
      PROVE  Owes(u)' \/ (/\ u \in fields <=> u \in fields'
                          /\ crossed' = crossed
                          /\ Owes(u) => Owes(u)')
  <2>1. crossed' = crossed /\ (Owes(u) => Owes(u)')
    BY <1>2 DEF Join
  <2>2. CASE owner[c] = u /\ u \notin fields
    <3>1. count[u] = 0
      BY <2>2
    <3>2. pc'[c] = "joined"
      BY <1>2 DEF Join
    <3>3. first'[c] = (count[owner[c]] + 1 = 1)
      BY <1>2 DEF Join
    <3>4. count[owner[c]] + 1 = 1
      BY <2>2, <3>1
    <3>5. first'[c]
      BY <3>3, <3>4, Zenon
    <3> QED BY <2>2, <3>2, <3>5
  <2>3. CASE owner[c] # u \/ u \in fields
    BY <1>2, <2>3 DEF Join, HIncrBy
  <2> QED BY <2>1, <2>2, <2>3
<1>3. ASSUME NEW c \in Conn, SendSnapshot(c) \/ SnapshotFails(c)
      PROVE  UNCHANGED <<fields, crossed>> /\ (Owes(u) => Owes(u)')
  <2>1. UNCHANGED <<fields, crossed>>
    BY <1>3 DEF SendSnapshot, SnapshotFails
  <2>2. \A d \in Conn \ {c} : pc'[d] = pc[d] /\ first'[d] = first[d]
    BY <1>3 DEF SendSnapshot, SnapshotFails
  <2>3. pc[c] = "snapshot" /\ (first[c] => pc'[c] \in {"announcing", "leaked"})
    BY <1>3 DEF SendSnapshot, SnapshotFails
  <2> QED BY <2>1, <2>2, <2>3
<1>4. ASSUME NEW c \in Conn, PublishJoined(c) \/ PublishLeft(c)
      PROVE  /\ fields' = fields
             /\ u \in crossed => u \in crossed'
             /\ Owes(u) => Owes(u)'
  <2>1. owner[c] # u
    BY <1>4
  <2> QED BY <1>4, <2>1 DEF PublishJoined, PublishLeft, Tells
<1>5. ASSUME NEW c \in Conn, Disconnect(c)
      PROVE  UNCHANGED <<fields, crossed>> /\ (Owes(u) => Owes(u)')
  BY <1>5 DEF Disconnect
<1>6. ASSUME NEW c \in Conn, Leave(c)
      PROVE  Owes(u)' \/ (/\ u \in fields <=> u \in fields'
                          /\ crossed' = crossed
                          /\ Owes(u) => Owes(u)')
  <2>1. crossed' = crossed /\ (Owes(u) => Owes(u)')
    BY <1>6 DEF Leave
  <2>2. CASE owner[c] = u /\ count[u] - 1 <= 0
    BY <1>6, <2>2 DEF Leave
  <2>3. CASE owner[c] # u \/ count[u] - 1 > 0
    BY <1>6, <2>3 DEF Leave, HIncrBy
  <2> QED BY <2>1, <2>2, <2>3
<1>7. ASSUME NEW c \in Conn, ClearField(c)
      PROVE  Owes(u)' \/ (/\ u \in fields <=> u \in fields'
                          /\ crossed' = crossed
                          /\ Owes(u) => Owes(u)')
  BY <1>7 DEF ClearField, HDel
<1>8. ASSUME NEW c \in Conn, RedisError(c)
      PROVE  UNCHANGED <<fields, crossed>> /\ (Owes(u) => Owes(u)')
  BY <1>8 DEF RedisError
<1>9. ASSUME NEW i \in Instance, ListenerStep(i) \/ ListenerDies(i)
      PROVE  UNCHANGED <<fields, crossed>> /\ (Owes(u) => Owes(u)')
  BY <1>9 DEF ListenerStep, StartRelay, EndRelay, RelayTo, RelayToGone, ListenerDies
<1>10. ASSUME NEW i \in Instance, Crash(i)
       PROVE  UNCHANGED <<fields, crossed>> /\ (Owes(u) => Owes(u)')
  BY <1>10 DEF Crash, HoldingPC, Ended
<1>11. CASE UNCHANGED vars
  BY <1>11 DEF vars
<1> QED
  BY <1>1, <1>2, <1>3, <1>4, <1>5, <1>6, <1>7, <1>8, <1>9, <1>10, <1>11 DEF Next, HandlerStep, Fault

\* What is published is what the hash holds, or the user is in "crossed".
LEMMA PublishedTracks ==
  ASSUME TypeOK, NEW c \in Conn
  PROVE  /\ PublishJoined(c) => Tracks(owner[c], TRUE)'
         /\ PublishLeft(c) => Tracks(owner[c], FALSE)'
  BY OwnerType DEF PublishJoined, PublishLeft, Tells, Tracks, hash, TypeOK

\* The last word on a user in every live queue tracks the hash.
LEMMA LastSaysKept ==
  ASSUME TypeOK, NEW i \in Instance, NEW u \in User, LastSays(i, u), [Next]_vars
  PROVE  LastSays(i, u)'
<1>1. queue[i] \in Seq(Message)
  BY DEF TypeOK
<1>2. CASE \E d \in ConnsOf(u) : PublishJoined(d) \/ PublishLeft(d)
  <2>1. ASSUME NEW d \in Conn, NEW m \in Message, listening'[i] => queue'[i] = Append(queue[i], m),
               m.user = u, Tracks(u, m.type = "joined")'
        PROVE  LastSays(i, u)'
    <3>1. ASSUME NEW k, listening'[i], LastAbout(i, u, k)' PROVE queue'[i][k] = m
      <4>1. Len(queue[i]) + 1 \in DOMAIN queue'[i] /\ queue'[i][Len(queue[i]) + 1] = m
        BY <1>1, <2>1, <3>1
      <4>2. k = Len(queue[i]) + 1
        BY <1>1, <2>1, <3>1, <4>1 DEF LastAbout
      <4> QED BY <4>1, <4>2
    <3> QED BY <2>1, <3>1 DEF LastSays
  <2>2. ASSUME NEW d \in ConnsOf(u), PublishJoined(d) PROVE LastSays(i, u)'
    <3>1. [type |-> "joined", user |-> u] \in Message
      BY DEF Message
    <3>2. listening'[i] => queue'[i] = Append(queue[i], [type |-> "joined", user |-> u])
      BY <2>2 DEF PublishJoined, PublishEvent, ConnsOf
    <3>3. Tracks(u, TRUE)'
      BY <2>2, PublishedTracks DEF ConnsOf
    <3>4. Tracks(u, [type |-> "joined", user |-> u].type = "joined")'
      BY <3>3 DEF Tracks
    <3> QED BY <2>1, <2>2, <3>1, <3>2, <3>4 DEF ConnsOf
  <2>3. ASSUME NEW d \in ConnsOf(u), PublishLeft(d) PROVE LastSays(i, u)'
    <3>1. [type |-> "left", user |-> u] \in Message
      BY DEF Message
    <3>2. listening'[i] => queue'[i] = Append(queue[i], [type |-> "left", user |-> u])
      BY <2>3 DEF PublishLeft, PublishEvent, ConnsOf
    <3>3. Tracks(u, FALSE)'
      BY <2>3, PublishedTracks DEF ConnsOf
    <3>4. Tracks(u, [type |-> "left", user |-> u].type = "joined")'
      BY <3>3 DEF Tracks
    <3> QED BY <2>1, <2>3, <3>1, <3>2, <3>4 DEF ConnsOf
  <2> QED BY <1>2, <2>2, <2>3
<1>3. CASE ~ \E d \in ConnsOf(u) : PublishJoined(d) \/ PublishLeft(d)
  <2>1. \A listed \in BOOLEAN : Tracks(u, listed) => Tracks(u, listed)'
    BY <1>3, TracksKept
  <2>2. SUFFICES ASSUME NEW k, NEW listed \in BOOLEAN, listening'[i], LastAbout(i, u, k)',
                        listed <=> queue'[i][k].type = "joined"
                 PROVE  Tracks(u, listed)'
    BY DEF LastSays
  <2>3. ASSUME NEW l, listening[i], LastAbout(i, u, l), queue[i][l] = queue'[i][k]
        PROVE  Tracks(u, listed)'
    BY <2>1, <2>2, <2>3 DEF LastSays
  <2>4. CASE queue'[i] = queue[i] /\ listening'[i] = listening[i]
    BY <2>2, <2>3, <2>4 DEF LastAbout
  <2>5. CASE queue'[i] = <<>>
    BY <2>2, <2>5 DEF LastAbout
  <2>6. CASE queue[i] # <<>> /\ queue'[i] = Tail(queue[i]) /\ listening'[i] = listening[i]
    <3>1. /\ k + 1 \in DOMAIN queue[i] /\ queue[i][k + 1] = queue'[i][k]
          /\ \A l \in DOMAIN queue[i] : l = 1 \/ (l - 1 \in DOMAIN queue'[i] /\ queue'[i][l - 1] = queue[i][l])
      BY <1>1, <2>2, <2>6 DEF LastAbout
    <3>2. ASSUME NEW l \in DOMAIN queue[i], queue[i][l].user = u PROVE l <= k + 1
      <4>1. l \in Nat /\ k \in Nat
        BY <1>1, <2>2, <2>6 DEF LastAbout
      <4> QED BY <2>2, <3>1, <3>2, <4>1 DEF LastAbout
    <3>3. LastAbout(i, u, k + 1)
      BY <2>2, <3>1, <3>2 DEF LastAbout
    <3> QED BY <2>2, <2>3, <2>6, <3>1, <3>3
  <2>7. ASSUME NEW m \in Message, m.user # u, queue'[i] = Append(queue[i], m), listening'[i] = listening[i]
        PROVE  Tracks(u, listed)'
    <3>1. /\ k \in DOMAIN queue[i] /\ queue[i][k] = queue'[i][k]
          /\ \A l \in DOMAIN queue[i] : l \in DOMAIN queue'[i] /\ queue'[i][l] = queue[i][l]
      BY <1>1, <2>2, <2>7 DEF LastAbout
    <3>2. LastAbout(i, u, k)
      BY <2>2, <3>1 DEF LastAbout
    <3> QED BY <2>2, <2>3, <2>7, <3>1, <3>2
  <2>8. ASSUME NEW c \in Conn,
               \/ PublishJoined(c) /\ queue'[i] = Append(queue[i], [type |-> "joined", user |-> owner[c]])
               \/ PublishLeft(c) /\ queue'[i] = Append(queue[i], [type |-> "left", user |-> owner[c]])
        PROVE  Tracks(u, listed)'
    <3>1. owner[c] # u /\ listening'[i] = listening[i]
      BY <1>3, <2>8 DEF ConnsOf, PublishJoined, PublishLeft
    <3>2. \A kind \in {"joined", "left"} :
            [type |-> kind, user |-> owner[c]] \in Message /\ [type |-> kind, user |-> owner[c]].user = owner[c]
      BY OwnerType DEF Message
    <3> QED BY <2>7, <2>8, <3>1, <3>2
  <2> QED BY <2>4, <2>5, <2>6, <2>8, QueueStep
<1> QED BY <1>2, <1>3

\* A step that sends the tab nothing about the user, and neither starts nor
\* replaces its list, leaves the tab following.
LEMMA FollowsFrame ==
  ASSUME NEW c \in Conn, NEW u \in User, Follows(c, u),
         \A listed \in BOOLEAN : Tracks(u, listed) => Tracks(u, listed)',
         Reached(c, u)' => Reached(c, u),
         pc'[c] = "snapshot" => pc[c] = "snapshot" /\ onlineIds'[c] = onlineIds[c],
         pc'[c] \in {"announcing", "open"} =>
           pc[c] \in {"announcing", "open"} /\ (u \in view'[c] <=> u \in view[c])
  PROVE  Follows(c, u)'
<1> SUFFICES ASSUME Reached(c, u)'
             PROVE  /\ pc'[c] = "snapshot" => Tracks(u, u \in onlineIds[c])'
                    /\ pc'[c] \in {"announcing", "open"} => Tracks(u, u \in view[c])'
  BY DEF Follows
<1> DEFINE read == u \in onlineIds[c]
           shown == u \in view[c]
<1>1. read \in BOOLEAN /\ shown \in BOOLEAN
  OBVIOUS
<1>2. pc'[c] = "snapshot" => Tracks(u, read)' /\ onlineIds'[c] = onlineIds[c]
  <2>1. pc'[c] = "snapshot" => Tracks(u, u \in onlineIds[c])
    BY DEF Follows
  <2> QED BY <2>1 DEF Tracks
<1>3. pc'[c] \in {"announcing", "open"} => Tracks(u, u \in view[c])
  BY DEF Follows
<1>4. pc'[c] \in {"announcing", "open"} => Tracks(u, u \in view[c])'
  BY <1>3 DEF Tracks
<1> QED BY <1>2, <1>4 DEF Tracks

\* What was in a queue stays where it was when a message is added.
LEMMA AppendKeeps ==
  \A s \in Seq(Message) : \A m \in Message : \A k \in DOMAIN s :
    k \in DOMAIN Append(s, m) /\ Append(s, m)[k] = s[k]
  OBVIOUS

\* A tab follows the hash through every step that does not publish about the user.
LEMMA FollowsKept ==
  ASSUME TypeOK, Registered, Telling, [Next]_vars, NEW c \in Conn, NEW u \in User,
         ~ \E d \in ConnsOf(u) : PublishJoined(d) \/ PublishLeft(d)
  PROVE  Follows(c, u)'
<1> USE HostType DEF TypeOK, handler, relay, history
<1>1. \A listed \in BOOLEAN : Tracks(u, listed) => Tracks(u, listed)'
  BY TracksKept
<1>2. Follows(c, u)
  BY DEF Telling
<1> DEFINE Frame == /\ Reached(c, u)' => Reached(c, u)
                    /\ pc'[c] = "snapshot" => pc[c] = "snapshot" /\ onlineIds'[c] = onlineIds[c]
                    /\ pc'[c] \in {"announcing", "open"} =>
                         pc[c] \in {"announcing", "open"} /\ (u \in view'[c] <=> u \in view[c])
<1>3. Frame => Follows(c, u)'
  BY <1>1, <1>2, FollowsFrame
<1>4. ~ up'[c] => Follows(c, u)'
  BY DEF Follows, Reached
<1>5. ASSUME UNCHANGED <<queue, listening, relay>>, missed'[c] = missed[c], up'[c] => up[c]
      PROVE  Reached(c, u)' => Reached(c, u)
  BY <1>5 DEF Reached, Pending
<1>6. ASSUME NEW d \in Conn, d # c,
             \/ Connect(d) \/ ClientCloses(d) \/ Join(d) \/ ReadOnline(d) \/ SendSnapshot(d)
             \/ SnapshotFails(d) \/ Disconnect(d) \/ Leave(d) \/ ClearField(d) \/ RedisError(d)
      PROVE  Frame
  <2>1. /\ UNCHANGED <<queue, listening, relay>>
        /\ missed'[c] = missed[c] /\ up'[c] = up[c] /\ pc'[c] = pc[c]
        /\ view'[c] = view[c] /\ onlineIds'[c] = onlineIds[c]
    BY <1>6 DEF Connect, ClientCloses, Join, ReadOnline, SendSnapshot, SnapshotFails, Disconnect, Leave,
                ClearField, RedisError, Goto
  <2> QED BY <1>5, <2>1
<1>7. ASSUME Connect(c) \/ Join(c) \/ Disconnect(c) \/ Leave(c) \/ ClearField(c) \/ SnapshotFails(c)
      PROVE  Follows(c, u)'
  <2>1. pc'[c] \notin {"snapshot", "announcing", "open"}
    BY <1>7 DEF Connect, Join, Disconnect, Leave, ClearField, SnapshotFails, Goto
  <2> QED BY <2>1 DEF Follows
<1>8. ASSUME ClientCloses(c) \/ RedisError(c) PROVE Follows(c, u)'
  <2>1. ~ up'[c]
    BY <1>8 DEF ClientCloses, RedisError
  <2> QED BY <1>4, <2>1
<1>9. ASSUME ReadOnline(c) PROVE Follows(c, u)'
  <2>1. pc'[c] = "snapshot" /\ (u \in onlineIds'[c] <=> u \in fields')
    BY <1>9 DEF ReadOnline, Goto, hash
  <2> QED BY <2>1 DEF Follows, Tracks
<1>10. ASSUME SendSnapshot(c), up'[c] PROVE Follows(c, u)'
  <2>1. /\ pc[c] = "snapshot" /\ pc'[c] # "snapshot"
        /\ view'[c] = onlineIds[c]
        /\ UNCHANGED <<queue, listening, relay>> /\ missed'[c] = missed[c] /\ up'[c] = up[c]
    BY <1>10 DEF SendSnapshot, Goto
  <2>2. Reached(c, u)' => Tracks(u, u \in onlineIds[c])
    BY <1>2, <1>5, <2>1 DEF Follows
  <2>3. Reached(c, u)' => Tracks(u, u \in view[c])'
    BY <1>1, <2>1, <2>2 DEF Tracks
  <2> QED BY <2>1, <2>3 DEF Follows
<1>11. ASSUME NEW d \in Conn, owner[d] # u, PublishJoined(d) \/ PublishLeft(d) PROVE Frame
  <2>1. Reached(c, u)' => Reached(c, u)
    <3>1. ASSUME NEW k \in Pending(c, u) PROVE k \in Pending(c, u)'
      <4>1. queue[host[c]] \in Seq(Message)
        OBVIOUS
      <4>2. \A kind \in {"joined", "left"} : [type |-> kind, user |-> owner[d]] \in Message
        BY OwnerType DEF Message
      <4>3. \E kind \in {"joined", "left"} : PublishEvent(kind, owner[d])
        BY <1>11 DEF PublishJoined, PublishLeft
      <4>4. PICK kind \in {"joined", "left"} : PublishEvent(kind, owner[d])
        BY <4>3
      <4>5. \/ queue'[host[c]] = queue[host[c]]
            \/ queue'[host[c]] = Append(queue[host[c]], [type |-> kind, user |-> owner[d]])
        BY <4>4 DEF PublishEvent
      <4>6. k \in DOMAIN queue[host[c]]
        BY <3>1 DEF Pending
      <4>7. k \in DOMAIN queue'[host[c]] /\ queue'[host[c]][k] = queue[host[c]][k]
        <5> DEFINE m == [type |-> kind, user |-> owner[d]]
        <5>1. m \in Message
          BY <4>2
        <5> HIDE DEF m
        <5>2. CASE queue'[host[c]] = Append(queue[host[c]], m)
          BY <4>1, <4>6, <5>1, <5>2, AppendKeeps
        <5> QED BY <4>5, <4>6, <5>2 DEF m
      <4>8. UNCHANGED relay
        BY <1>11 DEF PublishJoined, PublishLeft
      <4> QED BY <3>1, <4>8, <4>7 DEF Pending
    <3>2. missed'[c] = missed[c] /\ up'[c] = up[c] /\ listening' = listening
      BY <1>11 DEF PublishJoined, PublishLeft
    <3> QED BY <3>1, <3>2 DEF Reached
  <2>2. /\ onlineIds'[c] = onlineIds[c] /\ view'[c] = view[c]
        /\ pc'[c] = "snapshot" => pc[c] = "snapshot"
        /\ pc'[c] \in {"announcing", "open"} => pc[c] \in {"announcing", "open"}
    BY <1>11 DEF PublishJoined, PublishLeft, Goto
  <2> QED BY <2>1, <2>2
<1>12. ASSUME NEW i \in Instance, StartRelay(i) PROVE Frame
  <2>1. /\ UNCHANGED <<pc, up, onlineIds, queue, listening, view, missed>>
        /\ i # host[c] => relaying'[host[c]] = relaying[host[c]] /\ todo'[host[c]] = todo[host[c]]
        /\ i = host[c] => todo'[host[c]] = conns[host[c]]
    BY <1>12 DEF StartRelay
  <2>2. Reached(c, u)' => Reached(c, u)
    BY <2>1 DEF Reached, Pending, Registered
  <2> QED BY <2>1, <2>2
<1>13. ASSUME NEW i \in Instance, NEW d \in Conn, d # c, RelayTo(i, d) \/ RelayToGone(i, d) PROVE Frame
  <2>1. UNCHANGED <<pc, up, onlineIds, queue, listening, relaying>>
    BY <1>13 DEF RelayTo, RelayToGone
  <2>2. view'[c] = view[c] /\ missed'[c] = missed[c]
    BY <1>13 DEF RelayTo, RelayToGone
  <2>3. todo' = [todo EXCEPT ![i] = @ \ {d}]
    BY <1>13 DEF RelayTo, RelayToGone
  <2>4. c \in todo[host[c]] => c \in todo'[host[c]]
    BY <1>13, <2>3
  <2>5. Reached(c, u)' => Reached(c, u)
    BY <2>1, <2>2, <2>4 DEF Reached, Pending
  <2> QED BY <2>1, <2>2, <2>5
<1>14. ASSUME NEW i \in Instance, RelayToGone(i, c) PROVE Follows(c, u)'
  <2>1. ~ up'[c]
    BY <1>14 DEF RelayToGone
  <2> QED BY <1>4, <2>1
<1>15. ASSUME NEW i \in Instance, RelayTo(i, c) PROVE Follows(c, u)'
  <2> DEFINE q == queue[i]
  <2>1. i = host[c] /\ q \in Seq(Message) /\ 1 \in DOMAIN q /\ Head(q) = q[1]
    BY <1>15 DEF RelayTo, Registered
  <2>2. /\ UNCHANGED <<pc, up, onlineIds, queue, listening, relaying, fields, crossed>>
        /\ todo' = [todo EXCEPT ![i] = @ \ {c}]
        /\ view'[c] = Applied(view[c], Head(q))
        /\ missed'[c] = IF pc[c] = "snapshot" THEN missed[c] \cup {Head(q).user} ELSE missed[c]
    BY <1>15 DEF RelayTo, hash
  <2>3. ASSUME Head(q).user # u PROVE Frame
    <3>1. Pending(c, u) \subseteq Pending(c, u)'
      BY <2>1, <2>2, <2>3 DEF Pending
    <3>2. Reached(c, u)' => Reached(c, u)
      BY <2>2, <2>3, <3>1 DEF Reached
    <3>3. u \in view'[c] <=> u \in view[c]
      BY <2>2, <2>3 DEF Applied
    <3> QED BY <2>2, <3>2, <3>3
  <2>4. ASSUME Head(q).user = u, Reached(c, u)', pc'[c] \in {"announcing", "open"}
        PROVE  Tracks(u, u \in view[c])'
    <3>1. \A l \in DOMAIN q : l > 1 => q[l].user # u
      BY <2>1, <2>2, <2>4 DEF Reached, Pending
    <3>2. LastAbout(i, u, 1)
      BY <2>1, <2>4, <3>1 DEF LastAbout
    <3>3. listening[i]
      BY <2>1, <2>2, <2>4 DEF Reached
    <3>4. u \in view'[c] <=> q[1].type = "joined"
      BY <2>1, <2>2, <2>4 DEF Applied
    <3>5. Tracks(u, q[1].type = "joined")
      BY <3>2, <3>3 DEF Telling, LastSays
    <3> QED BY <1>1, <3>4, <3>5 DEF Tracks
  <2>5. ASSUME Head(q).user = u, Reached(c, u)' PROVE pc'[c] # "snapshot"
    BY <2>2, <2>5 DEF Reached
  <2> QED BY <1>3, <2>3, <2>4, <2>5 DEF Follows
<1>16. ASSUME NEW i \in Instance, EndRelay(i) PROVE Frame
  <2>1. UNCHANGED <<pc, up, onlineIds, listening, view, missed>>
    BY <1>16 DEF EndRelay
  <2>2. CASE i # host[c]
    <3>1. UNCHANGED <<queue[host[c]], relaying[host[c]], todo>>
      BY <1>16, <2>2 DEF EndRelay
    <3>2. Pending(c, u)' = Pending(c, u)
      BY <3>1 DEF Pending
    <3> QED BY <2>1, <3>2 DEF Reached
  <2>3. CASE i = host[c]
    <3>1. /\ queue'[i] = Tail(queue[i]) /\ queue[i] \in Seq(Message) /\ queue[i] # <<>>
          /\ relaying[i] /\ ~ relaying'[i] /\ todo[i] = {}
      BY <1>16 DEF EndRelay
    <3>2. ASSUME NEW k \in Pending(c, u) PROVE k - 1 \in Pending(c, u)'
      <4>1. k \in DOMAIN queue[i] /\ k > 1 /\ queue[i][k].user = u
        BY <2>3, <3>1, <3>2 DEF Pending
      <4>2. k - 1 \in DOMAIN queue'[i] /\ queue'[i][k - 1] = queue[i][k]
        BY <3>1, <4>1
      <4> QED BY <2>3, <3>1, <4>1, <4>2 DEF Pending
    <3> QED BY <2>1, <3>2 DEF Reached
  <2> QED BY <2>2, <2>3
<1>17. ASSUME NEW i \in Instance, ListenerDies(i) PROVE Follows(c, u)'
  <2>1. CASE i = host[c]
    BY <1>17, <2>1 DEF ListenerDies, Follows, Reached
  <2>2. CASE i # host[c]
    <3>1. /\ UNCHANGED <<pc, up, onlineIds, view, missed, relaying, todo>>
          /\ queue'[host[c]] = queue[host[c]] /\ listening'[host[c]] = listening[host[c]]
      BY <1>17, <2>2 DEF ListenerDies
    <3>2. Pending(c, u)' = Pending(c, u)
      BY <3>1 DEF Pending
    <3> QED BY <1>3, <3>1, <3>2 DEF Reached
  <2> QED BY <2>1, <2>2
<1>18. ASSUME NEW i \in Instance, Crash(i), up'[c] PROVE Frame
  <2>1. /\ i # host[c] /\ up[c] /\ pc'[c] = pc[c] /\ view'[c] = view[c] /\ missed'[c] = missed[c]
        /\ onlineIds' = onlineIds
    BY <1>18 DEF Crash, Registered, LivePC, Ended
  <2>2. /\ queue'[host[c]] = queue[host[c]] /\ listening'[host[c]] = listening[host[c]]
        /\ relaying'[host[c]] = relaying[host[c]] /\ todo'[host[c]] = todo[host[c]]
    BY <1>18, <2>1 DEF Crash
  <2>3. Pending(c, u)' = Pending(c, u)
    BY <2>2 DEF Pending
  <2> QED BY <2>1, <2>2, <2>3 DEF Reached
<1>19. CASE UNCHANGED vars
  <2>1. Frame
    BY <1>19 DEF vars, Reached, Pending
  <2> QED BY <1>3, <2>1
<1>20. ASSUME NEW d \in Conn, Connect(d) \/ ClientCloses(d) \/ HandlerStep(d) \/ RedisError(d)
       PROVE  Follows(c, u)'
  <2>1. CASE PublishJoined(d) \/ PublishLeft(d)
    BY <1>3, <1>11, <2>1 DEF ConnsOf
  <2>2. CASE d # c /\ ~ PublishJoined(d) /\ ~ PublishLeft(d)
    BY <1>3, <1>6, <1>20, <2>2 DEF HandlerStep
  <2>3. CASE d = c /\ ~ PublishJoined(d) /\ ~ PublishLeft(d)
    BY <1>4, <1>7, <1>8, <1>9, <1>10, <1>20, <2>3 DEF HandlerStep
  <2> QED BY <2>1, <2>2, <2>3
<1>21. ASSUME NEW i \in Instance, ListenerStep(i) PROVE Follows(c, u)'
  BY <1>3, <1>12, <1>13, <1>14, <1>15, <1>16, <1>21 DEF ListenerStep
<1> QED
  BY <1>3, <1>4, <1>17, <1>18, <1>19, <1>20, <1>21 DEF Next, Fault

\* A publication about the user is pending for every tab whose listener lives.
LEMMA FollowsPublication ==
  ASSUME TypeOK, NEW c \in Conn, NEW u \in User, NEW d \in ConnsOf(u), PublishJoined(d) \/ PublishLeft(d)
  PROVE  Follows(c, u)'
<1> DEFINE h == host[c]
<1>1. h \in Instance /\ queue[h] \in Seq(Message) /\ (relaying[h] => queue[h] # <<>>)
  BY HostType DEF TypeOK
<1>2. UNCHANGED <<listening, relay>>
  BY DEF PublishJoined, PublishLeft
<1>3. ASSUME listening[h] PROVE Len(queue[h]) + 1 \in Pending(c, u)'
  <2>1. PICK m \in Message : m.user = u /\ queue'[h] = Append(queue[h], m)
    BY <1>1, <1>3 DEF PublishJoined, PublishLeft, PublishEvent, ConnsOf, Message
  <2>2. Len(queue[h]) + 1 \in DOMAIN queue'[h] /\ queue'[h][Len(queue[h]) + 1] = m
    BY <1>1, <2>1
  <2>3. relaying[h] => Len(queue[h]) + 1 > 1
    BY <1>1
  <2> QED BY <1>2, <2>1, <2>2, <2>3 DEF Pending, relay
<1> QED BY <1>2, <1>3 DEF Follows, Reached

LEMMA TellingHolds == Spec => [](TypeOK /\ Registered /\ Telling)
<1>1. Init => Registered /\ Telling
  BY HostType DEF Init, Registered, Telling, LastSays, LastAbout, Follows, Reached
<1>2. TypeOK /\ Registered /\ Telling /\ [Next]_vars => Registered' /\ Telling'
  <2> SUFFICES ASSUME TypeOK, Registered, Telling, [Next]_vars PROVE Registered' /\ Telling'
    OBVIOUS
  <2>1. \A i \in Instance : \A u \in User : LastSays(i, u)'
    BY LastSaysKept DEF Telling
  <2>2. \A c \in Conn : \A u \in User : Follows(c, u)'
    BY FollowsKept, FollowsPublication
  <2> QED BY <2>1, <2>2, RegisteredKept DEF Telling
<1> QED
  BY <1>1, <1>2, TypeCorrect, PTL DEF Spec

\* Once nothing is on its way, an open tab shows who Redis says is online,
\* except where the snapshot or the order of publications has gone wrong in one
\* of the two ways the property names, whatever fails.
THEOREM ViewsConverge == Spec => []ViewConverges
<1>1. Registered /\ Telling => ViewConverges
  <2> SUFFICES ASSUME Telling, NEW c \in Conn, Watching(c), Quiet(host[c]),
                      NEW u \in User, u \notin missed[c], u \notin crossed, Settled(u)
               PROVE  u \in view[c] <=> u \in fields
    BY DEF ViewConverges
  <2>1. Pending(c, u) = {}
    BY DEF Quiet, Pending
  <2>2. Tracks(u, u \in view[c])
    BY <2>1 DEF Telling, Follows, Reached, Watching, Quiet
  <2>3. ~ Owes(u)
    BY DEF Owes, Settled
  <2> QED BY <2>2, <2>3 DEF Tracks
<1> QED
  BY <1>1, TellingHolds, PTL

-----------------------------------------------------------------------------
(* What presence is for, from the theorems above.                          *)

\* A user with an open tab is online, and every other tab shows it: both hold of
\* a user whose tabs have never joined in the middle of a leave, the second once
\* nothing is on its way and but for the two exceptions of ViewConverges.
OpenTabIsOnline ==
  \A d \in Conn : Watching(d) /\ owner[d] \notin raced => owner[d] \in fields

OpenTabIsSeen ==
  \A c, d \in Conn :
    /\ Watching(c) /\ Quiet(host[c])
    /\ Watching(d) /\ Settled(owner[d])
    /\ owner[d] \notin raced \cup missed[c] \cup crossed
    => owner[d] \in view[c]

\* presence.join, "they're only offline once every one of those closes": only a
\* join between the HINCRBY and the HDEL of a leave makes an exception, for any
\* number of tabs and processes and whatever fails.
THEOREM OnlineUnlessRaced == Spec => []OpenTabIsOnline
<1>1. ExactUnlessRaced => OpenTabIsOnline
  <2> SUFFICES ASSUME ExactUnlessRaced, NEW d \in Conn, Watching(d), owner[d] \notin raced
               PROVE  owner[d] \in fields
    BY DEF OpenTabIsOnline
  <2>1. owner[d] \in User
    BY OwnerType
  <2>2. d \in Holding(owner[d])
    BY DEF Holding, ConnsOf, HoldingPC, Watching
  <2> QED BY <2>1, <2>2 DEF ExactUnlessRaced
<1> QED
  BY <1>1, ExactWithoutRace, PTL

\* From the handler of one tab to the list of another: project_websocket, the
\* Redis hash, the publications, the listeners and ProjectPage together.
THEOREM SeenOnceSettled == Spec => []OpenTabIsSeen
<1>1. OpenTabIsOnline /\ ViewConverges => OpenTabIsSeen
  <2> SUFFICES ASSUME OpenTabIsOnline, ViewConverges, NEW c \in Conn, NEW d \in Conn,
                      Watching(c), Quiet(host[c]), Watching(d), Settled(owner[d]),
                      owner[d] \notin raced \cup missed[c] \cup crossed
               PROVE  owner[d] \in view[c]
    BY DEF OpenTabIsSeen
  <2>1. owner[d] \in User
    BY OwnerType
  <2>2. owner[d] \in fields
    BY DEF OpenTabIsOnline
  <2> QED BY <2>1, <2>2 DEF ViewConverges
<1> QED
  BY <1>1, OnlineUnlessRaced, ViewsConverge, PTL

=============================================================================
