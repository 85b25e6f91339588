------------------------- MODULE NotificationsProofs -------------------------
(***************************************************************************)
(* TLAPS proofs about the way of a notification: module Notifications,     *)
(* which stores and announces it, module NotificationPanel, which shows    *)
(* it, and module NotifiedUser, which joins the two.                       *)
(***************************************************************************)
EXTENDS NotifiedUser, TLAPS

-----------------------------------------------------------------------------
(* Notifications.  Everything is said of one job at a time, and a step of  *)
(* one job leaves the others alone; only InvitedOnce relates two jobs.     *)

\* The dispatch under way is one that remains to be done.
CurOK(j) ==
  /\ cur[j] \subseteq todo[j] /\ todo[j] \subseteq wanted[j]
  /\ pc[j] \in {"idle", "insert", "loop", "done"} => cur[j] = {}
  /\ pc[j] \in {"publish", "email"} => \E d \in Dispatch : cur[j] = {d}

\* How far it has come.
StageOK(j) ==
  \A d \in cur[j] :
    /\ pc[j] = "publish" => <<j, d>> \in rows /\ mail[<<j, d>>] = "none"
    /\ pc[j] = "email" => <<j, d>> \in published /\ mail[<<j, d>>] = "none"
    /\ pc[j] = "stopped" => Untouched(<<j, d>>)

\* Nothing has happened for what was not asked for, or remains to be done.
RestOK(j) ==
  \A d \in Dispatch : d \notin wanted[j] \/ d \in todo[j] \ cur[j] => Untouched(<<j, d>>)

\* What was taken off the list was done, or rightly passed over.
HandledOK(j) ==
  \A d \in wanted[j] \ todo[j] :
    \/ Complete(<<j, d>>)
    \/ /\ Untouched(<<j, d>>) /\ kind[j] = "comment"
       /\ d[2] = author[j] \/ d[2] \notin base[j]

EndsOK(j) == (pc[j] = "idle" => wanted[j] = {}) /\ (pc[j] = "done" => todo[j] = {})

\* Rows of a comment are for members other than the author.
MentionsOK(j) ==
  \A d \in Dispatch :
    <<j, d>> \in rows /\ kind[j] = "comment" => d[2] \in members /\ d[2] # author[j]

\* The one user that is invited, and that the caller may invite.
InsertOK(j) ==
  pc[j] = "insert" => author[j] \in admins /\ \E u \in User : todo[j] = {<<NoTask, u>>}

JobOK(j) ==
  CurOK(j) /\ StageOK(j) /\ RestOK(j) /\ HandledOK(j) /\ EndsOK(j) /\ MentionsOK(j) /\ InsertOK(j)

\* An invitation that was accepted by the database and is, or will be, told.
Telling(j, u) ==
  \/ <<j, <<NoTask, u>>>> \in rows
  \/ pc[j] \in {"loop", "publish", "email"} /\ <<NoTask, u>> \in todo[j]

OneTelling ==
  \A j \in Job, u \in User : Telling(j, u) =>
    u \in members /\ \A i \in Job : Telling(i, u) => i = j

\* The log accounts for the admins as well.
LogKnows == InvitationsLogged /\ admins = FirstAdmins \cup Promoted(Len(log))

IInv == TypeOK /\ (\A j \in Job : JobOK(j)) /\ OneTelling /\ LogKnows

-----------------------------------------------------------------------------
(* Types.                                                                  *)

LEMMA AppendTyped ==
  ASSUME NEW E, NEW s \in Seq(E), NEW e \in E
  PROVE  Append(s, e) \in Seq(E)
OBVIOUS

LEMMA StartType ==
  ASSUME TypeOK, NEW j \in Job, Begin(j)
  PROVE  TypeOK'
<1> USE DEF TypeOK
<1>1. ASSUME NEW k \in {"invite", "comment", "reminders"}, NEW a \in User \cup {NoUser},
             NEW ds \in SUBSET Dispatch, NEW there \in {"insert", "loop"}, Start(j, k, a, ds, there)
      PROVE  TypeOK'
  BY <1>1 DEF Start, Goto, project, team, sent
<1>2. ASSUME NEW a \in User, NEW u \in User, StartInvite(j, a, u) PROVE TypeOK'
  <2>1. {<<NoTask, u>>} \in SUBSET Dispatch
    BY DEF Dispatch
  <2> QED BY <1>1, <1>2, <2>1 DEF StartInvite
<1>3. ASSUME NEW t \in Task, NEW a \in User, NEW m \in SUBSET User, StartComment(j, t, a, m)
      PROVE  TypeOK'
  <2>1. {t} \X m \in SUBSET Dispatch
    BY DEF Dispatch
  <2> QED BY <1>1, <1>3, <2>1 DEF StartComment
<1>4. CASE StartReminders(j)
  <2>1. {d \in tasks \X User : due[d[1]] = d[2]} \in SUBSET Dispatch
    BY DEF Dispatch
  <2> QED BY <1>1, <1>4, <2>1 DEF StartReminders
<1> QED BY <1>2, <1>3, <1>4 DEF Begin

LEMMA TypeStep ==
  ASSUME IInv, [Next]_vars
  PROVE  TypeOK'
<1> TypeOK /\ \A j \in Job : StageOK(j)
  BY DEF IInv, JobOK
<1> USE DEF TypeOK, Goto, project, team, asked, sent
<1>1. ASSUME NEW j \in Job, Begin(j) PROVE TypeOK'
  BY <1>1, StartType
<1>2. ASSUME NEW j \in Job, NEW u \in User, NEW r \in Role, InsertMember(j, u, r) PROVE TypeOK'
  <2>1. author[j] \in User
    BY <1>2 DEF InsertMember, IInv, JobOK, InsertOK
  <2>2. [actor |-> author[j], user |-> u, role |-> r] \in Entry
    BY <2>1 DEF Entry
  <2>3. CASE u \in members
    BY <1>2, <2>3 DEF InsertMember, team
  <2>4. CASE u \notin members
    <3>1. members' = members \cup {u} /\ admins' \in SUBSET members'
      BY <1>2, <2>4 DEF InsertMember
    <3>2. log' \in Seq(Entry)
      <4>1. log \in Seq(Entry) /\ log' = Append(log, [actor |-> author[j], user |-> u, role |-> r])
        BY <1>2, <2>4 DEF InsertMember
      <4> QED BY <2>2, <4>1, AppendTyped
    <3>3. base' \in [Job -> SUBSET members']
      BY <1>2, <3>1 DEF InsertMember
    <3>4. /\ UNCHANGED <<tasks, due, kind, author, wanted, todo, cur, rows, published, mail>>
          /\ pc' \in [Job -> {"idle", "insert", "loop", "publish", "email", "done", "stopped", "failed"}]
      BY <1>2, <2>4 DEF InsertMember
    <3> QED BY <3>1, <3>2, <3>3, <3>4
  <2> QED BY <2>3, <2>4
<1>3. ASSUME NEW j \in Job, NEW d \in Dispatch,
             Skip(j, d) \/ Commit(j, d) \/ Publish(j, d) \/ QueueEmail(j, d)
      PROVE  TypeOK'
  <2>1. <<j, d>> \in RowId
    BY DEF RowId
  <2>2. CASE Skip(j, d) BY <2>2 DEF Skip
  <2>3. CASE Commit(j, d)
    <3>1. rows' \in SUBSET RowId /\ published' \in SUBSET rows'
      <4>1. published' = published /\ (rows' = rows \/ rows' = rows \cup {<<j, d>>})
        BY <2>3 DEF Commit
      <4> QED BY <2>1, <4>1
    <3>2. pc' \in [Job -> {"idle", "insert", "loop", "publish", "email", "done", "stopped", "failed"}]
      BY <2>3 DEF Commit
    <3>3. cur' \in [Job -> SUBSET Dispatch] /\ UNCHANGED <<project, asked, todo, mail>>
      BY <2>3 DEF Commit
    <3> QED BY <3>1, <3>2, <3>3
  <2>4. CASE Publish(j, d)
    <3>1. <<j, d>> \in rows
      BY <2>4 DEF Publish, StageOK
    <3> QED BY <2>1, <2>4, <3>1 DEF Publish
  <2>5. CASE QueueEmail(j, d) BY <2>1, <2>5 DEF QueueEmail
  <2> QED BY <1>3, <2>2, <2>3, <2>4, <2>5
<1>4. ASSUME NEW j \in Job, EndJob(j) \/ JobFails(j) PROVE TypeOK'
  BY <1>4 DEF EndJob, JobFails
<1>5. ASSUME NEW d \in RowId, SendEmail(d) PROVE TypeOK'
  BY <1>5 DEF SendEmail
<1>6. ASSUME NEW t \in Task, DeleteTask(t) PROVE TypeOK'
  BY <1>6 DEF DeleteTask
<1>7. ASSUME NEW t \in Task, NEW u \in User \cup {NoUser}, EditTask(t, u) PROVE TypeOK'
  BY <1>7 DEF EditTask
<1>8. CASE UNCHANGED vars
  BY <1>8 DEF vars
<1> QED
  BY <1>1, <1>2, <1>3, <1>4, <1>5, <1>6, <1>7, <1>8 DEF Next, Elsewhere, JobStep

-----------------------------------------------------------------------------
(* Steps that leave a job alone.                                           *)

\* Nobody leaves the project or loses a role.
TeamGrows == members \subseteq members' /\ admins \subseteq admins'

\* Nothing of what the invariant says of job i has changed.
Same(i) ==
  /\ pc'[i] = pc[i] /\ kind'[i] = kind[i] /\ author'[i] = author[i] /\ wanted'[i] = wanted[i]
  /\ base'[i] = base[i] /\ todo'[i] = todo[i] /\ cur'[i] = cur[i]
  /\ \A d \in Dispatch :
       /\ <<i, d>> \in rows' <=> <<i, d>> \in rows
       /\ <<i, d>> \in published' <=> <<i, d>> \in published
       /\ mail'[<<i, d>>] = "none" <=> mail[<<i, d>>] = "none"

LEMMA SameKeepsJob ==
  ASSUME TypeOK, NEW i \in Job, JobOK(i), Same(i), TeamGrows
  PROVE  JobOK(i)'
<1> wanted[i] \subseteq Dispatch /\ cur[i] \subseteq Dispatch
  BY DEF TypeOK
<1> USE DEF JobOK, Same
<1>1. CurOK(i)' BY DEF CurOK
<1>2. StageOK(i)' BY DEF StageOK, Untouched
<1>3. RestOK(i)' BY DEF RestOK, Untouched
<1>4. HandledOK(i)' BY DEF HandledOK, Complete, Untouched
<1>5. EndsOK(i)' BY DEF EndsOK
<1>6. MentionsOK(i)' BY DEF MentionsOK, TeamGrows
<1>7. InsertOK(i)' BY DEF InsertOK, TeamGrows
<1> QED BY <1>1, <1>2, <1>3, <1>4, <1>5, <1>6, <1>7

\* The steps of job j are no other job's.
LEMMA OthersSame ==
  ASSUME TypeOK, NEW i \in Job, NEW j \in Job, i # j,
         Begin(j) \/ JobStep(j) \/ JobFails(j)
  PROVE  Same(i) /\ TeamGrows
<1> USE DEF TypeOK, Same, TeamGrows, Goto, project, team, asked, sent
<1>1. ASSUME NEW k, NEW a, NEW ds, NEW there, Start(j, k, a, ds, there)
      PROVE  Same(i) /\ TeamGrows
  BY <1>1 DEF Start
<1>2. CASE Begin(j)
  BY <1>1, <1>2 DEF Begin, StartInvite, StartComment, StartReminders
<1>3. ASSUME NEW u \in User, NEW r \in Role, InsertMember(j, u, r) PROVE Same(i) /\ TeamGrows
  BY <1>3 DEF InsertMember
<1>4. ASSUME NEW d \in Dispatch,
             Skip(j, d) \/ Commit(j, d) \/ Publish(j, d) \/ QueueEmail(j, d)
      PROVE  Same(i) /\ TeamGrows
  <2>1. \A e \in Dispatch : <<i, e>> # <<j, d>> /\ <<i, e>> \in RowId
    BY DEF RowId
  <2>2. CASE Skip(j, d) BY <2>2 DEF Skip
  <2>3. CASE Commit(j, d) BY <2>1, <2>3 DEF Commit
  <2>4. CASE Publish(j, d) BY <2>1, <2>4 DEF Publish
  <2>5. CASE QueueEmail(j, d) BY <2>1, <2>5 DEF QueueEmail
  <2> QED BY <1>4, <2>2, <2>3, <2>4, <2>5
<1>5. CASE EndJob(j) \/ JobFails(j)
  BY <1>5 DEF EndJob, JobFails
<1> QED BY <1>2, <1>3, <1>4, <1>5 DEF JobStep

\* What is not a job leaves all jobs alone.
LEMMA EnvironmentSame ==
  ASSUME TypeOK, NEW i \in Job,
         \/ \E d \in RowId : SendEmail(d)
         \/ \E t \in Task : DeleteTask(t) \/ \E u \in User \cup {NoUser} : EditTask(t, u)
         \/ UNCHANGED vars
  PROVE  Same(i) /\ TeamGrows
<1> USE DEF TypeOK, Same, TeamGrows, project, team, asked, sent
<1>1. ASSUME NEW d \in RowId, SendEmail(d) PROVE Same(i) /\ TeamGrows
  <2>1. \A e \in Dispatch : <<i, e>> \in RowId
    BY DEF RowId
  <2> QED BY <1>1, <2>1 DEF SendEmail
<1>2. ASSUME NEW t \in Task, DeleteTask(t) PROVE Same(i) /\ TeamGrows
  BY <1>2 DEF DeleteTask
<1>3. ASSUME NEW t \in Task, NEW u \in User \cup {NoUser}, EditTask(t, u)
      PROVE  Same(i) /\ TeamGrows
  BY <1>3 DEF EditTask
<1>4. CASE UNCHANGED vars
  BY <1>4 DEF vars
<1> QED BY <1>1, <1>2, <1>3, <1>4

-----------------------------------------------------------------------------
(* A job's own steps.                                                      *)

LEMMA StartKeepsJob ==
  ASSUME TypeOK, NEW j \in Job, JobOK(j), Begin(j)
  PROVE  JobOK(j)'
<1> USE DEF TypeOK
<1>1. ASSUME NEW k, NEW a, NEW ds \in SUBSET Dispatch, NEW there, Start(j, k, a, ds, there),
             \/ there = "insert" /\ a \in admins /\ \E u \in User : ds = {<<NoTask, u>>}
             \/ there = "loop"
      PROVE  JobOK(j)'
  <2>1. /\ pc[j] = "idle" /\ pc'[j] = there /\ wanted'[j] = ds /\ todo'[j] = ds
        /\ author'[j] = a
        /\ cur[j] = {} /\ cur'[j] = {} /\ UNCHANGED <<rows, published, mail, members, admins>>
    BY <1>1 DEF Start, Goto, project, team, sent, JobOK, CurOK
  <2>2. \A d \in Dispatch : Untouched(<<j, d>>)
    BY <2>1 DEF JobOK, EndsOK, RestOK
  <2>3. \A d \in Dispatch : Untouched(<<j, d>>)'
    BY <2>1, <2>2 DEF Untouched
  <2>4. CurOK(j)' /\ StageOK(j)' /\ EndsOK(j)' /\ InsertOK(j)'
    BY <1>1, <2>1 DEF CurOK, StageOK, EndsOK, InsertOK
  <2>5. RestOK(j)' BY <2>3 DEF RestOK
  <2>6. HandledOK(j)' BY <2>1 DEF HandledOK
  <2>7. MentionsOK(j)' BY <2>3 DEF MentionsOK, Untouched
  <2> QED BY <2>4, <2>5, <2>6, <2>7 DEF JobOK
<1>2. ASSUME NEW a \in User, NEW u \in User, StartInvite(j, a, u) PROVE JobOK(j)'
  <2>1. {<<NoTask, u>>} \in SUBSET Dispatch
    BY DEF Dispatch
  <2> QED BY <1>1, <1>2, <2>1 DEF StartInvite
<1>3. ASSUME NEW t \in Task, NEW a \in User, NEW m \in SUBSET User, StartComment(j, t, a, m)
      PROVE  JobOK(j)'
  <2>1. {t} \X m \in SUBSET Dispatch
    BY DEF Dispatch
  <2> QED BY <1>1, <1>3, <2>1 DEF StartComment
<1>4. CASE StartReminders(j)
  <2>1. {d \in tasks \X User : due[d[1]] = d[2]} \in SUBSET Dispatch
    BY DEF Dispatch
  <2> QED BY <1>1, <1>4, <2>1 DEF StartReminders
<1> QED BY <1>2, <1>3, <1>4 DEF Begin

LEMMA InsertKeepsJob ==
  ASSUME TypeOK, NEW j \in Job, JobOK(j), NEW u \in User, NEW r \in Role,
         InsertMember(j, u, r)
  PROVE  JobOK(j)'
<1> USE DEF TypeOK, JobOK
<1>1. /\ pc[j] = "insert" /\ pc'[j] \in {"loop", "stopped"} /\ TeamGrows
      /\ UNCHANGED <<kind, author, wanted, base, todo, cur, rows, published, mail>>
  BY DEF InsertMember, TeamGrows, Goto, team, asked, sent
<1>2. CurOK(j)' /\ StageOK(j)' BY <1>1 DEF CurOK, StageOK
<1>3. RestOK(j)' BY <1>1 DEF RestOK, Untouched
<1>4. HandledOK(j)' BY <1>1 DEF HandledOK, Complete, Untouched
<1>5. EndsOK(j)' /\ InsertOK(j)' BY <1>1 DEF EndsOK, InsertOK
<1>6. MentionsOK(j)' BY <1>1 DEF MentionsOK, TeamGrows
<1> QED BY <1>2, <1>3, <1>4, <1>5, <1>6

LEMMA SkipKeepsJob ==
  ASSUME TypeOK, NEW j \in Job, JobOK(j), NEW d \in Dispatch, Skip(j, d)
  PROVE  JobOK(j)'
<1> USE DEF TypeOK, JobOK
<1>1. /\ pc[j] = "loop" /\ d \in todo[j] /\ todo'[j] = todo[j] \ {d} /\ cur[j] = {}
      /\ UNCHANGED <<members, admins, pc, kind, author, wanted, base, cur, rows, published, mail>>
  BY DEF Skip, project, team, asked, sent, CurOK
<1>2. Untouched(<<j, d>>)
  BY <1>1 DEF RestOK
<1>3. kind[j] = "comment" /\ (d[2] = author[j] \/ d[2] \notin base[j])
  BY DEF Skip, Skipped
<1>4. CurOK(j)' /\ StageOK(j)' BY <1>1 DEF CurOK, StageOK
<1>5. RestOK(j)' BY <1>1 DEF RestOK, Untouched
<1>6. HandledOK(j)' BY <1>1, <1>2, <1>3 DEF HandledOK, Complete, Untouched
<1>7. EndsOK(j)' /\ InsertOK(j)' BY <1>1 DEF EndsOK, InsertOK
<1>8. MentionsOK(j)' BY <1>1 DEF MentionsOK
<1> QED BY <1>4, <1>5, <1>6, <1>7, <1>8

LEMMA CommitKeepsJob ==
  ASSUME TypeOK, NEW j \in Job, JobOK(j), NEW d \in Dispatch, Commit(j, d)
  PROVE  JobOK(j)'
<1> USE DEF TypeOK, JobOK
<1>1. /\ pc[j] = "loop" /\ d \in todo[j] /\ cur[j] = {} /\ cur'[j] = {d}
      /\ UNCHANGED <<members, admins, kind, author, wanted, base, todo, published, mail>>
      /\ \/ pc'[j] = "publish" /\ rows' = rows \cup {<<j, d>>}
         \/ pc'[j] = "stopped" /\ rows' = rows
  BY DEF Commit, Goto, project, team, asked, CurOK
<1>2. Untouched(<<j, d>>)
  BY <1>1 DEF RestOK
<1>3. kind[j] = "comment" => d[2] \in members /\ d[2] # author[j]
  BY DEF Commit, Skipped
<1>4. CurOK(j)' BY <1>1 DEF CurOK
<1>5. StageOK(j)' BY <1>1, <1>2 DEF StageOK, Untouched
<1>6. RestOK(j)' BY <1>1 DEF RestOK, Untouched, CurOK
<1>7. HandledOK(j)' BY <1>1 DEF HandledOK, Complete, Untouched
<1>8. EndsOK(j)' /\ InsertOK(j)' BY <1>1 DEF EndsOK, InsertOK
<1>9. MentionsOK(j)' BY <1>1, <1>3 DEF MentionsOK
<1> QED BY <1>4, <1>5, <1>6, <1>7, <1>8, <1>9

LEMMA PublishKeepsJob ==
  ASSUME TypeOK, NEW j \in Job, JobOK(j), NEW d \in Dispatch, Publish(j, d)
  PROVE  JobOK(j)'
<1> USE DEF TypeOK, JobOK
<1>1. /\ pc[j] = "publish" /\ cur[j] = {d} /\ pc'[j] = "email"
      /\ published' = published \cup {<<j, d>>}
      /\ UNCHANGED <<members, admins, kind, author, wanted, base, todo, cur, rows, mail>>
  BY DEF Publish, Goto, project, team, asked, CurOK
<1>2. CurOK(j)' BY <1>1 DEF CurOK
<1>3. StageOK(j)' BY <1>1 DEF StageOK
<1>4. RestOK(j)' BY <1>1 DEF RestOK, Untouched
<1>5. HandledOK(j)' BY <1>1 DEF HandledOK, Complete, Untouched
<1>6. EndsOK(j)' /\ InsertOK(j)' BY <1>1 DEF EndsOK, InsertOK
<1>7. MentionsOK(j)' BY <1>1 DEF MentionsOK
<1> QED BY <1>2, <1>3, <1>4, <1>5, <1>6, <1>7

LEMMA QueueKeepsJob ==
  ASSUME TypeOK, NEW j \in Job, JobOK(j), NEW d \in Dispatch, QueueEmail(j, d)
  PROVE  JobOK(j)'
<1> USE DEF TypeOK, JobOK
<1>1. /\ pc[j] = "email" /\ cur[j] = {d} /\ pc'[j] = "loop" /\ cur'[j] = {}
      /\ todo'[j] = todo[j] \ {d}
      /\ UNCHANGED <<members, admins, kind, author, wanted, base, rows, published>>
  BY DEF QueueEmail, Goto, project, team, asked, CurOK
<1>2. \A e \in Dispatch : mail'[<<j, e>>] = IF e = d THEN "queued" ELSE mail[<<j, e>>]
  BY DEF QueueEmail, RowId
<1>3. <<j, d>> \in published
  BY <1>1 DEF StageOK
<1>4. CurOK(j)' /\ StageOK(j)' BY <1>1 DEF CurOK, StageOK
<1>5. RestOK(j)' BY <1>1, <1>2 DEF RestOK, Untouched, CurOK
<1>6. HandledOK(j)' BY <1>1, <1>2, <1>3 DEF HandledOK, Complete, Untouched
<1>7. EndsOK(j)' /\ InsertOK(j)' BY <1>1 DEF EndsOK, InsertOK
<1>8. MentionsOK(j)' BY <1>1 DEF MentionsOK
<1> QED BY <1>4, <1>5, <1>6, <1>7, <1>8

LEMMA EndKeepsJob ==
  ASSUME TypeOK, NEW j \in Job, JobOK(j), EndJob(j) \/ JobFails(j)
  PROVE  JobOK(j)'
<1> USE DEF TypeOK, JobOK
<1>1. /\ pc[j] \in {"insert", "loop", "publish", "email"}
      /\ pc'[j] = "failed" \/ (pc[j] = "loop" /\ pc'[j] = "done" /\ todo[j] = {})
      /\ UNCHANGED <<members, admins, kind, author, wanted, base, todo, cur, rows, published, mail>>
  BY DEF EndJob, JobFails, Goto, project, team, asked, sent
<1>2. CurOK(j)' BY <1>1 DEF CurOK
<1>3. StageOK(j)' BY <1>1 DEF StageOK
<1>4. RestOK(j)' BY <1>1 DEF RestOK, Untouched
<1>5. HandledOK(j)' BY <1>1 DEF HandledOK, Complete, Untouched
<1>6. EndsOK(j)' /\ InsertOK(j)' BY <1>1 DEF EndsOK, InsertOK
<1>7. MentionsOK(j)' BY <1>1 DEF MentionsOK
<1> QED BY <1>2, <1>3, <1>4, <1>5, <1>6, <1>7

LEMMA JobsStep ==
  ASSUME IInv, [Next]_vars
  PROVE  \A i \in Job : JobOK(i)'
<1> TypeOK /\ \A j \in Job : JobOK(j)
  BY DEF IInv
<1> TAKE i \in Job
<1>1. ASSUME NEW j \in Job, Begin(j) \/ JobStep(j) \/ JobFails(j), i # j PROVE JobOK(i)'
  BY <1>1, OthersSame, SameKeepsJob
<1>2. ASSUME Begin(i) \/ JobStep(i) \/ JobFails(i) PROVE JobOK(i)'
  BY <1>2, StartKeepsJob, InsertKeepsJob, SkipKeepsJob, CommitKeepsJob, PublishKeepsJob,
     QueueKeepsJob, EndKeepsJob DEF JobStep
<1>3. ASSUME \/ \E d \in RowId : SendEmail(d)
             \/ \E t \in Task : DeleteTask(t) \/ \E u \in User \cup {NoUser} : EditTask(t, u)
             \/ UNCHANGED vars
      PROVE  JobOK(i)'
  BY <1>3, EnvironmentSame, SameKeepsJob
<1> QED BY <1>1, <1>2, <1>3 DEF Next, Elsewhere

-----------------------------------------------------------------------------
(* Invitations.                                                            *)

\* Only the INSERT of a membership makes a job one that tells.
LEMMA TellingBack ==
  ASSUME IInv, NEW j \in Job, NEW u \in User, Telling(j, u)', ~ Telling(j, u),
         Begin(j) \/ JobStep(j) \/ JobFails(j)
  PROVE  u \notin members /\ \E r \in Role : InsertMember(j, u, r)
<1> TypeOK /\ JobOK(j)
  BY DEF IInv
<1> USE DEF TypeOK, Telling, Goto, project, team, asked, sent
<1>1. ASSUME NEW k, NEW a, NEW ds, NEW there, Start(j, k, a, ds, there),
             there = "insert" \/ <<NoTask, u>> \notin ds
      PROVE  FALSE
  BY <1>1 DEF Start
<1>2. ASSUME NEW a \in User, NEW v \in User, StartInvite(j, a, v) PROVE FALSE
  BY <1>1, <1>2 DEF StartInvite
<1>3. ASSUME NEW t \in Task, NEW a \in User, NEW m \in SUBSET User, StartComment(j, t, a, m)
      PROVE  FALSE
  BY <1>1, <1>3, NoneAssumption DEF StartComment
<1>4. CASE StartReminders(j)
  <2>1. <<NoTask, u>> \notin {d \in tasks \X User : due[d[1]] = d[2]}
    BY NoneAssumption
  <2> QED BY <1>1, <1>4, <2>1 DEF StartReminders
<1>5. ASSUME NEW v \in User, NEW r \in Role, InsertMember(j, v, r)
      PROVE  InsertMember(j, u, r) /\ u \notin members
  <2>1. <<NoTask, u>> \in todo[j] /\ v \notin members
    BY <1>5 DEF InsertMember
  <2>2. u = v
    BY <1>5, <2>1 DEF InsertMember, JobOK, InsertOK
  <2> QED BY <1>5, <2>1, <2>2
<1>6. ASSUME NEW d \in Dispatch, Skip(j, d) \/ Commit(j, d) \/ Publish(j, d) \/ QueueEmail(j, d)
      PROVE  FALSE
  <2>1. CASE Skip(j, d) BY <2>1 DEF Skip
  <2>2. CASE Commit(j, d)
    <3>1. /\ pc[j] = "loop" /\ d \in todo[j] /\ todo' = todo
          /\ rows' \subseteq rows \cup {<<j, d>>} /\ (pc'[j] = "stopped" \/ pc'[j] = "publish")
      BY <2>2 DEF Commit
    <3>2. <<NoTask, u>> \notin todo[j] /\ <<j, <<NoTask, u>>>> \notin rows
      BY <3>1
    <3> QED BY <3>1, <3>2
  <2>3. CASE Publish(j, d) BY <2>3 DEF Publish
  <2>4. CASE QueueEmail(j, d) BY <2>4 DEF QueueEmail
  <2> QED BY <1>6, <2>1, <2>2, <2>3, <2>4
<1>7. CASE EndJob(j) \/ JobFails(j)
  BY <1>7 DEF EndJob, JobFails
<1> QED BY <1>2, <1>3, <1>4, <1>5, <1>6, <1>7 DEF Begin, JobStep

LEMMA SameTelling ==
  ASSUME NEW i \in Job, NEW u \in User, Same(i), Telling(i, u)'
  PROVE  Telling(i, u)
<1> <<NoTask, u>> \in Dispatch
  BY DEF Dispatch
<1> QED BY DEF Same, Telling

LEMMA OneTellingStep ==
  ASSUME IInv, [Next]_vars
  PROVE  OneTelling'
<1> TypeOK /\ OneTelling
  BY DEF IInv
<1>1. ASSUME TeamGrows, \A i \in Job, u \in User : Telling(i, u)' => Telling(i, u)
      PROVE  OneTelling'
  BY <1>1 DEF OneTelling, TeamGrows
<1>2. ASSUME NEW j \in Job, Begin(j) \/ JobStep(j) \/ JobFails(j) PROVE OneTelling'
  <2>1. \A i \in Job : i # j => Same(i)
    BY <1>2, OthersSame
  <2>2. \A i \in Job, u \in User : i # j /\ Telling(i, u)' => Telling(i, u)
    BY <2>1, SameTelling
  <2>3. CASE \A u \in User : Telling(j, u)' => Telling(j, u)
    <3>1. TeamGrows
      <4>1. ASSUME NEW u \in User, NEW r \in Role, InsertMember(j, u, r) PROVE TeamGrows
        BY <4>1 DEF InsertMember, TeamGrows, team
      <4>2. CASE ~ \E u \in User, r \in Role : InsertMember(j, u, r)
        BY <1>2, <4>2 DEF Begin, JobStep, JobFails, Start, StartInvite, StartComment,
           StartReminders, Skip, Commit, Publish, QueueEmail, EndJob, project, team, TeamGrows
      <4> QED BY <4>1, <4>2
    <3> QED BY <1>1, <2>2, <2>3, <3>1
  <2>4. ASSUME NEW u \in User, Telling(j, u)', ~ Telling(j, u) PROVE OneTelling'
    <3>1. u \notin members /\ \E r \in Role : InsertMember(j, u, r)
      BY <1>2, <2>4, TellingBack
    <3>2. members' = members \cup {u}
      BY <3>1 DEF InsertMember
    <3>3. \A i \in Job : ~ Telling(i, u)
      BY <3>1 DEF OneTelling
    <3>4. \A v \in User : Telling(j, v)' => v = u \/ Telling(j, v)
      <4> SUFFICES ASSUME NEW v \in User, Telling(j, v)', ~ Telling(j, v) PROVE v = u
        OBVIOUS
      <4>1. \E r \in Role : InsertMember(j, v, r)
        BY <1>2, TellingBack
      <4>2. \E w \in User : todo[j] = {<<NoTask, w>>}
        BY <3>1 DEF InsertMember, IInv, JobOK, InsertOK
      <4> QED BY <3>1, <4>1, <4>2 DEF InsertMember
    <3> QED BY <2>2, <3>2, <3>3, <3>4 DEF OneTelling
  <2> QED BY <2>3, <2>4
<1>3. ASSUME \/ \E d \in RowId : SendEmail(d)
             \/ \E t \in Task : DeleteTask(t) \/ \E u \in User \cup {NoUser} : EditTask(t, u)
             \/ UNCHANGED vars
      PROVE  OneTelling'
  <2>1. \A i \in Job : Same(i)
    BY <1>3, EnvironmentSame
  <2>2. TeamGrows
    BY <1>3 DEF SendEmail, DeleteTask, EditTask, vars, project, team, TeamGrows
  <2> QED BY <1>1, <2>1, <2>2, SameTelling
<1> QED BY <1>2, <1>3 DEF Next, Elsewhere

-----------------------------------------------------------------------------
(* The log.                                                                *)

\* An entry that is appended is the last one, and changes none before it.
LEMMA Appended ==
  ASSUME NEW E, NEW e \in E, log \in Seq(E), log' = Append(log, e)
  PROVE  /\ Len(log) \in Nat /\ Len(log') = Len(log) + 1 /\ DOMAIN log' = 1..Len(log')
         /\ log'[Len(log')] = e
         /\ \A i \in 1..Len(log) : log'[i] = log[i]
OBVIOUS

\* The entries before it tell of the same people.
LEMMA AppendedPeople ==
  ASSUME NEW E, NEW e \in E, log \in Seq(E), log' = Append(log, e)
  PROVE  /\ \A n \in 0..Len(log) : Admitted(n)' = Admitted(n) /\ Promoted(n)' = Promoted(n)
         /\ Admitted(Len(log))' = Admitted(Len(log)) \cup {e.user}
         /\ Promoted(Len(log))'
              = Promoted(Len(log)) \cup IF e.role = "admin" THEN {e.user} ELSE {}
<1>1. /\ Len(log) \in Nat /\ Len(log') = Len(log) + 1
      /\ log'[Len(log')] = e /\ \A i \in 1..Len(log) : log'[i] = log[i]
  BY Appended
<1>2. ASSUME NEW n \in 0..Len(log) PROVE Admitted(n)' = Admitted(n) /\ Promoted(n)' = Promoted(n)
  <2>1. \A i \in 1..n : log'[i] = log[i]
    BY <1>1
  <2> QED BY <2>1 DEF Admitted, Promoted
<1>3. 1..Len(log') = 1..Len(log) \cup {Len(log')}
  BY <1>1
<1>4. Admitted(Len(log))' = Admitted(Len(log)) \cup {e.user}
  BY <1>1, <1>3 DEF Admitted
<1>5. Promoted(Len(log))'
        = Promoted(Len(log)) \cup IF e.role = "admin" THEN {e.user} ELSE {}
  BY <1>1, <1>3 DEF Promoted
<1> QED BY <1>2, <1>4, <1>5

\* Only a membership that is inserted changes the team.
LEMMA TeamStays ==
  ASSUME [Next]_vars, \A j \in Job, u \in User, r \in Role : ~ InsertMember(j, u, r)
  PROVE  UNCHANGED team
<1> USE DEF project
<1>1. ASSUME NEW j \in Job, Begin(j) PROVE UNCHANGED team
  BY <1>1 DEF Begin, Start, StartInvite, StartComment, StartReminders
<1>2. ASSUME NEW j \in Job, JobStep(j) \/ JobFails(j) PROVE UNCHANGED team
  BY <1>2 DEF JobStep, JobFails, Skip, Commit, Publish, QueueEmail, EndJob
<1>3. ASSUME NEW d \in RowId, SendEmail(d) PROVE UNCHANGED team
  BY <1>3 DEF SendEmail
<1>4. ASSUME NEW t \in Task, DeleteTask(t) \/ \E u \in User \cup {NoUser} : EditTask(t, u)
      PROVE  UNCHANGED team
  BY <1>4 DEF DeleteTask, EditTask
<1>5. CASE UNCHANGED vars
  BY <1>5 DEF vars
<1> QED BY <1>1, <1>2, <1>3, <1>4, <1>5 DEF Next, Elsewhere

LEMMA LogStep ==
  ASSUME IInv, [Next]_vars
  PROVE  LogKnows'
<1> LogKnows /\ TypeOK
  BY DEF IInv
<1>1. CASE UNCHANGED team
  BY <1>1 DEF team, LogKnows, InvitationsLogged, Admitted, Promoted
<1>2. ASSUME NEW j \in Job, NEW u \in User, NEW r \in Role, InsertMember(j, u, r), u \notin members
      PROVE  LogKnows'
  <2> DEFINE e == [actor |-> author[j], user |-> u, role |-> r]
  <2>1. author[j] \in admins /\ author[j] \in User
    BY <1>2 DEF InsertMember, IInv, JobOK, InsertOK, TypeOK
  <2>2. /\ e \in Entry /\ e.user = u /\ e.role = r /\ e.actor = author[j]
        /\ log \in Seq(Entry) /\ log' = Append(log, e)
    BY <1>2, <2>1 DEF InsertMember, Entry, TypeOK
  <2>3. /\ members' = members \cup {u}
        /\ admins' = admins \cup IF r = "admin" THEN {u} ELSE {}
    BY <1>2 DEF InsertMember
  <2> HIDE DEF e
  <2>4. /\ Len(log) \in Nat /\ Len(log') = Len(log) + 1 /\ DOMAIN log' = 1..Len(log')
        /\ DOMAIN log = 1..Len(log)
        /\ log'[Len(log')] = e /\ \A i \in 1..Len(log) : log'[i] = log[i]
    BY <2>2, Appended
  <2>5. /\ \A n \in 0..Len(log) : Admitted(n)' = Admitted(n) /\ Promoted(n)' = Promoted(n)
        /\ Admitted(Len(log))' = Admitted(Len(log)) \cup {u}
        /\ Promoted(Len(log))' = Promoted(Len(log)) \cup IF r = "admin" THEN {u} ELSE {}
    BY <2>2, AppendedPeople
  <2>6. members' = FirstMembers \cup Admitted(Len(log))'
    BY <2>3, <2>5 DEF LogKnows, InvitationsLogged
  <2>7. admins' = FirstAdmins \cup Promoted(Len(log))'
    BY <2>3, <2>5 DEF LogKnows
  <2>8. ASSUME NEW i \in 1..Len(log')
        PROVE  /\ log'[i].user \notin FirstMembers \cup Admitted(i - 1)'
               /\ log'[i].actor \in FirstAdmins \cup Promoted(i - 1)'
    <3>1. i \in Nat /\ i - 1 \in 0..Len(log)
      BY <2>4
    <3>2. Admitted(i - 1)' = Admitted(i - 1) /\ Promoted(i - 1)' = Promoted(i - 1)
      BY <2>5, <3>1
    <3>3. CASE i \in 1..Len(log)
      BY <2>4, <3>2, <3>3 DEF LogKnows, InvitationsLogged
    <3>4. CASE i = Len(log')
      <4>1. i - 1 = Len(log)
        BY <2>4, <3>4
      <4>2. log'[i].user = u /\ log'[i].actor = author[j]
        BY <2>2, <2>4, <3>4
      <4> QED BY <1>2, <2>1, <3>2, <4>1, <4>2 DEF LogKnows, InvitationsLogged
    <3> QED BY <2>4, <3>1, <3>3, <3>4
  <2> QED BY <2>4, <2>6, <2>7, <2>8 DEF LogKnows, InvitationsLogged
<1>3. ASSUME NEW j \in Job, NEW u \in User, NEW r \in Role, InsertMember(j, u, r), u \in members
      PROVE  UNCHANGED team
  BY <1>3 DEF InsertMember
<1> QED BY <1>1, <1>2, <1>3, TeamStays

-----------------------------------------------------------------------------
(* The feed.                                                               *)

\* Its members, for the state before a step and the one after it.
LEMMA Pairs ==
  ASSUME NEW p, NEW c, \A i \in Job : c[i] \in SUBSET Dispatch,
         NEW S, S = UNION {{j} \X c[j] : j \in {i \in Job : p[i] = "publish"}}
  PROVE  /\ \A n \in S : \E i \in Job, d \in Dispatch : n = <<i, d>>
         /\ \A i \in Job, d \in Dispatch : <<i, d>> \in S <=> p[i] = "publish" /\ d \in c[i]
<1>1. \A n \in S : \E i \in Job, d \in Dispatch : n = <<i, d>>
  <2> SUFFICES ASSUME NEW n \in S PROVE \E i \in Job, d \in Dispatch : n = <<i, d>>
    OBVIOUS
  <2>1. PICK i \in Job : n \in {i} \X c[i]
    OBVIOUS
  <2>2. PICK d \in c[i] : n = <<i, d>>
    BY <2>1
  <2> QED BY <2>2
<1>2. ASSUME NEW i \in Job, NEW d \in Dispatch
      PROVE  <<i, d>> \in S <=> p[i] = "publish" /\ d \in c[i]
  OBVIOUS
<1> QED BY <1>1, <1>2

LEMMA IsSending ==
  ASSUME TypeOK
  PROVE  /\ \A n \in Sending : \E i \in Job, d \in Dispatch : n = <<i, d>>
         /\ \A i \in Job, d \in Dispatch :
              <<i, d>> \in Sending <=> pc[i] = "publish" /\ d \in cur[i]
<1>1. \A i \in Job : cur[i] \in SUBSET Dispatch
  BY DEF TypeOK
<1> QED BY <1>1, Pairs DEF Sending

LEMMA IsSendingNext ==
  ASSUME TypeOK'
  PROVE  /\ \A n \in Sending' : \E i \in Job, d \in Dispatch : n = <<i, d>>
         /\ \A i \in Job, d \in Dispatch :
              <<i, d>> \in Sending' <=> pc'[i] = "publish" /\ d \in cur'[i]
<1>1. \A i \in Job : cur'[i] \in SUBSET Dispatch
  BY DEF TypeOK
<1> QED BY <1>1, Pairs DEF Sending

\* Only the job that takes a step can change what is being sent.
LEMMA SendingStays ==
  ASSUME TypeOK, TypeOK', NEW j \in Job, \A i \in Job : i # j => Same(i),
         pc[j] # "publish", pc'[j] # "publish"
  PROVE  Sending' = Sending
<1>1. ASSUME NEW i \in Job, NEW d \in Dispatch
      PROVE  <<i, d>> \in Sending' <=> <<i, d>> \in Sending
  BY IsSending, IsSendingNext DEF Same
<1>2. \A n \in Sending : n \in Sending'
  BY <1>1, IsSending
<1>3. \A n \in Sending' : n \in Sending
  BY <1>1, IsSendingNext
<1> QED BY <1>2, <1>3

\* A dispatch that is committed was not stored before.
LEMMA FeedStores ==
  ASSUME IInv, TypeOK', NEW j \in Job, NEW d \in Dispatch, Commit(j, d),
         \A i \in Job : i # j => Same(i)
  PROVE  UNCHANGED Feed!vars \/ Feed!Store(<<j, d>>)
<1> TypeOK /\ JobOK(j)
  BY DEF IInv
<1>1. pc[j] = "loop" /\ cur[j] = {} /\ d \in todo[j]
  BY DEF Commit, JobOK, CurOK
<1>2. /\ cur'[j] = {d}
      /\ \/ pc'[j] = "publish" /\ rows' = rows \cup {<<j, d>>}
         \/ pc'[j] = "stopped" /\ rows' = rows
  BY DEF Commit, Goto, TypeOK
<1>3. <<j, d>> \notin rows
  BY <1>1 DEF JobOK, RestOK, Untouched
<1>4. CASE pc'[j] = "stopped"
  BY <1>1, <1>2, <1>4, SendingStays DEF Feed!vars
<1>5. CASE pc'[j] = "publish"
  <2>1. \A i \in Job, e \in Dispatch :
          <<i, e>> \in Sending' <=> <<i, e>> \in Sending \/ (i = j /\ e = d)
    BY <1>1, <1>2, <1>5, IsSending, IsSendingNext DEF Same
  <2>2. Sending' = Sending \cup {<<j, d>>}
    <3>1. \A n \in Sending' : n \in Sending \/ n = <<j, d>>
      BY <2>1, IsSendingNext
    <3>2. <<j, d>> \in Sending' /\ \A n \in Sending : n \in Sending'
      BY <2>1, IsSending
    <3> QED BY <3>1, <3>2
  <2> QED BY <1>2, <1>3, <1>5, <2>2 DEF Feed!Store
<1> QED BY <1>2, <1>4, <1>5

\* An event is published, or an error loses it.
LEMMA FeedSettles ==
  ASSUME IInv, TypeOK', NEW j \in Job, pc[j] = "publish", pc'[j] # "publish", rows' = rows,
         \A i \in Job : i # j => Same(i)
  PROVE  \E d \in Dispatch : cur[j] = {d} /\ Feed!Settle(<<j, d>>)
<1> TypeOK /\ JobOK(j)
  BY DEF IInv
<1>1. PICK d \in Dispatch : cur[j] = {d}
  BY DEF JobOK, CurOK
<1>2. <<j, d>> \in Sending
  BY <1>1, IsSending
<1>3. \A i \in Job, e \in Dispatch :
        <<i, e>> \in Sending' <=> <<i, e>> \in Sending /\ ~ (i = j /\ e = d)
  <2>1. ASSUME NEW i \in Job, NEW e \in Dispatch, i # j
        PROVE  <<i, e>> \in Sending' <=> <<i, e>> \in Sending
    BY <2>1, IsSending, IsSendingNext DEF Same
  <2>2. ASSUME NEW e \in Dispatch
        PROVE  <<j, e>> \notin Sending' /\ (<<j, e>> \in Sending <=> e = d)
    BY <1>1, IsSending, IsSendingNext
  <2> QED BY <2>1, <2>2
<1>4. Sending' = Sending \ {<<j, d>>}
  BY <1>3, IsSending, IsSendingNext
<1> QED BY <1>1, <1>2, <1>4 DEF Feed!Settle

\* What a step of a job is to the feed.
JobFeeds(j) ==
  \/ UNCHANGED Feed!vars
  \/ \E d \in Dispatch : Feed!Store(<<j, d>>)
  \/ pc[j] = "publish" /\ \E d \in Dispatch : cur[j] = {d} /\ Feed!Settle(<<j, d>>)

LEMMA JobFeed ==
  ASSUME IInv, TypeOK', NEW j \in Job, Begin(j) \/ JobStep(j) \/ JobFails(j)
  PROVE  JobFeeds(j)
<1> USE DEF JobFeeds
<1> TypeOK
  BY DEF IInv
<1>1. \A i \in Job : i # j => Same(i)
  BY OthersSame
<1>2. CASE pc[j] # "publish" /\ pc'[j] # "publish" /\ rows' = rows
  BY <1>1, <1>2, SendingStays DEF Feed!vars
<1>3. CASE pc[j] = "publish" /\ pc'[j] # "publish" /\ rows' = rows
  BY <1>1, <1>3, FeedSettles
<1>4. CASE \E d \in Dispatch : Commit(j, d)
  BY <1>1, <1>4, FeedStores
<1>5. CASE Begin(j)
  <2>1. pc[j] = "idle" /\ pc'[j] \in {"insert", "loop"} /\ rows' = rows
    BY <1>5 DEF Begin, StartInvite, StartComment, StartReminders, Start, Goto, sent, TypeOK
  <2> QED BY <1>2, <2>1
<1>6. ASSUME NEW u \in User, NEW r \in Role, InsertMember(j, u, r)
      PROVE  JobFeeds(j)
  <2>1. pc[j] = "insert" /\ pc'[j] \in {"loop", "stopped"} /\ rows' = rows
    BY <1>6 DEF InsertMember, Goto, sent, TypeOK
  <2> QED BY <1>2, <2>1
<1>7. ASSUME NEW d \in Dispatch, Skip(j, d) \/ Publish(j, d) \/ QueueEmail(j, d)
      PROVE  JobFeeds(j)
  <2>1. CASE Skip(j, d)
    <3>1. pc[j] = "loop" /\ pc'[j] = "loop" /\ rows' = rows
      BY <2>1 DEF Skip, sent
    <3> QED BY <1>2, <3>1
  <2>2. CASE Publish(j, d)
    <3>1. pc[j] = "publish" /\ pc'[j] = "email" /\ rows' = rows
      BY <2>2 DEF Publish, Goto, TypeOK
    <3> QED BY <1>3, <3>1
  <2>3. CASE QueueEmail(j, d)
    <3>1. pc[j] = "email" /\ pc'[j] = "loop" /\ rows' = rows
      BY <2>3 DEF QueueEmail, Goto, TypeOK
    <3> QED BY <1>2, <3>1
  <2> QED BY <1>7, <2>1, <2>2, <2>3
<1>8. CASE EndJob(j) \/ JobFails(j)
  <2>1. pc'[j] \in {"done", "failed"} /\ rows' = rows
    BY <1>8 DEF EndJob, JobFails, Goto, sent, TypeOK
  <2> QED BY <1>2, <1>3, <2>1
<1> QED BY <1>4, <1>5, <1>6, <1>7, <1>8 DEF JobStep

\* What is not a job changes nothing of the feed.
LEMMA ElsewhereFeed ==
  ASSUME Elsewhere \/ UNCHANGED vars
  PROVE  UNCHANGED Feed!vars
<1>1. UNCHANGED <<pc, cur, rows>>
  BY DEF Elsewhere, SendEmail, DeleteTask, EditTask, vars, sent
<1> QED BY <1>1 DEF Sending, Feed!vars

\* Every step stores a notification, settles one or changes nothing of them.
LEMMA FeedStep ==
  ASSUME IInv, [Next]_vars
  PROVE  [Feed!Next]_(Feed!vars)
<1>1. TypeOK'
  BY TypeStep DEF IInv
<1>2. ASSUME NEW j \in Job, JobFeeds(j)
      PROVE  [Feed!Next]_(Feed!vars)
  <2>1. ASSUME NEW d \in Dispatch PROVE <<j, d>> \in RowId
    BY DEF RowId
  <2>2. ASSUME NEW d \in Dispatch, Feed!Store(<<j, d>>) PROVE Feed!Next
    BY <2>1, <2>2 DEF Feed!Next
  <2>3. ASSUME NEW d \in Dispatch, Feed!Settle(<<j, d>>) PROVE Feed!Next
    BY <2>3 DEF Feed!Next, Feed!Settle
  <2> QED BY <1>2, <2>2, <2>3 DEF JobFeeds
<1> QED BY <1>1, <1>2, JobFeed, ElsewhereFeed DEF Next, Elsewhere

-----------------------------------------------------------------------------
(* The theorems.                                                           *)

LEMMA InitType ==
  ASSUME Init
  PROVE  TypeOK
BY FirstAssumption DEF Init, TypeOK

LEMMA Inductive == Spec => []IInv
<1>1. Init => IInv
  <2> SUFFICES ASSUME Init PROVE IInv
    OBVIOUS
  <2>1. \A j \in Job, d \in Dispatch : Untouched(<<j, d>>)
    BY DEF Init, Untouched, RowId
  <2>2. ASSUME NEW j \in Job PROVE JobOK(j)
    BY <2>1 DEF Init, JobOK, CurOK, StageOK, RestOK, HandledOK, EndsOK, MentionsOK, InsertOK
  <2>3. OneTelling
    BY DEF Init, OneTelling, Telling
  <2>4. LogKnows
    BY FirstAssumption DEF Init, LogKnows, InvitationsLogged, Admitted, Promoted
  <2> QED BY <2>2, <2>3, <2>4, InitType DEF IInv
<1>2. IInv /\ [Next]_vars => IInv'
  BY TypeStep, JobsStep, OneTellingStep, LogStep DEF IInv
<1> QED BY <1>1, <1>2, PTL DEF Spec

\* Every variable has its type for any project and any number of jobs.
THEOREM TypeCorrect == Spec => []TypeOK
<1>1. IInv => TypeOK
  BY DEF IInv
<1> QED BY <1>1, Inductive, PTL

\* A dispatch of create_and_dispatch is all or nothing but where a loop stands
\* or was interrupted.
THEOREM NotificationsAllOrNothing == Spec => []AllOrNothing
<1>1. IInv => AllOrNothing
  <2> SUFFICES ASSUME IInv, NEW j \in Job, NEW d \in Dispatch
               PROVE  \/ Complete(<<j, d>>) \/ Untouched(<<j, d>>)
                      \/ d \in cur[j] /\ pc[j] \in {"publish", "email", "failed"}
    BY DEF AllOrNothing
  <2> TypeOK /\ JobOK(j)
    BY DEF IInv
  <2>1. CASE d \in cur[j]
    BY <2>1 DEF TypeOK, JobOK, CurOK, StageOK
  <2>2. CASE d \notin cur[j]
    BY <2>2 DEF JobOK, RestOK, HandledOK
  <2> QED BY <2>1, <2>2
<1> QED BY <1>1, Inductive, PTL

\* _notify_mentions, the daily job and invite_member notify everybody they are
\* for if they come to their end.
THEOREM EverybodyIsNotified == Spec => []EverybodyNotified
<1>1. IInv => EverybodyNotified
  BY DEF IInv, JobOK, EndsOK, HandledOK, EverybodyNotified
<1> QED BY <1>1, Inductive, PTL

\* Comments notify members other than their author only.
THEOREM OnlyMembersAreMentioned == Spec => []OnlyMembersMentioned
<1>1. IInv => OnlyMembersMentioned
  BY DEF IInv, JobOK, MentionsOK, OnlyMembersMentioned
<1> QED BY <1>1, Inductive, PTL

\* invite_member tells a user once, whatever the number of racing invitations.
THEOREM UsersAreInvitedOnce == Spec => []InvitedOnce
<1>1. IInv => InvitedOnce
  BY DEF IInv, OneTelling, Telling, InvitedOnce
<1> QED BY <1>1, Inductive, PTL

\* Whoever is in the project was a member from the start or stands in the log,
\* once, as invited by an admin; admins go back to those of the start.
THEOREM InvitationsAlwaysLogged == Spec => []InvitationsLogged
<1>1. IInv => InvitationsLogged
  BY DEF IInv, LogKnows
<1> QED BY <1>1, Inductive, PTL

\* create_and_dispatch keeps its promise to the bell, whatever the jobs that
\* call it.
THEOREM NotificationsFeedBells == Spec => ImplementsFeed
<1>1. Init => Feed!Init
  BY DEF Init, Feed!Init, Sending, RowId
<1>2. IInv /\ [Next]_vars => [Feed!Next]_(Feed!vars)
  BY FeedStep
<1> QED BY <1>1, <1>2, Inductive, PTL DEF Spec, ImplementsFeed, Feed!Spec

-----------------------------------------------------------------------------
(* NotificationPanel: with any number of notifications and clicks, the     *)
(* panel shows the table whenever nothing is on its way to the tab and     *)
(* nothing was missed.                                                     *)

\* A closed panel may keep an old list, if it will be fetched when it opens.
Excused(q) == q = "list" /\ ~ open /\ (invalid \/ data[q] = NoData)

\* With nothing on its way, answers and caches are those of the table.
Fresh ==
  ~ Pending => \A q \in Query \ missed :
    /\ fetch[q] = "answered" => ans[q] = Unread
    /\ fetch[q] = "idle" /\ ~ Excused(q) => data[q] = Unread

\* An open panel has a list that was not invalidated, or has asked for one.
Loaded ==
  open /\ fetch["list"] = "idle" /\ "list" \notin missed => ~ invalid /\ data["list"] # NoData

\* An answer under way is one.
Answered == \A q \in Query : fetch[q] = "answered" => ans[q] # NoData

BellInv == BellTypeOK /\ Fresh /\ Loaded /\ Answered

\* What invalidateQueries and the silent changes keep of the types.
LEMMA InvalidateType ==
  ASSUME BellTypeOK, Invalidate
  PROVE  /\ fetch' \in [Query -> {"idle", "asked", "answered"}]
         /\ ans' \in [Query -> {NoData} \cup SUBSET inbox]
         /\ data' \in [Query -> {NoData} \cup SUBSET inbox]
         /\ open' \in BOOLEAN /\ invalid' \in BOOLEAN /\ missed' \in SUBSET Query
<1>1. fetch' \in [Query -> {"idle", "asked", "answered"}]
  BY DEF BellTypeOK, Invalidate
<1>2. ans' \in [Query -> {NoData} \cup SUBSET inbox]
  BY DEF BellTypeOK, Invalidate
<1> QED BY <1>1, <1>2 DEF BellTypeOK, Invalidate

\* Every step keeps the types.
LEMMA BellTypeStep ==
  ASSUME BellTypeOK, [BellNext]_bell
  PROVE  BellTypeOK'
<1> USE DEF BellTypeOK, table, clicks
<1>1. ASSUME NEW n \in Note, Arrive(n) \/ Announce(n) \/ AnnounceFails(n) \/ MarkElsewhere(n)
      PROVE  BellTypeOK'
  <2>1. CASE Arrive(n) BY <2>1 DEF Arrive
  <2>2. CASE Announce(n) BY <2>2 DEF Announce
  <2>3. CASE AnnounceFails(n) BY <2>3 DEF AnnounceFails, MayFail, Unnoticed
  <2>4. CASE MarkElsewhere(n) BY <2>4 DEF MarkElsewhere, Unnoticed
  <2> QED BY <1>1, <2>1, <2>2, <2>3, <2>4
<1>2. CASE Deliver
  BY <1>2, InvalidateType DEF Deliver
<1>3. CASE Undelivered
  BY <1>3 DEF Undelivered, Unnoticed
<1>4. CASE OpenPanel
  <2>1. open' \in BOOLEAN /\ UNCHANGED <<inbox, read, sending, wire, ans, data, invalid, stage, marks, failures>>
    BY <1>4 DEF OpenPanel
  <2>2. fetch' \in [Query -> {"idle", "asked", "answered"}]
    BY <1>4 DEF OpenPanel, Fetch, Query
  <2>3. missed' \in SUBSET Query
    BY <1>4 DEF OpenPanel, Fetch
  <2> QED BY <2>1, <2>2, <2>3
<1>5. CASE ClosePanel
  BY <1>5 DEF ClosePanel
<1>6. ASSUME NEW q \in Query, Read(q) \/ Receive(q) \/ FetchFails(q) \/ Focus(q)
      PROVE  BellTypeOK'
  <2>1. CASE Read(q) BY <2>1 DEF Read, Unread
  <2>2. CASE Receive(q) BY <2>2 DEF Receive
  <2>3. CASE FetchFails(q) BY <2>3 DEF FetchFails, MayFail
  <2>4. CASE Focus(q) BY <2>4 DEF Focus, Fetch
  <2> QED BY <1>6, <2>1, <2>2, <2>3, <2>4
<1>7. ASSUME NEW c \in Click, SelectUnread(c) \/ CommitRead(c) \/ Replied(c) \/ ClickFails(c) \/ ClickAll(c)
      PROVE  BellTypeOK'
  <2>1. CASE SelectUnread(c) BY <2>1 DEF SelectUnread, Unread
  <2>2. CASE CommitRead(c) BY <2>2 DEF CommitRead
  <2>3. CASE Replied(c) BY <2>3, InvalidateType DEF Replied
  <2>4. CASE ClickFails(c) BY <2>4 DEF ClickFails, MayFail, Unnoticed
  <2>5. CASE ClickAll(c) BY <2>5 DEF ClickAll
  <2> QED BY <1>7, <2>1, <2>2, <2>3, <2>4, <2>5
<1>8. ASSUME NEW c \in Click, NEW n \in Note, ClickRow(c, n)
      PROVE  BellTypeOK'
  <2>1. n \in inbox
    BY <1>8 DEF ClickRow, Query
  <2> QED BY <1>8, <2>1 DEF ClickRow
<1>9. CASE UNCHANGED bell
  BY <1>9 DEF bell
<1> QED
  BY <1>1, <1>2, <1>3, <1>4, <1>5, <1>6, <1>7, <1>8, <1>9 DEF BellNext, TabStep, QueryStep, ClickStep

\* After an invalidation no cache is out of date without being excused.
LEMMA InvalidateFresh ==
  ASSUME BellTypeOK, Invalidate, NEW q \in Query, q \notin missed', fetch'[q] # "asked"
  PROVE  q = "list" /\ ~ open' /\ invalid' /\ fetch'[q] = "idle"
BY DEF BellTypeOK, Invalidate, Refetches, Enabled, Query

\* After a silent change everything but a request not yet read is marked.
LEMMA UnnoticedFresh ==
  ASSUME Unnoticed, NEW q \in Query, q \notin missed'
  PROVE  fetch[q] = "asked" /\ q \notin missed
BY DEF Unnoticed

\* Every step keeps Fresh.
LEMMA FreshStep ==
  ASSUME BellInv, [BellNext]_bell
  PROVE  Fresh'
<1> USE DEF BellInv, BellTypeOK
<1>1. ASSUME NEW n \in Note, Arrive(n) \/ Announce(n)
      PROVE  Fresh'
  BY <1>1 DEF Arrive, Announce, Fresh, Pending
<1>2. CASE \E n \in Note : AnnounceFails(n) \/ MarkElsewhere(n)
  BY <1>2, UnnoticedFresh DEF AnnounceFails, MarkElsewhere, Fresh
<1>3. CASE Deliver
  BY <1>3, InvalidateFresh DEF Deliver, Fresh, Excused
<1>4. CASE Undelivered
  BY <1>4, UnnoticedFresh DEF Undelivered, Fresh
<1>5. CASE OpenPanel
  <2>1. Pending' <=> Pending
    BY <1>5 DEF OpenPanel, Pending, table, clicks
  <2>2. Unread' = Unread
    BY <1>5 DEF OpenPanel, Unread, table
  <2>3. CASE fetch["list"] = "idle" /\ Fetch("list")
    BY <1>5, <2>1, <2>2, <2>3 DEF OpenPanel, Fetch, Fresh, Excused, Query
  <2>4. CASE /\ fetch["list"] # "idle" \/ (~ invalid /\ data["list"] # NoData)
             /\ UNCHANGED <<fetch, missed>>
    BY <1>5, <2>1, <2>2, <2>4 DEF OpenPanel, Fresh, Excused, Query
  <2> QED BY <1>5, <2>3, <2>4 DEF OpenPanel
<1>6. CASE ClosePanel
  <2>1. (Pending' <=> Pending) /\ Unread' = Unread
    BY <1>6 DEF ClosePanel, Pending, Unread, table, clicks
  <2> QED BY <1>6, <2>1 DEF ClosePanel, Fresh, Excused, Query
<1>7. ASSUME NEW q \in Query, Read(q) \/ Receive(q) \/ FetchFails(q) \/ Focus(q)
      PROVE  Fresh'
  <2>1. (Pending' <=> Pending) /\ Unread' = Unread
    BY <1>7 DEF Read, Receive, FetchFails, Focus, Pending, Unread, table, clicks
  <2>2. CASE Read(q) BY <2>1, <2>2 DEF Read, Fresh, Excused
  <2>3. CASE Receive(q) BY <2>1, <2>3 DEF Receive, Fresh, Excused
  <2>4. CASE FetchFails(q) BY <2>1, <2>4 DEF FetchFails, Fresh, Excused
  <2>5. CASE Focus(q) BY <2>1, <2>5 DEF Focus, Fetch, Fresh, Excused
  <2> QED BY <1>7, <2>2, <2>3, <2>4, <2>5
<1>8. ASSUME NEW c \in Click, CommitRead(c)
      PROVE  Fresh'
  BY <1>8 DEF CommitRead, Fresh, Pending
<1>9. ASSUME NEW c \in Click, Replied(c)
      PROVE  Fresh'
  BY <1>9, InvalidateFresh DEF Replied, Fresh, Excused
<1>10. ASSUME NEW c \in Click, ClickFails(c)
       PROVE  Fresh'
  <2>1. CASE stage[c] = "reply"
    BY <1>10, <2>1, UnnoticedFresh DEF ClickFails, Fresh
  <2>2. CASE stage[c] # "reply"
    <3>1. (Pending' <=> Pending) /\ Unread' = Unread
      BY <1>10, <2>2 DEF ClickFails, Pending, Unread, table
    <3> QED BY <1>10, <2>2, <3>1 DEF ClickFails, Fresh, Excused
  <2> QED BY <2>1, <2>2
<1>11. ASSUME NEW c \in Click, SelectUnread(c) \/ ClickAll(c) \/ \E n \in Note : ClickRow(c, n)
       PROVE  Fresh'
  <2>1. (Pending' <=> Pending) /\ Unread' = Unread
    BY <1>11 DEF SelectUnread, ClickAll, ClickRow, Pending, Unread, table
  <2> QED BY <1>11, <2>1 DEF SelectUnread, ClickAll, ClickRow, Fresh, Excused
<1>12. CASE UNCHANGED bell
  BY <1>12 DEF bell, table, clicks, Fresh, Excused, Pending, Unread
<1> QED
  BY <1>1, <1>2, <1>3, <1>4, <1>5, <1>6, <1>7, <1>8, <1>9, <1>10, <1>11, <1>12
     DEF BellNext, TabStep, QueryStep, ClickStep

\* Every step keeps Loaded and Answered.
LEMMA LoadedStep ==
  ASSUME BellInv, [BellNext]_bell
  PROVE  Loaded' /\ Answered'
<1> USE DEF BellInv, BellTypeOK, Query
<1>1. CASE \E n \in Note : Arrive(n) \/ Announce(n)
  BY <1>1 DEF Arrive, Announce, Loaded, Answered
<1>2. CASE Unnoticed /\ UNCHANGED <<open, fetch, ans, data, invalid>>
  BY <1>2 DEF Unnoticed, Loaded, Answered
<1>3. CASE Invalidate
  BY <1>3 DEF Invalidate, Refetches, Enabled, Loaded, Answered
<1>4. CASE OpenPanel \/ ClosePanel
  BY <1>4 DEF OpenPanel, ClosePanel, Fetch, Loaded, Answered
<1>5. ASSUME NEW q \in Query, Read(q) \/ Receive(q) \/ FetchFails(q) \/ Focus(q)
      PROVE  Loaded' /\ Answered'
  <2>1. CASE Read(q)
    <3>1. Unread \in SUBSET Note
      BY DEF Unread
    <3>2. Unread # NoData
      BY <3>1, NoDataAssumption
    <3> QED BY <2>1, <3>2 DEF Read, Loaded, Answered
  <2>2. CASE Receive(q) BY <2>2 DEF Receive, Loaded, Answered
  <2>3. CASE FetchFails(q) BY <2>3 DEF FetchFails, Loaded, Answered
  <2>4. CASE Focus(q) BY <2>4 DEF Focus, Fetch, Loaded, Answered
  <2> QED BY <1>5, <2>1, <2>2, <2>3, <2>4
<1>6. CASE UNCHANGED <<open, fetch, ans, data, invalid, missed>>
  BY <1>6 DEF Loaded, Answered
<1>7. CASE \E n \in Note : AnnounceFails(n) \/ MarkElsewhere(n)
  BY <1>2, <1>7 DEF AnnounceFails, MarkElsewhere
<1>8. CASE Deliver \/ Undelivered
  BY <1>2, <1>3, <1>8 DEF Deliver, Undelivered
<1>9. ASSUME NEW c \in Click, ClickStep(c) \/ ClickFails(c) \/ ClickAll(c) \/ \E n \in Note : ClickRow(c, n)
      PROVE  Loaded' /\ Answered'
  BY <1>2, <1>3, <1>6, <1>9
     DEF ClickStep, SelectUnread, CommitRead, Replied, ClickFails, ClickAll, ClickRow
<1>10. CASE UNCHANGED bell
  BY <1>6, <1>10 DEF bell
<1> QED
  BY <1>1, <1>4, <1>5, <1>7, <1>8, <1>9, <1>10 DEF BellNext, TabStep, QueryStep

\* The inductive invariant.
LEMMA BellInvariant == BellSpec => []BellInv
<1>1. BellInit => BellInv
  <2> SUFFICES ASSUME BellInit PROVE BellInv
    OBVIOUS
  <2>1. BellTypeOK
    BY DEF BellInit, BellTypeOK, Query
  <2>2. Fresh /\ Loaded /\ Answered
    BY DEF BellInit, Fresh, Loaded, Answered, Excused, Query
  <2> QED BY <2>1, <2>2 DEF BellInv
<1>2. BellInv /\ [BellNext]_bell => BellInv'
  BY BellTypeStep, FreshStep, LoadedStep DEF BellInv
<1> QED BY <1>1, <1>2, PTL DEF BellSpec

\* The state of the panel is well typed: in particular, no answer, cache or
\* click names a row that is not in the table.
THEOREM BellTypeCorrect == BellSpec => []BellTypeOK
<1>1. BellInv => BellTypeOK
  BY DEF BellInv
<1> QED BY <1>1, BellInvariant, PTL

\* Badge and open list show the table whenever nothing is on its way to the
\* tab and nothing was missed.
THEOREM PanelAlwaysShowsTable == BellSpec => []PanelShowsTable
<1>1. BellInv => PanelShowsTable
  BY DEF BellInv, Fresh, Loaded, Excused, PanelShowsTable, Enabled, Query
<1> QED BY <1>1, BellInvariant, PTL

-----------------------------------------------------------------------------
(* NotifiedUser.                                                           *)

\* The table of the bell is the part of the server's that is for the user.
InStep == inbox = rows \cap Note /\ sending = Sending \cap Note

\* The server goes on as it would without the tab.
LEMMA ServerGoesOn ==
  ASSUME [NotifiedNext]_<<vars, bell>>
  PROVE  [Next]_vars
<1>1. ASSUME NEW j \in Job, LoseMine(j) \/ \E d \in Dispatch : PublishMine(j, d)
      PROVE  Next
  BY <1>1 DEF LoseMine, PublishMine, Next, JobStep
<1>2. CASE ServerStep
  BY <1>2 DEF ServerStep, Next
<1> QED BY <1>1, <1>2 DEF NotifiedNext

LEMMA NotifiedIsServer == NotifiedSpec => Spec
<1>1. NotifiedInit => Init
  BY DEF NotifiedInit
<1>2. [NotifiedNext]_<<vars, bell>> => [Next]_vars
  BY ServerGoesOn
<1> QED BY <1>1, <1>2, PTL DEF NotifiedSpec, Spec

\* The steps of the tab are not the server's.
LEMMA TabLeavesTable ==
  ASSUME TabStep
  PROVE  UNCHANGED <<inbox, sending>>
<1>1. ASSUME NEW q \in Query, QueryStep(q) \/ FetchFails(q) \/ Focus(q)
      PROVE  UNCHANGED <<inbox, sending>>
  BY <1>1 DEF QueryStep, Read, Receive, FetchFails, Focus, table
<1>2. ASSUME NEW c \in Click, \/ ClickStep(c) \/ ClickFails(c) \/ ClickAll(c)
                              \/ \E n \in Note : ClickRow(c, n)
      PROVE  UNCHANGED <<inbox, sending>>
  BY <1>2 DEF ClickStep, SelectUnread, CommitRead, Replied, ClickFails, ClickAll, ClickRow, table
<1> QED
  BY <1>1, <1>2 DEF TabStep, MarkElsewhere, Deliver, Undelivered, OpenPanel, ClosePanel, table

\* Every step keeps them in step.
LEMMA InStepKept ==
  ASSUME InStep, [NotifiedNext]_<<vars, bell>>
  PROVE  InStep'
<1>1. CASE UserTable
  BY <1>1 DEF UserTable, InStep
<1>2. CASE UNCHANGED vars /\ UNCHANGED <<inbox, sending>>
  <2>1. UNCHANGED <<rows, Sending>>
    BY <1>2 DEF vars, sent, Sending
  <2> QED BY <1>2, <2>1 DEF InStep
<1> QED
  BY <1>1, <1>2, TabLeavesTable
     DEF NotifiedNext, LoseMine, PublishMine, ServerStep, bell, table

LEMMA AlwaysInStep == NotifiedSpec => []InStep
<1>1. NotifiedInit => InStep
  BY DEF NotifiedInit, Init, BellInit, InStep, Sending
<1>2. InStep /\ [NotifiedNext]_<<vars, bell>> => InStep'
  BY InStepKept
<1> QED BY <1>1, <1>2, PTL DEF NotifiedSpec

\* A job that settles the event of a row of the user has that row only.
LEMMA MineSettles ==
  ASSUME MyNotes, IInv, TypeOK', InStep, NEW j \in Job, Mine(j), JobStep(j) \/ JobFails(j), UNCHANGED rows,
         pc'[j] # "publish", UserTable
  PROVE  \E n \in Note : /\ n \in sending /\ sending' = sending \ {n} /\ inbox' = inbox
                         /\ \E d \in Dispatch : cur[j] = {d} /\ n = <<j, d>>
<1> TypeOK
  BY DEF IInv
<1>1. \A i \in Job : i # j => Same(i)
  BY OthersSame
<1>2. PICK d \in Dispatch : cur[j] = {d} /\ Feed!Settle(<<j, d>>)
  BY <1>1, FeedSettles DEF Mine
<1>3. <<j, d>> \in Note
  <2>1. d[2] = me
    BY <1>2 DEF Mine
  <2> QED BY <2>1 DEF MyNotes, RowId
<1>4. <<j, d>> \in Sending /\ Sending' = Sending \ {<<j, d>>}
  BY <1>2 DEF Feed!Settle
<1> QED BY <1>2, <1>3, <1>4 DEF InStep, UserTable

\* A step of the server is an arrival at the bell, or nothing to it.
LEMMA ServerStepArrives ==
  ASSUME MyNotes, IInv, TypeOK', InStep, ServerStep
  PROVE  UNCHANGED bell \/ \E n \in Note : Arrive(n)
<1> USE DEF InStep
<1>1. UserTable /\ UNCHANGED <<tab, wire, missed, failures>>
  BY DEF ServerStep
<1>2. ASSUME rows' \cap Note = rows \cap Note, Sending' \cap Note = Sending \cap Note
      PROVE  UNCHANGED bell
  <2>1. UNCHANGED <<inbox, sending>>
    BY <1>1, <1>2 DEF UserTable
  <2> QED BY <1>1, <2>1 DEF tab, bell, table
<1>3. ASSUME NEW n, Feed!Store(n) PROVE UNCHANGED bell \/ \E m \in Note : Arrive(m)
  <2>1. n \notin rows /\ rows' = rows \cup {n} /\ Sending' = Sending \cup {n}
    BY <1>3 DEF Feed!Store
  <2>2. CASE n \in Note
    <3>1. Arrive(n)
      BY <1>1, <2>1, <2>2 DEF UserTable, tab, clicks, Arrive
    <3> QED BY <2>2, <3>1
  <2>3. CASE n \notin Note
    BY <1>2, <2>1, <2>3
  <2> QED BY <2>2, <2>3
<1>4. ASSUME UNCHANGED Feed!vars PROVE UNCHANGED bell
  <2>1. rows' = rows /\ Sending' = Sending
    BY <1>4 DEF Feed!vars
  <2>2. rows' \cap Note = rows \cap Note /\ Sending' \cap Note = Sending \cap Note
    BY <2>1
  <2> QED BY <1>2, <2>2
<1>5. ASSUME NEW j \in Job, NEW d \in Dispatch, cur[j] = {d}, pc[j] = "publish", ~ Mine(j),
             Feed!Settle(<<j, d>>)
      PROVE  UNCHANGED bell
  <2>1. <<j, d>> \notin Note
    BY <1>5 DEF MyNotes, Mine
  <2>2. rows' = rows /\ Sending' = Sending \ {<<j, d>>}
    BY <1>5 DEF Feed!Settle
  <2>3. rows' \cap Note = rows \cap Note /\ Sending' \cap Note = Sending \cap Note
    BY <2>1, <2>2
  <2> QED BY <1>2, <2>3
<1>6. CASE Elsewhere
  BY <1>4, <1>6, ElsewhereFeed
<1>7. ASSUME NEW j \in Job, ~ Mine(j), Begin(j) \/ JobStep(j) \/ JobFails(j)
      PROVE  UNCHANGED bell \/ \E n \in Note : Arrive(n)
  BY <1>3, <1>4, <1>5, <1>7, JobFeed DEF JobFeeds
<1>8. ASSUME NEW j \in Job, Begin(j) PROVE ~ Mine(j)
  BY <1>8 DEF Begin, StartInvite, StartComment, StartReminders, Start, Mine
<1> QED BY <1>6, <1>7, <1>8 DEF ServerStep

\* Jobs that run, race and fail serve the bell of each of their users as
\* NotificationPanel takes it for granted: rows arrive once, events follow them.
THEOREM BellsAreServed ==
  ASSUME MyNotes
  PROVE  NotifiedSpec => BellIsServed
<1>1. NotifiedInit => BellInit
  BY DEF NotifiedInit
<1>2. IInv /\ InStep /\ [NotifiedNext]_<<vars, bell>> => [BellNext]_bell
  <2> SUFFICES ASSUME IInv, InStep, [NotifiedNext]_<<vars, bell>> PROVE [BellNext]_bell
    OBVIOUS
  <2>1. TypeOK'
    BY ServerGoesOn, TypeStep DEF IInv
  <2>2. ASSUME NEW j \in Job, NEW d \in Dispatch, PublishMine(j, d)
        PROVE  BellNext
    <3>1. Mine(j) /\ JobStep(j) /\ UNCHANGED rows /\ pc'[j] # "publish" /\ UserTable
      BY <2>2 DEF PublishMine, Publish, Goto, JobStep, IInv, TypeOK
    <3>2. PICK n \in Note : n \in sending /\ sending' = sending \ {n} /\ inbox' = inbox
      BY <2>1, <3>1, MineSettles
    <3>3. Announce(n)
      BY <2>2, <3>2 DEF PublishMine, tab, Announce
    <3> QED BY <3>3 DEF BellNext
  <2>3. ASSUME NEW j \in Job, LoseMine(j)
        PROVE  BellNext
    <3>1. Mine(j) /\ JobFails(j) /\ UNCHANGED rows /\ pc'[j] # "publish" /\ UserTable
      BY <2>3 DEF LoseMine, JobFails, Goto, sent, IInv, TypeOK
    <3>2. PICK n \in Note : n \in sending /\ sending' = sending \ {n} /\ inbox' = inbox
      BY <2>1, <3>1, MineSettles
    <3>3. AnnounceFails(n)
      BY <2>3, <3>2 DEF LoseMine, tab, AnnounceFails
    <3> QED BY <3>3 DEF BellNext
  <2>4. CASE ServerStep
    BY <2>1, <2>4, ServerStepArrives DEF BellNext
  <2> QED BY <2>2, <2>3, <2>4 DEF NotifiedNext, BellNext
<1>3. NotifiedSpec => []IInv
  BY NotifiedIsServer, Inductive
<1> QED BY <1>1, <1>2, <1>3, AlwaysInStep, PTL DEF NotifiedSpec, BellSpec, BellIsServed

\* What an uninterrupted comment, invitation or daily job has for a user is in
\* the user's badge once nothing is on its way to the tab, was read, or the tab
\* has missed something.
THEOREM BadgeAlwaysTells ==
  ASSUME MyNotes
  PROVE  NotifiedSpec => []BadgeTells
<1>1. EverybodyNotified /\ PanelShowsTable /\ InStep /\ TypeOK => BadgeTells
  <2> SUFFICES ASSUME EverybodyNotified, PanelShowsTable, InStep, TypeOK,
                      fetch["count"] = "idle", "count" \notin missed, ~ Pending,
                      NEW j \in Job, pc[j] = "done", NEW d \in wanted[j], d[2] = me,
                      ~ (kind[j] = "comment" /\ (me = author[j] \/ me \notin base[j]))
               PROVE  <<j, d>> \in data["count"] \cup read
    BY DEF BadgeTells
  <2>1. <<j, d>> \in rows /\ <<j, d>> \in RowId
    <3>1. d \in Dispatch
      BY DEF TypeOK
    <3>2. <<j, d>> \in published
      BY DEF EverybodyNotified, Complete
    <3> QED BY <3>1, <3>2 DEF TypeOK, RowId
  <2>2. <<j, d>> \in inbox
    BY <2>1 DEF MyNotes, InStep
  <2>3. data["count"] = inbox \ read
    BY DEF PanelShowsTable, Enabled, Query, Unread
  <2> QED BY <2>2, <2>3
<1>2. NotifiedSpec => [](EverybodyNotified /\ TypeOK)
  BY NotifiedIsServer, EverybodyIsNotified, TypeCorrect, PTL
<1>3. NotifiedSpec => []PanelShowsTable
  BY BellsAreServed, PanelAlwaysShowsTable DEF BellIsServed
<1> QED BY <1>1, <1>2, <1>3, AlwaysInStep, PTL
=============================================================================
