------------------------ MODULE NotificationFaultProofs ------------------------
(***************************************************************************)
(* What faults can and cannot do to the delivery of a notification.        *)
(*                                                                         *)
(* The first part says what a step may do to the outbox rows, the queue,   *)
(* the publishers, the tasks and the row of one notification (the lemmas   *)
(* named ...Fate); the second, that deadlines are carried by outbox rows,  *)
(* and that nothing is forgotten as long as no process dies and nobody     *)
(* intervenes (DriverInv); the third counts what may still start a call    *)
(* and shows that only faults pay for more of it (BudgetInv).              *)
(***************************************************************************)
EXTENDS NotificationAttemptProofs

(* The step that adds an outbox row for n. *)
Adds(n) ==
    \/ CreateNotification(n)
    \/ \E w \in Workers : RecordDeferred(w) /\ Target(w) = n
    \/ CommitRecovery /\ n \in stuck
    \/ \E s \in Sessions : (CommitRetry(s) \/ CommitReplay(s)) /\ session[s].notification = n

RowAdded(n) == \E timer \in Timers : outbox'[n] = Append(outbox[n], UnpublishedRow(timer))

(* A publisher writes into a row of n: its lease, or that it is published. *)
LeaseWritten(n) ==
    \E i \in Nat, lease \in Leases : outbox'[n] = [outbox[n] EXCEPT ![i].lease = lease]

PublishedWritten(n) ==
    \E p \in Publishers :
        /\ CommitPublished(p)
        /\ publisher[p].row[1] = n
        /\ outbox'[n] = [outbox[n] EXCEPT ![publisher[p].row[2]].published = TRUE,
                                          ![publisher[p].row[2]].lease = "none"]

-----------------------------------------------------------------------------
LEMMA AddStep ==
    ASSUME TypeInv, NEW m \in Notifications, NEW n \in Notifications, NEW timer \in Timers,
           AddOutboxRow(m, timer)
    PROVE  outbox'[n] = outbox[n] \/ (n = m /\ RowAdded(n))
<1>1. outbox \in [Notifications -> Seq(OutboxRows)]
  BY DEF TypeInv, TypeOK, StoreTypeOK
<1>2. CASE n = m
  <2>1. outbox'[n] = Append(outbox[n], UnpublishedRow(timer))
    BY <1>1, <1>2 DEF AddOutboxRow
  <2> QED BY <1>2, <2>1 DEF RowAdded
<1> QED BY <1>1, <1>2 DEF AddOutboxRow

(* What a step does to the outbox rows of one notification. *)
LEMMA OutboxFate ==
    ASSUME TypeInv, [Next]_vars, NEW n \in Notifications
    PROVE  \/ outbox'[n] = outbox[n]
           \/ Adds(n) /\ RowAdded(n)
           \/ LeaseWritten(n)
           \/ PublishedWritten(n)
<1>1. outbox \in [Notifications -> Seq(OutboxRows)]
  BY DEF TypeInv, TypeOK, StoreTypeOK
<1>2. ASSUME NEW m \in Notifications, CreateNotification(m)
      PROVE  outbox'[n] = outbox[n] \/ (Adds(n) /\ RowAdded(n))
  BY <1>2, AddStep, TimersType DEF CreateNotification, Adds
<1>3. ASSUME NEW s \in Sessions, Ending(s)
      PROVE  outbox'[n] = outbox[n] \/ (Adds(n) /\ RowAdded(n))
  <2>1. CASE CommitRetry(s) \/ CommitReplay(s)
    <3>1. session[s].notification \in Notifications
      BY <2>1 DEF CommitRetry, CommitReplay, TypeInv, SessionsHaveTargets
    <3>2. AddOutboxRow(session[s].notification, NoTimer)
      BY <2>1 DEF CommitRetry, CommitReplay
    <3>3. outbox'[n] = outbox[n] \/ (n = session[s].notification /\ RowAdded(n))
      BY <3>1, <3>2, AddStep, TimersType
    <3> QED BY <2>1, <3>3 DEF Adds
  <2>2. CASE CommitCancel(s) \/ CommitCallback(s) \/ DuplicateCallback(s)
    BY <2>2 DEF CommitCancel, CommitCallback, DuplicateCallback, storeVars, rows
  <2> QED BY <1>3, <2>1, <2>2 DEF Ending
<1>4. CASE RequestsNext
  <2>1. ASSUME NEW s \in Sessions, NEW m \in Notifications,
               \/ \E request \in Operations : BeginOperation(s, request, m)
               \/ \E event \in CallbackEvents : BeginCallback(s, event, m)
        PROVE  outbox' = outbox
    BY <2>1 DEF BeginOperation, BeginCallback, storeVars, rows
  <2> QED BY <1>2, <1>3, <1>4, <2>1 DEF RequestsNext
<1>5. CASE ReconcilerNext
  <2>1. CASE CommitRecovery
    BY <2>1, TimersType DEF CommitRecovery, Adds, RowAdded
  <2> QED BY <1>5, <2>1 DEF ReconcilerNext, ScanStuck, storeVars, rows
<1>6. CASE WorkerNext
  <2>1. ASSUME NEW w \in Workers, RecordDeferred(w)
        PROVE  outbox'[n] = outbox[n] \/ (Adds(n) /\ RowAdded(n))
    <3>1. Target(w) \in Notifications /\ worker[w].number \in Nat
      BY <2>1 DEF RecordDeferred, TypeInv, TasksHaveTargets, TypeOK, WorkerTypeOK, WorkerStates
    <3> QED BY <2>1, <3>1, AddStep, TimersType DEF RecordDeferred, Adds
  <2>2. ASSUME NEW w \in Workers, ~RecordDeferred(w),
               Receipt(w) \/ Processing(w) \/ AnswerLost(w) \/ CrashWorker(w)
        PROVE  outbox' = outbox
    BY <2>2 DEF Receipt, ReturnEarly, RefuseLease, Receive, AnswerLost, CrashWorker,
       Processing, Claim, StartCall, ProviderAnswers, RecordAccepted, RecordDeadLettered,
       RecordFailed, RecordConflict, Acknowledge, storeVars, rows
  <2>3. ASSUME NEW m \in Notifications, ExpireLease(m) PROVE outbox' = outbox
    BY <2>3 DEF ExpireLease
  <2> QED BY <1>6, <2>1, <2>2, <2>3 DEF WorkerNext
<1>7. ASSUME NEW r \in RowNames, NEW lease \in Leases, SetLease(r, lease)
      PROVE  outbox'[n] = outbox[n] \/ LeaseWritten(n)
  <2>1. r[1] \in Notifications /\ r[2] \in Nat
    BY DEF RowNames
  <2>2. CASE n = r[1]
    <3>1. outbox'[n] = [outbox[n] EXCEPT ![r[2]].lease = lease]
      BY <1>1, <1>7, <2>2 DEF SetLease
    <3> QED BY <2>1, <3>1 DEF LeaseWritten
  <2> QED BY <1>1, <1>7, <2>2 DEF SetLease
<1>8. CASE PublisherNext
  <2> USE DEF Leases
  <2>1. ASSUME NEW p \in Publishers, NEW r \in publisher[p].batch, LeaseRow(p, r)
        PROVE  outbox'[n] = outbox[n] \/ LeaseWritten(n)
    <3>1. r \in RowNames
      BY DEF TypeInv, TypeOK, PublisherTypeOK, PublisherStates
    <3> QED BY <1>7, <2>1, <3>1 DEF LeaseRow
  <2>2. ASSUME NEW p \in Publishers, EnqueueFails(p)
        PROVE  outbox'[n] = outbox[n] \/ LeaseWritten(n)
    <3>1. publisher[p].row \in RowNames
      BY <2>2 DEF EnqueueFails, TypeInv, PublishersHaveRows
    <3> QED BY <1>7, <2>2, <3>1 DEF EnqueueFails
  <2>3. ASSUME NEW p \in Publishers, CommitPublished(p)
        PROVE  outbox'[n] = outbox[n] \/ PublishedWritten(n)
    <3>1. publisher[p].row \in RowNames
      BY <2>3 DEF CommitPublished, TypeInv, PublishersHaveRows
    <3>2. publisher[p].row[1] \in Notifications
      BY <3>1 DEF RowNames
    <3>3. CASE n = publisher[p].row[1]
      <4>1. outbox'[n] = [outbox[n] EXCEPT ![publisher[p].row[2]].published = TRUE,
                                           ![publisher[p].row[2]].lease = "none"]
        BY <1>1, <2>3, <3>3 DEF CommitPublished
      <4> QED BY <2>3, <3>3, <4>1 DEF PublishedWritten
    <3> QED BY <1>1, <2>3, <3>2, <3>3 DEF CommitPublished
  <2>4. ASSUME NEW m \in Notifications, NEW i \in DOMAIN outbox[m], ExpireOutboxLease(<<m, i>>)
        PROVE  outbox'[n] = outbox[n] \/ LeaseWritten(n)
    <3>1. <<m, i>> \in RowNames
      BY <1>1 DEF RowNames
    <3> QED BY <1>7, <2>4, <3>1 DEF ExpireOutboxLease
  <2>5. ASSUME NEW p \in Publishers,
               SelectBatch(p) \/ Enqueue(p) \/ LoadNotification(p) \/ CrashPublisher(p)
        PROVE  outbox' = outbox
    BY <2>5 DEF SelectBatch, Enqueue, LoadNotification, CrashPublisher, storeVars, rows
  <2> QED BY <1>8, <2>1, <2>2, <2>3, <2>4, <2>5 DEF PublisherNext, Publishing, OutboxLeasesExpire
<1>9. CASE \/ UNCHANGED vars
           \/ \E m \in Notifications : TimePasses(m)
  BY <1>9 DEF TimePasses, vars, storeVars, rows
<1> QED BY <1>4, <1>5, <1>6, <1>8, <1>9 DEF Next

(* Columns of an outbox row. *)
LEMMA Columns ==
    ASSUME NEW row \in OutboxRows, NEW lease \in Leases
    PROVE  /\ [row EXCEPT !.lease = lease] \in OutboxRows
           /\ [row EXCEPT !.lease = lease].eta = row.eta
           /\ [row EXCEPT !.lease = lease].published = row.published
           /\ [row EXCEPT !.published = TRUE] \in OutboxRows
           /\ [row EXCEPT !.published = TRUE].eta = row.eta
           /\ [row EXCEPT !.published = TRUE].published
<1>1. /\ [row EXCEPT !.lease = lease] \in OutboxRows
      /\ [row EXCEPT !.lease = lease].eta = row.eta
      /\ [row EXCEPT !.published = TRUE] \in OutboxRows
      /\ [row EXCEPT !.published = TRUE].eta = row.eta
  BY DEF OutboxRows
<1>2. [row EXCEPT !.lease = lease].published = row.published
  BY DEF OutboxRows
<1>3. [row EXCEPT !.published = TRUE].published
  BY DEF OutboxRows
<1> QED BY <1>1, <1>2, <1>3

(* What becomes of one outbox row: it stays, with its deadline, and only   *)
(* the publisher that has it marks it published.                           *)
LEMMA OutboxRowFate ==
    ASSUME TypeInv, [Next]_vars, NEW n \in Notifications, NEW i \in DOMAIN outbox[n]
    PROVE  /\ i \in DOMAIN outbox'[n]
           /\ outbox'[n][i].eta = outbox[n][i].eta
           /\ outbox[n][i].published => outbox'[n][i].published
           /\ outbox'[n][i].published
                 => \/ outbox[n][i].published
                    \/ \E p \in Publishers : CommitPublished(p) /\ publisher[p].row = <<n, i>>
<1>1. outbox[n] \in Seq(OutboxRows) /\ outbox[n][i] \in OutboxRows /\ i \in Nat
  BY DEF TypeInv, TypeOK, StoreTypeOK
<1>2. CASE Adds(n) /\ RowAdded(n)
  BY <1>1, <1>2 DEF RowAdded
<1>3. CASE LeaseWritten(n)
  <2>1. PICK j \in Nat, lease \in Leases : outbox'[n] = [outbox[n] EXCEPT ![j].lease = lease]
    BY <1>3 DEF LeaseWritten
  <2>2. DOMAIN outbox'[n] = DOMAIN outbox[n]
    BY <2>1
  <2>3. outbox'[n][i] = IF i = j THEN [outbox[n][i] EXCEPT !.lease = lease] ELSE outbox[n][i]
    BY <2>1
  <2> QED BY <1>1, <2>2, <2>3, Columns
<1>4. CASE PublishedWritten(n)
  <2>1. PICK p \in Publishers :
            /\ CommitPublished(p) /\ publisher[p].row[1] = n
            /\ outbox'[n] = [outbox[n] EXCEPT ![publisher[p].row[2]].published = TRUE,
                                              ![publisher[p].row[2]].lease = "none"]
    BY <1>4 DEF PublishedWritten
  <2>2. DOMAIN outbox'[n] = DOMAIN outbox[n]
    BY <2>1
  <2>3. CASE i # publisher[p].row[2]
    <3>1. outbox'[n][i] = outbox[n][i]
      BY <2>1, <2>3
    <3> QED BY <2>2, <3>1
  <2>4. CASE i = publisher[p].row[2]
    <3> DEFINE marked == [outbox[n][i] EXCEPT !.published = TRUE]
    <3>1. marked \in OutboxRows /\ marked.eta = outbox[n][i].eta /\ marked.published
      BY <1>1, Columns DEF Leases
    <3>2. outbox'[n][i] = [marked EXCEPT !.lease = "none"]
      BY <2>1, <2>4
    <3> HIDE DEF marked
    <3>3. outbox'[n][i].eta = outbox[n][i].eta /\ outbox'[n][i].published
      BY <3>1, <3>2, Columns DEF Leases
    <3>4. publisher[p].row = <<n, i>>
      <4>1. publisher[p].row \in RowNames
        BY <2>1 DEF CommitPublished, TypeInv, PublishersHaveRows
      <4> QED BY <2>1, <2>4, <4>1 DEF RowNames
    <3> QED BY <2>1, <2>2, <3>3, <3>4
  <2> QED BY <2>3, <2>4
<1> QED BY <1>2, <1>3, <1>4, OutboxFate

(* Rows are added one at a time, unpublished. *)
LEMMA NewRowFate ==
    ASSUME TypeInv, [Next]_vars, NEW n \in Notifications,
           NEW i \in DOMAIN outbox'[n] \ DOMAIN outbox[n]
    PROVE  Adds(n) /\ i = Len(outbox[n]) + 1 /\ ~outbox'[n][i].published
<1>1. outbox[n] \in Seq(OutboxRows)
  BY DEF TypeInv, TypeOK, StoreTypeOK
<1>2. CASE LeaseWritten(n) \/ PublishedWritten(n)
  <2>1. DOMAIN outbox'[n] = DOMAIN outbox[n]
    BY <1>2 DEF LeaseWritten, PublishedWritten
  <2> QED BY <2>1
<1>3. CASE Adds(n) /\ RowAdded(n)
  <2>1. PICK timer \in Timers : outbox'[n] = Append(outbox[n], UnpublishedRow(timer))
    BY <1>3 DEF RowAdded
  <2> DEFINE new == UnpublishedRow(timer)
  <2>2. ~new.published
    BY DEF UnpublishedRow
  <2> HIDE DEF new
  <2>3. i = Len(outbox[n]) + 1 /\ outbox'[n][i] = new
    BY <1>1, <2>1 DEF new
  <2> QED BY <1>3, <2>2, <2>3
<1> QED BY <1>2, <1>3, OutboxFate

LEMMA AddedRow ==
    ASSUME TypeInv, NEW n \in Notifications, NEW timer \in Timers, AddOutboxRow(n, timer)
    PROVE  /\ Len(outbox[n]) + 1 \in DOMAIN outbox'[n] \ DOMAIN outbox[n]
           /\ outbox'[n][Len(outbox[n]) + 1].eta = timer
<1>1. outbox[n] \in Seq(OutboxRows)
  BY DEF TypeInv, TypeOK, StoreTypeOK
<1>2. outbox'[n] = Append(outbox[n], UnpublishedRow(timer))
  BY DEF AddOutboxRow, TypeInv, TypeOK, StoreTypeOK
<1> DEFINE new == UnpublishedRow(timer)
<1>3. new.eta = timer
  BY DEF UnpublishedRow
<1> HIDE DEF new
<1>4. /\ Len(outbox[n]) + 1 \in DOMAIN outbox'[n] \ DOMAIN outbox[n]
      /\ outbox'[n][Len(outbox[n]) + 1] = new
  BY <1>1, <1>2 DEF new
<1> QED BY <1>3, <1>4

-----------------------------------------------------------------------------
(* What a step does to the messages, the publishers and the tasks.         *)
Takes(w, m) == ReturnEarly(w, m) \/ RefuseLease(w, m) \/ Receive(w, m)

LEMMA MessageFate ==
    ASSUME TypeInv, [Next]_vars, NEW m \in Messages
    PROVE  \/ broker'[m] = broker[m]
           \/ /\ broker'[m] = broker[m] - 1
              /\ \E w \in Workers : Takes(w, m)
           \/ /\ broker'[m] = broker[m] + 1
              /\ \/ \E p \in Publishers : Enqueue(p) /\ RowMessage(publisher[p].row) = m
                 \/ \E w \in Workers : CrashWorker(w) /\ worker[w].message = m
<1>1. broker \in [Messages -> Nat]
  BY DEF TypeInv, TypeOK, StoreTypeOK
<1>2. ASSUME NEW w \in Workers, NEW k \in Messages, Takes(w, k)
      PROVE  \/ broker'[m] = broker[m]
             \/ broker'[m] = broker[m] - 1 /\ Takes(w, m)
  BY <1>1, <1>2 DEF Takes, ReturnEarly, RefuseLease, Receive, Take
<1>3. ASSUME NEW w \in Workers, CrashWorker(w)
      PROVE  \/ broker'[m] = broker[m]
             \/ broker'[m] = broker[m] + 1 /\ worker[w].message = m
  BY <1>1, <1>3 DEF CrashWorker
<1>4. ASSUME NEW p \in Publishers, Enqueue(p)
      PROVE  \/ broker'[m] = broker[m]
             \/ broker'[m] = broker[m] + 1 /\ RowMessage(publisher[p].row) = m
  BY <1>1, <1>4 DEF Enqueue
<1>5. ASSUME NEW w \in Workers, Processing(w) \/ AnswerLost(w)
      PROVE  broker' = broker
  BY <1>5 DEF Processing, Claim, StartCall, ProviderAnswers, AnswerLost, RecordAccepted,
     RecordDeferred, RecordDeadLettered, RecordFailed, RecordOutcome, RecordConflict,
     Acknowledge, storeVars
<1>6. CASE WorkerNext
  BY <1>2, <1>3, <1>5, <1>6 DEF WorkerNext, Receipt, Takes, ExpireLease
<1>7. CASE PublisherNext
  BY <1>4, <1>7 DEF PublisherNext, Publishing, SelectBatch, LeaseRow, EnqueueFails,
     LoadNotification, CommitPublished, CrashPublisher, OutboxLeasesExpire, ExpireOutboxLease,
     storeVars
<1>8. CASE RequestsNext \/ ReconcilerNext
  BY <1>8 DEF RequestsNext, CreateNotification, BeginOperation, BeginCallback, Ending, CommitCancel,
     CommitRetry, CommitReplay, CommitCallback, DuplicateCallback, ReconcilerNext, ScanStuck,
     CommitRecovery, storeVars
<1>9. CASE UNCHANGED vars \/ \E n \in Notifications : TimePasses(n)
  BY <1>9 DEF TimePasses, vars, storeVars
<1> QED BY <1>6, <1>7, <1>8, <1>9 DEF Next

(* What a step does to one publisher. *)
Selected(p) == SelectBatch(p) /\ publisher'[p].stage = "selected" /\ publisher'[p].batch = Selectable

Leased(p) ==
    \E r \in publisher[p].batch :
        /\ LeaseRow(p, r)
        /\ publisher'[p].stage = "leased" /\ publisher'[p].row = r
        /\ publisher'[p].batch = publisher[p].batch \ {r}

Advanced(p) ==
    /\ \/ Enqueue(p) /\ publisher'[p].stage = "enqueued"
       \/ publisher[p].stage = "enqueued" /\ publisher'[p].stage = "loaded"
    /\ publisher'[p].row = publisher[p].row
    /\ publisher'[p].batch = publisher[p].batch

Left(p) ==
    /\ EnqueueFails(p) \/ CommitPublished(p) \/ CrashPublisher(p)
    /\ publisher'[p].stage \in {"idle", "selected"}
    /\ publisher'[p].batch \subseteq publisher[p].batch

LEMMA PublisherFate ==
    ASSUME TypeInv, [Next]_vars, NEW p \in Publishers
    PROVE  publisher'[p] = publisher[p] \/ Selected(p) \/ Leased(p) \/ Advanced(p) \/ Left(p)
<1>1. publisher \in [Publishers -> PublisherStates]
  BY DEF TypeInv, TypeOK, PublisherTypeOK
<1>2. ASSUME NEW q \in Publishers, Publishing(q) \/ CrashPublisher(q), q # p
      PROVE  publisher'[p] = publisher[p]
  BY <1>1, <1>2 DEF Publishing, SelectBatch, LeaseRow, Enqueue, EnqueueFails, LoadNotification,
     CommitPublished, CrashPublisher, NextRow
<1>3. SelectBatch(p) => Selected(p)
  BY <1>1 DEF SelectBatch, Selected, PublisherStates
<1>4. ASSUME NEW r \in publisher[p].batch, LeaseRow(p, r) PROVE Leased(p)
  BY <1>1, <1>4 DEF LeaseRow, Leased, PublisherStates
<1>5. Enqueue(p) => Advanced(p)
  BY <1>1 DEF Enqueue, Advanced, PublisherStates
<1>6. LoadNotification(p) => Advanced(p)
  BY <1>1 DEF LoadNotification, Advanced, PublisherStates
<1>7. ASSUME NEW seen, NEW status, NextRow(p, seen, status)
      PROVE  /\ publisher'[p].stage \in {"idle", "selected"}
             /\ publisher'[p].batch \subseteq publisher[p].batch
  <2>1. CASE publisher[p].batch = {}
    BY <1>1, <1>7, <2>1 DEF NextRow, IdlePublisher
  <2>2. CASE publisher[p].batch # {}
    BY <1>1, <1>7, <2>2 DEF NextRow
  <2> QED BY <2>1, <2>2
<1>8. EnqueueFails(p) \/ CommitPublished(p) => Left(p)
  BY <1>7 DEF EnqueueFails, CommitPublished, Left
<1>9. CrashPublisher(p) => Left(p)
  BY <1>1 DEF CrashPublisher, Left, IdlePublisher
<1>10. CASE PublisherNext
  <2>1. ASSUME NEW q \in Publishers, Publishing(q) \/ CrashPublisher(q)
        PROVE  publisher'[p] = publisher[p] \/ Selected(p) \/ Leased(p) \/ Advanced(p) \/ Left(p)
    BY <1>2, <1>3, <1>4, <1>5, <1>6, <1>8, <1>9, <2>1 DEF Publishing
  <2> QED BY <1>10, <2>1 DEF PublisherNext, OutboxLeasesExpire, ExpireOutboxLease
<1> QED BY <1>10 DEF Next, vars

(* A task under way after a step was under way before, or took a message. *)
LEMMA TaskFate ==
    ASSUME TypeInv, [Next]_vars, NEW w \in Workers, worker'[w].stage # "idle"
    PROVE  \/ worker[w].stage # "idle" /\ worker'[w].message = worker[w].message
           \/ \E m \in Messages : Receive(w, m) /\ worker'[w].message = m
<1>1. worker \in [Workers -> WorkerStates]
  BY DEF TypeInv, TypeOK, WorkerTypeOK
<1>2. ASSUME NEW v \in Workers, v # w,
             Receipt(v) \/ AnswerLost(v) \/ CrashWorker(v) \/ Processing(v)
      PROVE  worker'[w] = worker[w]
  BY <1>1, <1>2 DEF Receipt, ReturnEarly, RefuseLease, Receive, AnswerLost, CrashWorker,
     Processing, Claim, StartCall, ProviderAnswers, RecordAccepted, RecordDeferred,
     RecordDeadLettered, RecordFailed, RecordOutcome, RecordConflict, Acknowledge, Finish
<1>3. CASE Receipt(w)
  <2>1. ASSUME NEW m \in Messages, Receive(w, m) PROVE worker'[w].message = m
    BY <1>1, <2>1 DEF Receive, WorkerStates
  <2> QED BY <1>3, <2>1 DEF Receipt, ReturnEarly, RefuseLease
<1>4. CASE Claim(w) \/ StartCall(w) \/ AnswerLost(w) \/ \E result \in Results : ProviderAnswers(w, result)
  <2>1. worker[w].stage # "idle"
    BY <1>4 DEF Claim, StartCall, AnswerLost, ProviderAnswers
  <2>2. worker'[w].message = worker[w].message
    BY <1>1, <1>4 DEF Claim, StartCall, AnswerLost, ProviderAnswers, WorkerStates
  <2> QED BY <2>1, <2>2
<1>5. CASE \/ RecordAccepted(w) \/ RecordDeferred(w) \/ RecordDeadLettered(w)
           \/ RecordFailed(w) \/ RecordConflict(w)
  <2>1. worker[w].stage # "idle" /\ Finish(w)
    BY <1>5 DEF RecordAccepted, RecordDeferred, RecordDeadLettered, RecordFailed, RecordOutcome,
       RecordConflict
  <2>2. worker'[w].message = worker[w].message
    BY <1>1, <2>1 DEF Finish, IdleWorker
  <2> QED BY <2>1, <2>2
<1>6. CASE Acknowledge(w) \/ CrashWorker(w)
  BY <1>1, <1>6 DEF Acknowledge, CrashWorker, IdleWorker
<1>7. CASE UNCHANGED worker
  BY <1>7
<1>8. CASE WorkerNext
  BY <1>2, <1>3, <1>4, <1>5, <1>6, <1>7, <1>8 DEF WorkerNext, Processing, ExpireLease
<1> QED BY <1>7, <1>8 DEF Next, vars

-----------------------------------------------------------------------------
(* Nothing concerns a notification that was not submitted, and a submitted *)
(* one has the outbox row of its submission.                               *)
Touched(n) ==
    \/ DOMAIN outbox[n] # {}
    \/ attempts[n] # {}
    \/ \E timer \in Timers : broker[Message(n, timer)] > 0
    \/ \E w \in Workers : worker[w].stage # "idle" /\ Target(w) = n
    \/ n \in stuck
    \/ \E s \in Sessions : session[s].request # "none" /\ session[s].notification = n

Exists(r) == r[2] \in DOMAIN outbox[r[1]]

RowsExist ==
    \A p \in Publishers :
        /\ \A r \in publisher[p].batch : Exists(r)
        /\ publisher[p].stage \in {"leased", "enqueued", "loaded"} => Exists(publisher[p].row)

Submitted(n) == \E i \in DOMAIN outbox[n] : outbox[n][i].eta = ScheduledAt(n)

SubmitInv ==
    /\ StatusInv
    /\ RowsExist
    /\ \A n \in Notifications :
          /\ Touched(n) => notif[n].status # "absent"
          /\ notif[n].status # "absent" => Submitted(n)

LEMMA RowsStayThere ==
    ASSUME TypeInv, [Next]_vars, NEW r \in RowNames, Exists(r)
    PROVE  Exists(r)'
<1>1. r[1] \in Notifications
  BY DEF RowNames
<1> QED BY <1>1, OutboxRowFate DEF Exists

LEMMA RowsExistStep ==
    ASSUME TypeInv, RowsExist, [Next]_vars
    PROVE  RowsExist'
<1>1. TypeInv /\ TypeInv'
  BY TypeStep
<1>2. ASSUME NEW p \in Publishers, NEW r \in publisher'[p].batch
      PROVE  r \in RowNames /\ Exists(r)
  <2>1. r \in RowNames
    BY <1>1 DEF TypeInv, TypeOK, PublisherTypeOK, PublisherStates
  <2>2. CASE Selected(p)
    <3>1. r \in UNION {{<<n, i>> : i \in {j \in DOMAIN outbox[n] : SelectableRow(outbox[n][j])}} :
                           n \in Notifications}
      BY <2>2, <1>2 DEF Selected, Selectable
    <3>2. PICK n \in Notifications, i \in Nat : r = <<n, i>> /\ i \in DOMAIN outbox[n]
      BY <3>1, <1>1 DEF TypeInv, TypeOK, StoreTypeOK
    <3> QED BY <2>1, <3>2 DEF Exists
  <2>3. CASE publisher'[p] = publisher[p] \/ Leased(p) \/ Advanced(p) \/ Left(p)
    <3>1. r \in publisher[p].batch
      BY <2>3, <1>2 DEF Leased, Advanced, Left
    <3> QED BY <2>1, <3>1 DEF RowsExist
  <2> QED BY <2>1, <2>2, <2>3, PublisherFate
<1>3. ASSUME NEW p \in Publishers, publisher'[p].stage \in {"leased", "enqueued", "loaded"}
      PROVE  publisher'[p].row \in RowNames /\ Exists(publisher'[p].row)
  <2>1. publisher'[p].row \in RowNames
    BY <1>1, <1>3 DEF TypeInv, PublishersHaveRows
  <2>2. CASE publisher'[p] = publisher[p] \/ Advanced(p)
    BY <2>1, <2>2, <1>3 DEF RowsExist, Advanced, Enqueue
  <2>3. CASE Leased(p)
    BY <2>1, <2>3 DEF RowsExist, Leased
  <2> QED BY <1>3, <2>1, <2>2, <2>3, PublisherFate DEF Selected, Left
<1> QED BY <1>2, <1>3, RowsStayThere DEF RowsExist, Exists

LEMMA TouchedStep ==
    ASSUME SubmitInv, [Next]_vars, NEW n \in Notifications, Touched(n)'
    PROVE  Touched(n) \/ notif[n].status # "absent" \/ CreateNotification(n)
<1>1. TypeInv /\ TypeInv' /\ RowsExist
  BY TypeStep DEF SubmitInv, StatusInv, AttemptInv
<1>2. ASSUME NEW p \in Publishers, publisher[p].stage \in {"leased", "enqueued", "loaded"},
             publisher[p].row[1] = n
      PROVE  Touched(n)
  BY <1>1, <1>2 DEF RowsExist, Exists, Touched
<1>3. CASE DOMAIN outbox'[n] # {}
  <2>1. PICK i \in DOMAIN outbox'[n] : TRUE
    BY <1>3
  <2>2. CASE i \notin DOMAIN outbox[n]
    <3>1. Adds(n)
      BY <1>1, <2>1, <2>2, NewRowFate
    <3>2. ASSUME NEW w \in Workers, RecordDeferred(w) PROVE worker[w].stage # "idle"
      BY <3>2 DEF RecordDeferred
    <3>3. ASSUME NEW s \in Sessions, CommitRetry(s) \/ CommitReplay(s)
          PROVE  session[s].request # "none"
      BY <3>3 DEF CommitRetry, CommitReplay
    <3> QED BY <3>1, <3>2, <3>3 DEF Adds, Touched
  <2> QED BY <2>1, <2>2 DEF Touched
<1>4. CASE attempts'[n] # {}
  <2>1. ASSUME NEW w \in Workers, Records(w), Target(w) # n PROVE attempts'[n] = attempts[n]
    BY <2>1, <1>1 DEF Records, TypeInv, TypeOK, StoreTypeOK
  <2>2. ASSUME NEW w \in Workers, Records(w), Target(w) = n PROVE Touched(n)
    BY <2>2 DEF Records, Touched
  <2> QED BY <1>4, <2>1, <2>2, AttemptsStep DEF Touched
<1>5. ASSUME NEW timer \in Timers, broker'[Message(n, timer)] > 0 PROVE Touched(n)
  <2>1. Message(n, timer) \in Messages /\ Message(n, timer).notification = n
    BY DEF Message, Messages
  <2>2. broker[Message(n, timer)] \in Nat /\ broker'[Message(n, timer)] \in Nat
    BY <1>1, <2>1 DEF TypeInv, TypeOK, StoreTypeOK
  <2>3. CASE broker[Message(n, timer)] > 0
    BY <2>3 DEF Touched
  <2>4. ASSUME NEW p \in Publishers, Enqueue(p), RowMessage(publisher[p].row) = Message(n, timer)
        PROVE  Touched(n)
    BY <1>2, <2>1, <2>4 DEF Enqueue, RowMessage, Message
  <2>5. ASSUME NEW w \in Workers, CrashWorker(w), worker[w].message = Message(n, timer)
        PROVE  Touched(n)
    BY <2>1, <2>5 DEF CrashWorker, Touched, Target
  <2> QED BY <1>1, <1>5, <2>1, <2>2, <2>3, <2>4, <2>5, MessageFate
<1>6. ASSUME NEW w \in Workers, worker'[w].stage # "idle", Target(w)' = n PROVE Touched(n)
  <2>1. CASE worker[w].stage # "idle" /\ worker'[w].message = worker[w].message
    BY <1>6, <2>1 DEF Target, Touched
  <2>2. ASSUME NEW m \in Messages, Receive(w, m), worker'[w].message = m
        PROVE  Touched(n)
    <3>1. m = Message(n, m.eta) /\ m.eta \in Timers
      BY <1>6, <2>2 DEF Messages, Message, Target
    <3> QED BY <2>2, <3>1 DEF Receive, Receivable, Touched
  <2> QED BY <1>1, <1>6, <2>1, <2>2, TaskFate
<1>7. CASE n \in stuck'
  <2>1. CASE stuck' = stuck
    BY <1>7, <2>1 DEF Touched
  <2>2. CASE ReconcilerNext
    BY <1>7, <2>2 DEF ReconcilerNext, ScanStuck, CommitRecovery, IsStuck
  <2> QED BY <2>1, <2>2 DEF Next, vars
<1>8. ASSUME NEW s \in Sessions, session'[s].request # "none", session'[s].notification = n
      PROVE  Touched(n) \/ notif[n].status # "absent"
  <2>1. session \in [Sessions -> SessionStates]
    BY <1>1 DEF TypeInv, TypeOK, SessionTypeOK
  <2>2. CASE session'[s] = session[s]
    BY <1>8, <2>2 DEF Touched
  <2>3. ASSUME NEW t \in Sessions, Ending(t) PROVE session'[s] = session[s] \/ session'[s] = IdleSession
    BY <2>1, <2>3 DEF Ending, CommitCancel, CommitRetry, CommitReplay, CommitCallback,
       DuplicateCallback, EndRequest
  <2>4. ASSUME NEW t \in Sessions, NEW m \in Notifications, NEW request, Load(t, request, m)
        PROVE  session'[s] = session[s] \/ session'[s].notification = m
    BY <2>1, <2>4 DEF Load
  <2>5. ASSUME NEW t \in Sessions, NEW m \in Notifications, NEW request \in Operations,
               BeginOperation(t, request, m)
        PROVE  session'[s] = session[s] \/ notif[n].status # "absent"
    BY <1>8, <2>4, <2>5
    DEF BeginOperation, Permitted, Cancellable, Retryable, Replayable
  <2>6. ASSUME NEW t \in Sessions, NEW m \in Notifications, NEW event \in CallbackEvents,
               BeginCallback(t, event, m)
        PROVE  session'[s] = session[s] \/ attempts[n] # {}
    BY <1>8, <2>4, <2>6 DEF BeginCallback, KnownToProvider
  <2>7. CASE RequestsNext
    BY <1>8, <2>2, <2>3, <2>5, <2>6, <2>7
    DEF RequestsNext, CreateNotification, IdleSession, Touched
  <2> QED BY <2>2, <2>7 DEF Next, vars
<1> QED BY <1>3, <1>4, <1>5, <1>6, <1>7, <1>8 DEF Touched

-----------------------------------------------------------------------------
(* What a step does to the row of one notification, column by column.      *)
SameLease(n) == notif'[n].lease = notif[n].lease

SameNext(n) == notif'[n].next = notif[n].next

Claimed(n) ==
    /\ \E w \in Workers : Claim(w) /\ Target(w) = n
    /\ notif'[n].status \in {notif[n].status, "processing"}
    /\ notif'[n].lease = "live" /\ SameNext(n)

Outcome(w) ==
    RecordAccepted(w) \/ RecordDeferred(w) \/ RecordDeadLettered(w) \/ RecordFailed(w)

Recorded(n) ==
    /\ notif'[n].lease = "none"
    /\ \E w \in Workers :
          /\ Target(w) = n
          /\ \/ /\ RecordAccepted(w) /\ notif'[n].status = "sent"
                /\ SameNext(n) \/ notif'[n].next = NoTimer
             \/ /\ RecordDeferred(w) /\ notif'[n].status = "deferred"
                /\ notif'[n].next = Backoff(worker[w].number)
             \/ /\ RecordDeadLettered(w) /\ notif'[n].status = "dead_lettered" /\ SameNext(n)
             \/ /\ RecordFailed(w) /\ notif'[n].status = "failed" /\ SameNext(n)

Expired(n) ==
    /\ ExpireLease(n) /\ notif[n].lease = "live" /\ notif'[n].lease = "expired"
    /\ notif'[n].status = notif[n].status /\ SameNext(n)

Queued(n) ==
    /\ \E p \in Publishers : CommitPublished(p) /\ publisher[p].row[1] = n
    /\ notif'[n].status = "queued" /\ SameLease(n) /\ SameNext(n)

Recovered(n) ==
    /\ CommitRecovery /\ n \in stuck
    /\ notif'[n].status = "queued" /\ notif'[n].lease = "none" /\ SameNext(n)

Operated(n) ==
    /\ \E s \in Sessions : session[s].notification = n /\ session[s].request \in Operations
    /\ notif'[n].status \in {"queued", "cancelled"}
    /\ SameLease(n) \/ notif'[n].lease = "none"
    /\ SameNext(n) \/ notif'[n].next = NoTimer

Reported(n) ==
    /\ \E s \in Sessions : session[s].notification = n /\ session[s].request \in ProviderEvents
    /\ notif'[n].status \in {"sent", "delivered", "deferred", "failed"}
    /\ SameLease(n) /\ SameNext(n)

Created(n) ==
    /\ CreateNotification(n)
    /\ notif'[n].status = "accepted" /\ SameLease(n) /\ SameNext(n)

LEMMA RowFate ==
    ASSUME TypeInv, [Next]_vars, NEW n \in Notifications
    PROVE  \/ notif'[n] = notif[n] \/ Created(n)
           \/ Claimed(n) \/ Recorded(n) \/ Expired(n)
           \/ Queued(n) \/ Recovered(n)
           \/ Operated(n) \/ Reported(n)
<1> USE DEF SameLease, SameNext
<1>1. notif \in [Notifications -> Rows] /\ notif[n] \in Rows
  BY DEF TypeInv, TypeOK, StoreTypeOK
<1>2. ASSUME NEW status
      PROVE  /\ [notif[n] EXCEPT !.status = status].status = status
             /\ [notif[n] EXCEPT !.status = status].lease = notif[n].lease
             /\ [notif[n] EXCEPT !.status = status].next = notif[n].next
  BY <1>1 DEF Rows
<1>3. ASSUME NEW m \in Notifications, NEW status, notif' = [notif EXCEPT ![m].status = status]
      PROVE  \/ notif'[n] = notif[n]
             \/ n = m /\ notif'[n].status = status /\ SameLease(n) /\ SameNext(n)
  <2>1. CASE n = m
    <3>1. notif'[n] = [notif[n] EXCEPT !.status = status]
      BY <1>1, <1>3, <2>1
    <3> QED BY <1>2, <2>1, <3>1
  <2> QED BY <1>1, <1>3, <2>1
<1>4. ASSUME NEW m \in Notifications, CreateNotification(m)
      PROVE  notif'[n] = notif[n] \/ Created(n)
  <2>1. notif' = [notif EXCEPT ![m].status = "accepted"]
    BY <1>4 DEF CreateNotification
  <2> QED BY <1>3, <1>4, <2>1 DEF Created
<1>5. ASSUME NEW w \in Workers, Claim(w) PROVE notif'[n] = notif[n] \/ Claimed(n)
  <2>1. Target(w) \in Notifications /\ worker[w].loaded \in Rows
    BY <1>5 DEF Claim, TypeInv, TasksHaveTargets, TypeOK, WorkerTypeOK, WorkerStates
  <2>2. CASE n = Target(w)
    <3>1. notif'[n] = ClaimedRow(notif[n], worker[w].loaded)
      BY <1>1, <1>5, <2>2 DEF Claim
    <3>2. ClaimedRow(notif[n], worker[w].loaded).next = notif[n].next
      BY <1>1 DEF ClaimedRow, Rows
    <3> QED BY <1>1, <1>5, <2>1, <2>2, <3>1, <3>2, ClaimedRowColumns DEF Claimed
  <2> QED BY <1>1, <1>5, <2>2 DEF Claim
<1>6. ASSUME NEW w \in Workers, Outcome(w) PROVE notif'[n] = notif[n] \/ Recorded(n)
  <2>1. ASSUME NEW status, NEW next, RecordOutcome(w, status, next)
        PROVE  \/ notif'[n] = notif[n]
               \/ /\ Target(w) = n /\ notif'[n].status = status
                  /\ notif'[n].next = next /\ notif'[n].lease = "none"
    <3>1. CASE n = Target(w)
      <4>1. notif'[n] = [status |-> status, next |-> next, lease |-> "none"]
        BY <1>1, <2>1, <3>1 DEF RecordOutcome
      <4> QED BY <3>1, <4>1
    <3> QED BY <1>1, <2>1, <3>1 DEF RecordOutcome
  <2>2. CASE RecordAccepted(w)
    BY <2>1, <2>2 DEF RecordAccepted, Recorded
  <2>3. CASE RecordDeferred(w)
    BY <2>1, <2>3 DEF RecordDeferred, Recorded
  <2>4. CASE RecordDeadLettered(w)
    BY <2>1, <2>4 DEF RecordDeadLettered, Recorded
  <2>5. CASE RecordFailed(w)
    BY <2>1, <2>5 DEF RecordFailed, Recorded
  <2> QED BY <1>6, <2>2, <2>3, <2>4, <2>5 DEF Outcome
<1>7. ASSUME NEW m \in Notifications, ExpireLease(m) PROVE notif'[n] = notif[n] \/ Expired(n)
  <2>1. CASE n = m
    <3>1. notif'[n] = [notif[n] EXCEPT !.lease = "expired"]
      BY <1>1, <1>7, <2>1 DEF ExpireLease
    <3>2. notif'[n].lease = "expired" /\ notif'[n].status = notif[n].status /\ SameNext(n)
      BY <1>1, <3>1 DEF Rows
    <3>3. notif[n].lease = "live"
      BY <1>7, <2>1 DEF ExpireLease
    <3> QED BY <1>7, <2>1, <3>2, <3>3 DEF Expired
  <2> QED BY <1>1, <1>7, <2>1 DEF ExpireLease
<1>8. CASE WorkerNext
  <2>1. ASSUME NEW w \in Workers, ~Claim(w), ~Outcome(w),
               Receipt(w) \/ Processing(w) \/ AnswerLost(w) \/ CrashWorker(w)
        PROVE  notif' = notif
    BY <2>1 DEF Receipt, ReturnEarly, RefuseLease, Receive, Processing, Outcome, StartCall,
       ProviderAnswers, RecordConflict, Acknowledge, AnswerLost, CrashWorker, storeVars, rows
  <2> QED BY <1>5, <1>6, <1>7, <1>8, <2>1 DEF WorkerNext
<1>9. CASE PublisherNext
  <2>1. ASSUME NEW p \in Publishers, CommitPublished(p) PROVE notif'[n] = notif[n] \/ Queued(n)
    <3>1. publisher[p].row[1] \in Notifications
      BY <2>1 DEF CommitPublished, TypeInv, PublishersHaveRows, RowNames
    <3> QED BY <1>3, <2>1, <3>1 DEF CommitPublished, Queued
  <2>2. ASSUME NEW p \in Publishers, ~CommitPublished(p), Publishing(p) \/ CrashPublisher(p)
        PROVE  notif' = notif
    BY <2>2 DEF Publishing, SelectBatch, LeaseRow, Enqueue, EnqueueFails, LoadNotification,
       CrashPublisher, storeVars, rows
  <2> QED BY <1>9, <2>1, <2>2 DEF PublisherNext, OutboxLeasesExpire, ExpireOutboxLease
<1>10. CASE ReconcilerNext
  <2>1. CASE CommitRecovery
    <3>1. CASE n \in stuck
      <4>1. notif'[n] = [notif[n] EXCEPT !.status = "queued", !.lease = "none"]
        BY <2>1, <3>1 DEF CommitRecovery
      <4>2. notif'[n].status = "queued" /\ notif'[n].lease = "none" /\ SameNext(n)
        BY <1>1, <4>1 DEF Rows
      <4> QED BY <2>1, <3>1, <4>2 DEF Recovered
    <3> QED BY <2>1, <3>1 DEF CommitRecovery
  <2> QED BY <1>10, <2>1 DEF ReconcilerNext, ScanStuck, storeVars, rows
<1>11. ASSUME NEW s \in Sessions, Ending(s)
       PROVE  notif'[n] = notif[n] \/ Operated(n) \/ Reported(n)
  <2>1. session[s].request # "none" => session[s].notification \in Notifications
    BY DEF TypeInv, SessionsHaveTargets
  <2>2. CASE CommitCancel(s)
    BY <1>3, <2>1, <2>2 DEF CommitCancel, Operated, Operations
  <2>3. CASE CommitRetry(s)
    <3>1. CASE n = session[s].notification
      <4>1. notif'[n] = [status |-> "queued",
                         next |-> Cleared(notif[n].next, session[s].loaded.next, NoTimer),
                         lease |-> Cleared(notif[n].lease, session[s].loaded.lease, "none")]
        BY <1>1, <2>3, <3>1 DEF CommitRetry
      <4> QED BY <2>3, <3>1, <4>1 DEF CommitRetry, Operated, Operations, Cleared
    <3> QED BY <1>1, <2>3, <3>1 DEF CommitRetry
  <2>4. CASE CommitReplay(s)
    <3>1. CASE n = session[s].notification
      <4> DEFINE next == Cleared(notif[n].next, session[s].loaded.next, NoTimer)
      <4>1. notif'[n] = [notif[n] EXCEPT !.status = "queued", !.next = next]
        BY <1>1, <2>4, <3>1 DEF CommitReplay
      <4>2. next \in {notif[n].next, NoTimer}
        BY DEF Cleared
      <4> HIDE DEF next
      <4>3. notif'[n].status = "queued" /\ SameLease(n) /\ notif'[n].next = next
        BY <1>1, <4>1 DEF Rows
      <4> QED BY <2>4, <3>1, <4>2, <4>3 DEF CommitReplay, Operated, Operations
    <3> QED BY <1>1, <2>4, <3>1 DEF CommitReplay
  <2>5. CASE CommitCallback(s)
    <3> DEFINE status == Transition(session[s].loaded.status, session[s].request)
    <3>1. session[s].request \in ProviderEvents
      BY <2>5 DEF CommitCallback
    <3>2. status # session[s].loaded.status => status \in {"sent", "delivered", "deferred", "failed"}
      <4>1. session[s].loaded.status \in Statuses
        BY DEF TypeInv, TypeOK, SessionTypeOK, SessionStates, Rows
      <4> QED BY <3>1, <4>1, TransitionResult DEF ProviderEvents
    <3>3. session[s].notification \in Notifications
      BY <2>1, <3>1 DEF ProviderEvents
    <3> HIDE DEF status
    <3>4. CASE status = session[s].loaded.status
      BY <2>5, <3>4 DEF CommitCallback, status
    <3>5. CASE status # session[s].loaded.status
      <4>1. notif' = [notif EXCEPT ![session[s].notification].status = status]
        BY <2>5, <3>5 DEF CommitCallback, status
      <4> QED BY <1>3, <3>1, <3>2, <3>3, <3>5, <4>1 DEF Reported
    <3> QED BY <3>4, <3>5
  <2>6. CASE DuplicateCallback(s)
    BY <2>6 DEF DuplicateCallback, storeVars, rows
  <2> QED BY <1>11, <2>2, <2>3, <2>4, <2>5, <2>6 DEF Ending
<1>12. CASE RequestsNext
  BY <1>4, <1>11, <1>12 DEF RequestsNext, BeginOperation, BeginCallback, storeVars, rows
<1>13. CASE UNCHANGED vars \/ \E m \in Notifications : TimePasses(m)
  BY <1>13 DEF TimePasses, vars, storeVars, rows
<1> QED BY <1>8, <1>9, <1>10, <1>12, <1>13 DEF Next

LEMMA SubmitStep ==
    ASSUME SubmitInv, [Next]_vars
    PROVE  SubmitInv'
<1>1. TypeInv /\ TypeInv' /\ RowsExist
  BY TypeStep DEF SubmitInv, StatusInv, AttemptInv
<1>2. StatusInv'
  BY StatusStep DEF SubmitInv
<1>3. RowsExist'
  BY <1>1, RowsExistStep
<1>4. ASSUME NEW n \in Notifications, notif[n].status # "absent" \/ CreateNotification(n)
      PROVE  notif'[n].status # "absent" /\ Submitted(n)'
  <2>1. CASE CreateNotification(n)
    <3>1. notif'[n].status = "accepted"
      BY <1>1, <2>1 DEF CreateNotification, TypeInv, TypeOK, StoreTypeOK, Rows
    <3>2. \E i \in DOMAIN outbox'[n] : outbox'[n][i].eta = ScheduledAt(n)
      BY <1>1, <2>1, AddedRow, TimersType DEF CreateNotification
    <3> QED BY <3>1, <3>2 DEF Submitted
  <2>2. CASE notif[n].status # "absent"
    <3>1. notif'[n].status # "absent"
      BY <1>1, <2>2, RowFate
      DEF Created, Claimed, Recorded, Expired, Queued, Recovered, Operated, Reported
    <3>2. PICK i \in DOMAIN outbox[n] : outbox[n][i].eta = ScheduledAt(n)
      BY <2>2 DEF SubmitInv, Submitted
    <3> QED BY <1>1, <3>1, <3>2, OutboxRowFate DEF Submitted
  <2> QED BY <1>4, <2>1, <2>2
<1>5. ASSUME NEW n \in Notifications, notif'[n].status # "absent" \/ Touched(n)'
      PROVE  notif[n].status # "absent" \/ CreateNotification(n)
  <2>1. Touched(n) => notif[n].status # "absent"
    BY DEF SubmitInv
  <2>2. CASE Touched(n)'
    BY <2>1, <2>2, TouchedStep
  <2>3. CASE notif'[n].status # "absent"
    <3>1. ASSUME Claimed(n) \/ Recorded(n) PROVE Touched(n)
      BY <3>1 DEF Claimed, Recorded, Claim, RecordAccepted, RecordDeferred, RecordDeadLettered,
         RecordFailed, Touched
    <3>2. ASSUME Queued(n) PROVE Touched(n)
      <4>1. PICK p \in Publishers : publisher[p].stage = "loaded" /\ publisher[p].row[1] = n
        BY <3>2 DEF Queued, CommitPublished
      <4> QED BY <1>1, <4>1 DEF RowsExist, Exists, Touched
    <3>3. ASSUME Recovered(n) \/ Operated(n) \/ Reported(n) PROVE Touched(n)
      BY <3>3 DEF Recovered, Operated, Reported, Operations, ProviderEvents, Touched
    <3> QED BY <1>1, <2>1, <2>3, <3>1, <3>2, <3>3, RowFate DEF Created, Expired
  <2> QED BY <1>5, <2>2, <2>3
<1> QED BY <1>2, <1>3, <1>4, <1>5 DEF SubmitInv

LEMMA SubmitInit == Init => SubmitInv
<1> SUFFICES ASSUME Init PROVE SubmitInv
  OBVIOUS
<1>1. StatusInv
  BY StatusInit
<1>2. RowsExist
  BY DEF Init, PublisherInit, IdlePublisher, RowsExist
<1>3. ASSUME NEW n \in Notifications PROVE ~Touched(n) /\ notif[n].status = "absent"
  <2>1. ASSUME NEW timer \in Timers PROVE ~(broker[Message(n, timer)] > 0)
    BY DEF Init, StoreInit, Message, Messages
  <2>2. /\ notif[n].status = "absent" /\ DOMAIN outbox[n] = {} /\ attempts[n] = {} /\ n \notin stuck
        /\ \A w \in Workers : worker[w].stage = "idle"
        /\ \A s \in Sessions : session[s].request = "none"
    BY DEF Init, StoreInit, WorkerInit, SessionInit, ReconcilerInit, AbsentRow, IdleWorker, IdleSession
  <2> QED BY <2>1, <2>2 DEF Touched
<1> QED BY <1>1, <1>2, <1>3 DEF SubmitInv

-----------------------------------------------------------------------------
(* Every deadline that holds a notification back is carried by an outbox   *)
(* row, and until it has passed that row is unpublished or has its message *)
(* in the queue: a worker that returns early leaves the later message.     *)
PastEnqueue(r) ==
    \E p \in Publishers :
        publisher[p].stage \in {"enqueued", "loaded"} /\ publisher[p].row = r

(* The row will still put a message into the queue. *)
Pending(n, i) == ~outbox[n][i].published /\ ~PastEnqueue(<<n, i>>)

BackoffsCarried ==
    \A n \in Notifications :
        notif[n].next # NoTimer => \E i \in DOMAIN outbox[n] : outbox[n][i].eta = notif[n].next

LateRowsWait ==
    \A n \in Notifications : \A i \in DOMAIN outbox[n] :
        outbox[n][i].eta > elapsed[n]
            => Pending(n, i) \/ broker[Message(n, outbox[n][i].eta)] > 0

CarryInv == SubmitInv /\ BackoffsCarried /\ LateRowsWait

LEMMA RowType ==
    ASSUME TypeInv, NEW n \in Notifications, NEW i \in DOMAIN outbox[n]
    PROVE  /\ outbox[n][i].eta \in Timers
           /\ Message(n, outbox[n][i].eta) \in Messages
<1>1. outbox[n] \in Seq(OutboxRows)
  BY DEF TypeInv, TypeOK, StoreTypeOK
<1>2. outbox[n][i] \in OutboxRows
  BY <1>1
<1> QED BY <1>2 DEF OutboxRows, Messages, Message

(* A row that is pending before a step is pending after it, or its message *)
(* has been sent.                                                          *)
LEMMA PendingStep ==
    ASSUME TypeInv, [Next]_vars, NEW n \in Notifications, NEW i \in DOMAIN outbox[n], Pending(n, i)
    PROVE  \/ Pending(n, i)'
           \/ /\ broker'[Message(n, outbox[n][i].eta)] > 0
              /\ \E p \in Publishers : Enqueue(p) /\ publisher[p].row = <<n, i>>
<1>1. ~outbox'[n][i].published
  <2>1. ASSUME NEW p \in Publishers, CommitPublished(p), publisher[p].row = <<n, i>> PROVE FALSE
    BY <2>1 DEF Pending, PastEnqueue, CommitPublished
  <2> QED BY <2>1, OutboxRowFate DEF Pending
<1>2. ASSUME NEW p \in Publishers, Enqueue(p), publisher[p].row = <<n, i>>
      PROVE  broker'[Message(n, outbox[n][i].eta)] > 0
  <2> DEFINE m == Message(n, outbox[n][i].eta)
  <2>1. outbox[n][i].eta \in Timers
    BY RowType
  <2>2. m \in Messages /\ broker \in [Messages -> Nat]
    BY <2>1 DEF Message, Messages, TypeInv, TypeOK, StoreTypeOK
  <2>3. RowMessage(publisher[p].row) = m
    BY <1>2 DEF RowMessage
  <2> HIDE DEF m
  <2>4. broker'[m] = broker[m] + 1 /\ broker[m] \in Nat
    BY <1>2, <2>2, <2>3 DEF Enqueue
  <2> QED BY <2>4 DEF m
<1>3. ASSUME PastEnqueue(<<n, i>>)'
      PROVE  \E p \in Publishers : Enqueue(p) /\ publisher[p].row = <<n, i>>
  <2>1. PICK p \in Publishers :
            publisher'[p].stage \in {"enqueued", "loaded"} /\ publisher'[p].row = <<n, i>>
    BY <1>3 DEF PastEnqueue
  <2>2. ~(publisher[p].stage \in {"enqueued", "loaded"} /\ publisher[p].row = <<n, i>>)
    BY DEF Pending, PastEnqueue
  <2> QED BY <2>1, <2>2, PublisherFate DEF Selected, Leased, Advanced, Left
<1> QED BY <1>1, <1>2, <1>3 DEF Pending

(* A new row is pending. *)
LEMMA NewRowIsPending ==
    ASSUME TypeInv, RowsExist, [Next]_vars, NEW n \in Notifications,
           NEW i \in DOMAIN outbox'[n] \ DOMAIN outbox[n]
    PROVE  Pending(n, i)'
<1>1. ~outbox'[n][i].published
  BY NewRowFate
<1>2. ASSUME NEW p \in Publishers, publisher'[p].stage \in {"enqueued", "loaded"},
             publisher'[p].row = <<n, i>>
      PROVE  FALSE
  <2>1. publisher[p].stage \in {"leased", "enqueued", "loaded"} /\ publisher[p].row = <<n, i>>
    BY <1>2, PublisherFate DEF Selected, Leased, Advanced, Left, Enqueue
  <2> QED BY <2>1 DEF RowsExist, Exists
<1> QED BY <1>1, <1>2 DEF Pending, PastEnqueue

LEMMA ElapsedGrows ==
    ASSUME TypeInv, [Next]_vars, NEW n \in Notifications
    PROVE  elapsed[n] \in Nat /\ elapsed'[n] \in Nat /\ elapsed[n] <= elapsed'[n]
<1>0. \A timer \in Timers : timer \in Nat
  BY DEF Timers
<1>1. elapsed \in [Notifications -> Timers] /\ elapsed[n] \in Nat
  BY <1>0 DEF TypeInv, TypeOK, StoreTypeOK
<1>2. CASE elapsed' = elapsed
  BY <1>1, <1>2
<1>3. ASSUME NEW m \in Notifications, TimePasses(m) PROVE elapsed'[n] \in Nat /\ elapsed[n] <= elapsed'[n]
  <2>1. PICK i \in DOMAIN outbox[m] :
            /\ outbox[m][i].eta > elapsed[m]
            /\ elapsed' = [elapsed EXCEPT ![m] = outbox[m][i].eta]
    <3>1. DOMAIN outbox[m] = 1 .. Len(outbox[m])
      BY DEF TypeInv, TypeOK, StoreTypeOK
    <3> QED BY <1>3, <3>1 DEF TimePasses
  <2>2. outbox[m][i].eta \in Nat
    <3>1. outbox[m][i].eta \in Timers
      BY RowType
    <3> QED BY <1>0, <3>1
  <2>3. CASE n = m
    BY <1>1, <2>1, <2>2, <2>3
  <2> QED BY <1>1, <2>1, <2>3
<1>4. CASE WorkerNext
  BY <1>2, <1>4 DEF WorkerNext, Receipt, ReturnEarly, RefuseLease, Receive, AnswerLost, CrashWorker,
     Processing, Claim, StartCall, ProviderAnswers, RecordAccepted, RecordDeferred,
     RecordDeadLettered, RecordFailed, RecordOutcome, RecordConflict, Acknowledge, ExpireLease,
     storeVars
<1>5. CASE PublisherNext
  BY <1>2, <1>5 DEF PublisherNext, Publishing, SelectBatch, LeaseRow, Enqueue, EnqueueFails,
     LoadNotification, CommitPublished, CrashPublisher, OutboxLeasesExpire, ExpireOutboxLease,
     storeVars
<1>6. CASE RequestsNext \/ ReconcilerNext
  BY <1>2, <1>6 DEF RequestsNext, CreateNotification, BeginOperation, BeginCallback, Ending,
     CommitCancel, CommitRetry, CommitReplay, CommitCallback, DuplicateCallback, ReconcilerNext,
     ScanStuck, CommitRecovery, storeVars
<1> QED BY <1>1, <1>2, <1>3, <1>4, <1>5, <1>6 DEF Next, vars, storeVars

(* A message that is not due stays in the queue. *)
LEMMA EarlyMessageStays ==
    ASSUME TypeInv, [Next]_vars, NEW m \in Messages, broker[m] > 0, ~Due(m.notification, m.eta)
    PROVE  broker'[m] > 0
<1>1. broker[m] \in Nat
  BY DEF TypeInv, TypeOK, StoreTypeOK
<1>2. ASSUME NEW w \in Workers, Takes(w, m) PROVE FALSE
  BY <1>2 DEF Takes, ReturnEarly, RefuseLease, Receive, Receivable
<1> QED BY <1>1, <1>2, MessageFate

LEMMA CarryStep ==
    ASSUME CarryInv, [Next]_vars
    PROVE  CarryInv'
<1>1. TypeInv /\ TypeInv' /\ RowsExist
  BY TypeStep DEF CarryInv, SubmitInv, StatusInv, AttemptInv
<1>2. SubmitInv'
  BY SubmitStep DEF CarryInv
<1>3. BackoffsCarried'
  <2> SUFFICES ASSUME NEW n \in Notifications, notif'[n].next # NoTimer
               PROVE  \E i \in DOMAIN outbox'[n] : outbox'[n][i].eta = notif'[n].next
    BY DEF BackoffsCarried
  <2>1. CASE SameNext(n)
    <3>1. PICK i \in DOMAIN outbox[n] : outbox[n][i].eta = notif[n].next
      BY <2>1 DEF SameNext, CarryInv, BackoffsCarried
    <3> QED BY <1>1, <2>1, <3>1, OutboxRowFate DEF SameNext
  <2>2. ASSUME NEW w \in Workers, RecordDeferred(w), Target(w) = n,
               notif'[n].next = Backoff(worker[w].number)
        PROVE  \E i \in DOMAIN outbox'[n] : outbox'[n][i].eta = notif'[n].next
    <3>1. Backoff(worker[w].number) \in Timers
      BY <1>1, <2>2, TimersType
      DEF RecordDeferred, TypeInv, TypeOK, WorkerTypeOK, WorkerStates
    <3>2. AddOutboxRow(n, Backoff(worker[w].number))
      BY <2>2 DEF RecordDeferred
    <3> QED BY <1>1, <2>2, <3>1, <3>2, AddedRow
  <2>3. notif'[n] = notif[n] => SameNext(n)
    BY DEF SameNext
  <2> QED BY <1>1, <2>1, <2>2, <2>3, RowFate
          DEF Created, Claimed, Recorded, Expired, Queued, Recovered, Operated, Reported
<1>4. LateRowsWait'
  <2> SUFFICES ASSUME NEW n \in Notifications, NEW i \in DOMAIN outbox'[n],
                      outbox'[n][i].eta > elapsed'[n]
               PROVE  Pending(n, i)' \/ broker'[Message(n, outbox'[n][i].eta)] > 0
    BY DEF LateRowsWait, Message
  <2>1. CASE i \notin DOMAIN outbox[n]
    BY <1>1, <2>1, NewRowIsPending
  <2>2. CASE i \in DOMAIN outbox[n]
    <3> DEFINE m == Message(n, outbox[n][i].eta)
    <3>1. outbox'[n][i].eta = outbox[n][i].eta
      BY <1>1, <2>2, OutboxRowFate
    <3>2. outbox[n][i].eta \in Nat /\ m \in Messages
      <4>1. outbox[n][i].eta \in Timers /\ m \in Messages
        BY <1>1, <2>2, RowType
      <4> QED BY <4>1 DEF Timers
    <3>3. outbox[n][i].eta > elapsed[n]
      <4>1. elapsed[n] \in Nat /\ elapsed'[n] \in Nat /\ elapsed[n] <= elapsed'[n]
        BY <1>1, ElapsedGrows
      <4> HIDE DEF m
      <4> QED BY <3>1, <3>2, <4>1
    <3>4. m.notification = n /\ m.eta = outbox[n][i].eta
      BY DEF Message
    <3>5. Pending(n, i) \/ broker[m] > 0
      BY <2>2, <3>3 DEF CarryInv, LateRowsWait
    <3> HIDE DEF m
    <3>6. CASE broker[m] > 0
      <4>1. ~Due(m.notification, m.eta)
        <5>1. elapsed[n] \in Nat
          BY <1>1, ElapsedGrows
        <5> QED BY <3>2, <3>3, <3>4, <5>1 DEF Due
      <4>2. broker'[m] > 0
        BY <1>1, <3>2, <3>6, <4>1, EarlyMessageStays
      <4> QED BY <3>1, <4>2 DEF m
    <3>7. CASE Pending(n, i)
      BY <1>1, <2>2, <3>1, <3>7, PendingStep DEF m
    <3> QED BY <3>5, <3>6, <3>7
  <2> QED BY <2>1, <2>2
<1> QED BY <1>2, <1>3, <1>4 DEF CarryInv

LEMMA CarryInit == Init => CarryInv
  BY SubmitInit DEF Init, StoreInit, AbsentRow, CarryInv, BackoffsCarried, LateRowsWait

-----------------------------------------------------------------------------
(* Outcomes and the tasks that may still have one.                         *)
LEMMA OutcomeFacts ==
    ASSUME AttemptInv, NEW w \in Workers, Outcome(w)
    PROVE  /\ Records(w)
           /\ Target(w) \in Notifications
           /\ worker[w].number = NextNumber(Target(w))
           /\ attempts'[Target(w)] = attempts[Target(w)] \cup {Entry(w)}
           /\ notif'[Target(w)].lease = "none"
<1>1. Records(w)
  BY DEF Outcome, RecordAccepted, RecordDeferred, RecordDeadLettered, RecordFailed, RecordOutcome,
     Records, Entry
<1>2. Target(w) \in Notifications /\ worker[w].number = NextNumber(Target(w))
  BY <1>1, RecordsNextNumber DEF NextNumber
<1>3. notif \in [Notifications -> Rows] /\ attempts \in [Notifications -> SUBSET Attempts]
  BY DEF AttemptInv, TypeInv, TypeOK, StoreTypeOK
<1>4. attempts'[Target(w)] = attempts[Target(w)] \cup {Entry(w)}
  BY <1>1, <1>2, <1>3 DEF Records
<1>5. \E status, next : RecordOutcome(w, status, next)
  BY DEF Outcome, RecordAccepted, RecordDeferred, RecordDeadLettered, RecordFailed
<1>6. \E status, next : notif'[Target(w)] = [status |-> status, next |-> next, lease |-> "none"]
  BY <1>2, <1>3, <1>5 DEF RecordOutcome
<1>7. notif'[Target(w)].lease = "none"
  BY <1>6
<1> QED BY <1>1, <1>2, <1>4, <1>7

LEMMA OutcomeStep ==
    ASSUME AttemptInv, [Next]_vars, NEW n \in Notifications, attempts'[n] # attempts[n]
    PROVE  \E w \in Workers : Outcome(w) /\ Target(w) = n
<1>1. CASE WorkerNext
  <2>1. ASSUME NEW w \in Workers, ~Outcome(w),
               Receipt(w) \/ AnswerLost(w) \/ CrashWorker(w) \/ Processing(w)
        PROVE  UNCHANGED attempts
    BY <2>1 DEF Receipt, ReturnEarly, RefuseLease, Receive, AnswerLost, CrashWorker, Processing,
       Claim, StartCall, ProviderAnswers, RecordConflict, Acknowledge, Outcome, storeVars, rows
  <2>2. PICK w \in Workers : Outcome(w)
    BY <1>1, <2>1 DEF WorkerNext, ExpireLease
  <2>3. Target(w) = n
    BY <2>2, OutcomeFacts DEF Records, AttemptInv, TypeInv, TypeOK, StoreTypeOK
  <2> QED BY <2>2, <2>3
<1>2. CASE PublisherNext
  BY <1>2 DEF PublisherNext, Publishing, SelectBatch, LeaseRow, Enqueue, EnqueueFails,
     LoadNotification, CommitPublished, CrashPublisher, OutboxLeasesExpire, ExpireOutboxLease,
     storeVars, rows
<1>3. CASE ReconcilerNext \/ RequestsNext
  BY <1>3 DEF ReconcilerNext, ScanStuck, CommitRecovery, RequestsNext, CreateNotification,
     BeginOperation, BeginCallback, Ending, CommitCancel, CommitRetry, CommitReplay,
     CommitCallback, DuplicateCallback, storeVars, rows
<1>4. CASE UNCHANGED vars \/ \E m \in Notifications : TimePasses(m)
  BY <1>4 DEF TimePasses, vars, storeVars, rows
<1> QED BY <1>1, <1>2, <1>3, <1>4 DEF Next

(* The task will count the attempts yet, or none was added since it did:   *)
(* its number is free.                                                     *)
Fresh(w) ==
    \/ worker[w].stage \in {"read", "claimed"}
    \/ Calling(w) /\ worker[w].number = NextNumber(Target(w))

FreshTask(n) == \E w \in Workers : Target(w) = n /\ Fresh(w)

FreshHolder(n) == \E w \in Workers : Holding(w, n) /\ Fresh(w)

(* Until an attempt is added or its process dies, it stays so. *)
LEMMA FreshTaskStep ==
    ASSUME AttemptInv, [Next]_vars, NEW n \in Notifications, attempts'[n] = attempts[n],
           NEW w \in Workers, Target(w) = n, Fresh(w), ~CrashWorker(w)
    PROVE  Target(w)' = n /\ Fresh(w)' /\ (Holding(w, n) => Holding(w, n)')
<1>1. worker \in [Workers -> WorkerStates]
  BY DEF AttemptInv, TypeInv, TypeOK, WorkerTypeOK
<1>2. CASE worker'[w] = worker[w]
  BY <1>2 DEF Target, Fresh, Calling, Holding, NextNumber
<1>3. ASSUME worker'[w].message = worker[w].message, worker'[w].number = worker[w].number,
             \/ worker[w].stage = "read" /\ worker'[w].stage = "claimed"
             \/ worker[w].stage = "calling" /\ worker'[w].stage = "called"
      PROVE  Target(w)' = n /\ Fresh(w)' /\ (Holding(w, n) => Holding(w, n)')
  BY <1>3 DEF Target, Fresh, Calling, Holding, NextNumber
<1>4. CASE Claim(w) \/ AnswerLost(w) \/ \E result \in Results : ProviderAnswers(w, result)
  <2>1. /\ worker'[w].message = worker[w].message /\ worker'[w].number = worker[w].number
        /\ \/ worker[w].stage = "read" /\ worker'[w].stage = "claimed"
           \/ worker[w].stage = "calling" /\ worker'[w].stage = "called"
    BY <1>1, <1>4 DEF Claim, AnswerLost, ProviderAnswers, WorkerStates
  <2> QED BY <1>3, <2>1
<1>5. CASE StartCall(w)
  <2>1. /\ worker'[w].message = worker[w].message /\ worker'[w].stage = "calling"
        /\ worker'[w].number = NextNumber(n)
    BY <1>1, <1>5 DEF StartCall, WorkerStates
  <2> QED BY <2>1 DEF Target, Fresh, Calling, Holding, NextNumber
<1>6. CASE Outcome(w)
  <2>1. Entry(w) \notin attempts[n]
    BY <1>6, OutcomeFacts DEF Records, NumberTaken, Entry
  <2> QED BY <1>6, <2>1, OutcomeFacts
<1>7. CASE RecordConflict(w)
  <2>1. worker[w].stage = "called" /\ worker[w].number = NextNumber(n)
        /\ NumberTaken(n, NextNumber(n))
    BY <1>7 DEF RecordConflict, Fresh
  <2>2. NextNumber(n) \in {a.number : a \in attempts[n]}
    BY <2>1 DEF NumberTaken
  <2>3. {a.number : a \in attempts[n]} = 1 .. Cardinality(attempts[n])
    BY DEF AttemptInv, AttemptsNumberedContiguously
  <2>4. Cardinality(attempts[n]) \in Nat
    BY FS_CardinalityType DEF AttemptInv, TypeInv, AttemptsAreFinite
  <2>5. NextNumber(n) \in 1 .. Cardinality(attempts[n])
    BY <2>2, <2>3, Zenon
  <2> QED BY <2>4, <2>5 DEF NextNumber
<1>8. ASSUME NEW v \in Workers, v # w,
             Receipt(v) \/ AnswerLost(v) \/ CrashWorker(v) \/ Processing(v)
      PROVE  worker'[w] = worker[w]
  BY <1>1, <1>8 DEF Receipt, ReturnEarly, RefuseLease, Receive, AnswerLost, CrashWorker,
     Processing, Claim, StartCall, ProviderAnswers, RecordAccepted, RecordDeferred,
     RecordDeadLettered, RecordFailed, RecordOutcome, RecordConflict, Acknowledge, Finish
<1>9. CASE Receipt(w) \/ Acknowledge(w)
  BY <1>9 DEF Receipt, ReturnEarly, RefuseLease, Receive, Acknowledge, Fresh, Calling
<1>10. CASE WorkerNext
  <2>1. CASE \E m \in Notifications : ExpireLease(m)
    BY <1>2, <2>1 DEF ExpireLease
  <2>2. ASSUME NEW v \in Workers, Receipt(v) \/ Processing(v) \/ AnswerLost(v) \/ CrashWorker(v)
        PROVE  Target(w)' = n /\ Fresh(w)' /\ (Holding(w, n) => Holding(w, n)')
    <3>1. CASE v # w
      BY <1>2, <1>8, <2>2, <3>1
    <3>2. CASE v = w
      BY <1>4, <1>5, <1>6, <1>7, <1>9, <2>2, <3>2 DEF Processing, Outcome
    <3> QED BY <3>1, <3>2
  <2> QED BY <1>10, <2>1, <2>2 DEF WorkerNext
<1> QED BY <1>2, <1>10 DEF Next, vars

-----------------------------------------------------------------------------
(* Faults.                                                                 *)
LEMMA FaultsGrow ==
    ASSUME TypeInv, [Next]_vars
    PROVE  /\ faults.crashes \in Nat /\ faults'.crashes \in Nat
           /\ faults.overruns \in Nat /\ faults'.overruns \in Nat
           /\ faults.lost \in Nat /\ faults'.lost \in Nat
           /\ faults.operations \in Nat /\ faults'.operations \in Nat
           /\ faults.crashes <= faults'.crashes /\ faults.overruns <= faults'.overruns
           /\ faults.lost <= faults'.lost /\ faults.operations <= faults'.operations
<1>1. faults \in [crashes : Nat, overruns : Nat, lost : Nat, operations : Nat]
  BY DEF TypeInv, TypeOK, StoreTypeOK
<1>2. CASE UNCHANGED faults
  BY <1>1, <1>2
<1>3. CASE SpendCrash \/ SpendOverrun \/ SpendLostAnswer \/ SpendOperation
  BY <1>1, <1>3 DEF SpendCrash, SpendOverrun, SpendLostAnswer, SpendOperation
<1>4. CASE WorkerNext
  BY <1>2, <1>3, <1>4 DEF WorkerNext, Receipt, ReturnEarly, RefuseLease, Receive, AnswerLost,
     CrashWorker, Processing, Claim, StartCall, ProviderAnswers, RecordAccepted, RecordDeferred,
     RecordDeadLettered, RecordFailed, RecordOutcome, RecordConflict, Acknowledge, ExpireLease,
     storeVars
<1>5. CASE PublisherNext
  BY <1>2, <1>3, <1>5 DEF PublisherNext, Publishing, SelectBatch, LeaseRow, Enqueue, EnqueueFails,
     LoadNotification, CommitPublished, CrashPublisher, OutboxLeasesExpire, ExpireOutboxLease,
     storeVars
<1>6. CASE ReconcilerNext \/ RequestsNext
  BY <1>2, <1>3, <1>6 DEF ReconcilerNext, ScanStuck, CommitRecovery, RequestsNext,
     CreateNotification, BeginOperation, BeginCallback, Ending, CommitCancel, CommitRetry,
     CommitReplay, CommitCallback, DuplicateCallback, storeVars
<1> QED BY <1>2, <1>4, <1>5, <1>6 DEF Next, TimePasses, vars, storeVars

LEMMA FaultCosts ==
    ASSUME TypeInv
    PROVE  /\ \A w \in Workers : CrashWorker(w) => faults'.crashes = faults.crashes + 1
           /\ \A p \in Publishers : CrashPublisher(p) => faults'.crashes = faults.crashes + 1
           /\ SpendOverrun => faults'.overruns = faults.overruns + 1
           /\ SpendLostAnswer => faults'.lost = faults.lost + 1
           /\ SpendOperation => faults'.operations = faults.operations + 1
<1>1. faults \in [crashes : Nat, overruns : Nat, lost : Nat, operations : Nat]
  BY DEF TypeInv, TypeOK, StoreTypeOK
<1> QED BY <1>1 DEF CrashWorker, CrashPublisher, SpendCrash, SpendOverrun, SpendLostAnswer,
            SpendOperation

(* No operator request is under way unless one was begun. *)
NoOperation == \A s \in Sessions : session[s].request \notin Operations

LEMMA NoOperationStep ==
    ASSUME TypeInv, [Next]_vars, NoOperation, faults'.operations = 0
    PROVE  NoOperation'
<1>1. session \in [Sessions -> SessionStates]
  BY DEF TypeInv, TypeOK, SessionTypeOK
<1>2. ASSUME NEW s \in Sessions PROVE session'[s].request \notin Operations
  <2>1. CASE session'[s] = session[s]
    BY <2>1 DEF NoOperation
  <2>2. ASSUME NEW t \in Sessions, NEW n \in Notifications, NEW request \in Operations,
               BeginOperation(t, request, n)
        PROVE  FALSE
    BY <2>2, FaultsGrow, FaultCosts DEF BeginOperation
  <2>3. ASSUME NEW t \in Sessions, NEW n \in Notifications, NEW event \in CallbackEvents,
               BeginCallback(t, event, n)
        PROVE  session'[s] = session[s] \/ session'[s].request = event
    BY <1>1, <2>3 DEF BeginCallback, Load
  <2>4. ASSUME NEW t \in Sessions, Ending(t)
        PROVE  session'[s] = session[s] \/ session'[s] = IdleSession
    BY <1>1, <2>4 DEF Ending, CommitCancel, CommitRetry, CommitReplay, CommitCallback,
       DuplicateCallback, EndRequest
  <2>5. \A event \in CallbackEvents : event \notin Operations
    BY CallbackEventsAssumption DEF ProviderEvents, Operations
  <2>6. IdleSession.request \notin Operations
    BY DEF IdleSession, Operations
  <2>7. CASE RequestsNext
    BY <2>1, <2>2, <2>3, <2>4, <2>5, <2>6, <2>7 DEF RequestsNext, CreateNotification
  <2> QED BY <2>1, <2>7 DEF Next, vars
<1> QED BY <1>2 DEF NoOperation

-----------------------------------------------------------------------------
(* Without crashes and operator requests, what is not settled is on its    *)
(* way: a row that is pending, a message, or a task with a free number.    *)
Undisturbed == faults.crashes = 0 /\ faults.operations = 0

FinalIsSettled ==
    \A n \in Notifications : notif[n].status \in FinalStatuses => ~Unsettled(n)

LeaseIsHeld ==
    \A n \in Notifications : notif[n].lease # "none" => FreshHolder(n)

OnTheWay(n) ==
    \/ \E i \in DOMAIN outbox[n] : Pending(n, i)
    \/ \E timer \in Timers : broker[Message(n, timer)] > 0
    \/ FreshTask(n)

AllOnTheWay ==
    \A n \in Notifications : DOMAIN outbox[n] # {} /\ Unsettled(n) => OnTheWay(n)

DriverInv ==
    /\ CarryInv
    /\ Undisturbed => NoOperation /\ FinalIsSettled /\ LeaseIsHeld /\ AllOnTheWay

(* Only a deferral leaves a notification unsettled. *)
LEMMA UnsettledOutcome ==
    ASSUME AttemptInv, NEW w \in Workers, Outcome(w), Unsettled(Target(w))'
    PROVE  RecordDeferred(w)
<1>1. Target(w) \in Notifications /\ Entry(w) \in attempts'[Target(w)]
  BY OutcomeFacts
<1>2. Entry(w).result = worker[w].result /\ Entry(w).number = worker[w].number
  BY DEF Entry
<1>3. \A a \in attempts'[Target(w)'] : a.result = "retryable" /\ a.number < MaxAttempts
  BY DEF Unsettled
<1>4. Target(w)' = Target(w)
  <2>1. Finish(w) /\ worker \in [Workers -> WorkerStates]
    BY OutcomeFacts DEF Records, AttemptInv, TypeInv, TypeOK, WorkerTypeOK
  <2> QED BY <2>1 DEF Finish, Target, IdleWorker
<1>5. worker[w].result = "retryable" /\ worker[w].number < MaxAttempts
  BY <1>1, <1>2, <1>3, <1>4
<1> QED BY <1>5 DEF Outcome, RecordAccepted, RecordDeadLettered, RecordFailed, RetriesLeft

LEMMA UnsettledBefore ==
    ASSUME AttemptInv, [Next]_vars, NEW n \in Notifications, Unsettled(n)'
    PROVE  Unsettled(n)
  BY AttemptsGrow DEF Unsettled

(* Undisturbed after a step means undisturbed before, and nothing crashed. *)
LEMMA UndisturbedStep ==
    ASSUME TypeInv, [Next]_vars, Undisturbed'
    PROVE  /\ Undisturbed
           /\ \A w \in Workers : ~CrashWorker(w)
           /\ \A p \in Publishers : ~CrashPublisher(p)
<1>1. faults'.crashes = 0 /\ faults'.operations = 0
  BY DEF Undisturbed
<1> QED BY <1>1, FaultsGrow, FaultCosts DEF Undisturbed

LEMMA FinalStep ==
    ASSUME DriverInv, [Next]_vars, Undisturbed'
    PROVE  FinalIsSettled'
<1> SUFFICES ASSUME NEW n \in Notifications, notif'[n].status \in FinalStatuses, Unsettled(n)'
             PROVE  FALSE
  BY DEF FinalIsSettled, FinalStatuses
<1>1. AttemptInv /\ TypeInv /\ StatusInv /\ StatusInv'
  BY StatusStep DEF DriverInv, CarryInv, SubmitInv, StatusInv, AttemptInv
<1>2. NoOperation /\ FinalIsSettled
  BY <1>1, UndisturbedStep DEF DriverInv
<1>3. \A a \in attempts'[n] : a.result = "retryable" /\ a.number < MaxAttempts
  BY DEF Unsettled
<1>4. Unsettled(n)
  BY <1>1, UnsettledBefore
<1>5. notif'[n].status \notin {"sent", "delivered"}
  BY <1>1, <1>3 DEF StatusInv, SentHasAcceptedAttempt
<1>6. notif'[n].status # "dead_lettered"
  <2> SUFFICES ASSUME notif'[n].status = "dead_lettered" PROVE FALSE
    OBVIOUS
  <2> DEFINE c == Cardinality(attempts'[n])
  <2>1. c >= MaxAttempts /\ {a.number : a \in attempts'[n]} = 1 .. c
    BY <1>1 DEF StatusInv, DeadLetteredMeansExhausted, AttemptInv, AttemptsNumberedContiguously
  <2>2. c \in Nat
    BY <1>1, AttemptsGrow
  <2> HIDE DEF c
  <2>3. c \in 1 .. c
    BY <2>1, <2>2, MaxAttemptsAssumption
  <2>4. \E a \in attempts'[n] : a.number = c
    BY <2>1, <2>3
  <2> QED BY <1>3, <2>1, <2>2, <2>4, MaxAttemptsAssumption
<1>7. notif'[n].status # notif[n].status
  BY <1>2, <1>4 DEF FinalIsSettled
<1>8. ~Recorded(n)
  <2> SUFFICES ASSUME Recorded(n) PROVE FALSE
    OBVIOUS
  <2>1. PICK w \in Workers : Target(w) = n /\ Outcome(w)
                             /\ (notif'[n].status = "deferred" \/ ~RecordDeferred(w))
    BY DEF Recorded, Outcome, RecordAccepted, RecordDeferred, RecordDeadLettered, RecordFailed
  <2>2. Target(w)' = n
    <3>1. Finish(w) /\ worker \in [Workers -> WorkerStates]
      BY <1>1, <2>1, OutcomeFacts DEF Records, TypeInv, TypeOK, WorkerTypeOK
    <3> QED BY <2>1, <3>1 DEF Finish, Target, IdleWorker
  <2>3. RecordDeferred(w)
    BY <1>1, <2>1, <2>2, UnsettledOutcome DEF Unsettled
  <2> QED BY <2>1, <2>3 DEF FinalStatuses
<1>9. ~Reported(n)
  BY <1>1, <1>4 DEF Reported, StatusInv, CallbacksKnown, KnownToProvider, Unsettled
<1>10. ~Operated(n)
  BY <1>2 DEF Operated, NoOperation
<1> QED BY <1>1, <1>7, <1>8, <1>9, <1>10, RowFate
        DEF Created, Claimed, Expired, Queued, Recovered, FinalStatuses

LEMMA LeaseHeldStep ==
    ASSUME DriverInv, [Next]_vars, Undisturbed'
    PROVE  LeaseIsHeld'
<1> SUFFICES ASSUME NEW n \in Notifications, notif'[n].lease # "none"
             PROVE  FreshHolder(n)'
  BY DEF LeaseIsHeld
<1>1. AttemptInv /\ TypeInv
  BY DEF DriverInv, CarryInv, SubmitInv, StatusInv, AttemptInv
<1>2. LeaseIsHeld /\ \A w \in Workers : ~CrashWorker(w)
  BY <1>1, UndisturbedStep DEF DriverInv
<1>3. attempts'[n] = attempts[n]
  BY <1>1, OutcomeStep, OutcomeFacts
<1>4. CASE Claimed(n)
  <2>1. PICK w \in Workers : Claim(w) /\ Target(w) = n
    BY <1>4 DEF Claimed
  <2>2. worker'[w].stage = "claimed" /\ worker'[w].message = worker[w].message
    BY <1>1, <2>1 DEF Claim, TypeInv, TypeOK, WorkerTypeOK, WorkerStates
  <2> QED BY <2>1, <2>2 DEF FreshHolder, Fresh, Holding, Target
<1>5. CASE notif[n].lease # "none"
  <2>1. PICK w \in Workers : Holding(w, n) /\ Fresh(w)
    BY <1>2, <1>5 DEF LeaseIsHeld, FreshHolder
  <2>2. Fresh(w)' /\ Holding(w, n)'
    BY <1>1, <1>2, <1>3, <2>1, FreshTaskStep DEF Holding
  <2> QED BY <2>2 DEF FreshHolder
<1> QED BY <1>1, <1>4, <1>5, RowFate
        DEF Created, Recorded, Expired, Queued, Recovered, Operated, Reported, SameLease

LEMMA OnTheWayStep ==
    ASSUME DriverInv, CarryInv', [Next]_vars, Undisturbed'
    PROVE  AllOnTheWay'
<1> SUFFICES ASSUME NEW n \in Notifications, DOMAIN outbox'[n] # {}, Unsettled(n)'
             PROVE  OnTheWay(n)'
  BY DEF AllOnTheWay
<1>1. AttemptInv /\ TypeInv /\ RowsExist
  BY DEF DriverInv, CarryInv, SubmitInv, StatusInv, AttemptInv
<1>2. /\ FinalIsSettled /\ LeaseIsHeld /\ AllOnTheWay
      /\ \A w \in Workers : ~CrashWorker(w)
  BY <1>1, UndisturbedStep DEF DriverInv
<1>3. Unsettled(n)
  BY <1>1, UnsettledBefore
<1>4. ASSUME NEW i \in DOMAIN outbox'[n] \ DOMAIN outbox[n] PROVE OnTheWay(n)'
  BY <1>1, NewRowIsPending DEF OnTheWay
<1>5. ASSUME NEW timer \in Timers, broker'[Message(n, timer)] > 0 PROVE OnTheWay(n)'
  BY <1>5 DEF OnTheWay, Message
(* A row whose deadline has not passed. *)
<1>6. ASSUME NEW i \in DOMAIN outbox[n], ~Due(n, outbox[n][i].eta), UNCHANGED <<outbox, elapsed>>
      PROVE  OnTheWay(n)'
  <2>1. outbox[n][i].eta \in Timers /\ outbox[n][i].eta \in Nat /\ elapsed[n] \in Nat
    <3>1. outbox[n][i].eta \in Timers /\ elapsed[n] \in Nat
      BY <1>1, RowType, ElapsedGrows
    <3> QED BY <3>1 DEF Timers
  <2>2. outbox'[n][i].eta > elapsed'[n] /\ i \in DOMAIN outbox'[n]
    BY <1>6, <2>1 DEF Due
  <2>3. Pending(n, i)' \/ broker'[Message(n, outbox'[n][i].eta)] > 0
    BY <2>2 DEF CarryInv, LateRowsWait, Message
  <2>4. outbox'[n][i].eta \in Timers
    BY <1>6, <2>1
  <2> QED BY <1>5, <2>2, <2>3, <2>4 DEF OnTheWay
<1>7. ASSUME NEW w \in Workers, Target(w) = n, Fresh(w) PROVE OnTheWay(n)'
  <2>1. CASE attempts'[n] = attempts[n]
    BY <1>1, <1>2, <1>7, <2>1, FreshTaskStep DEF OnTheWay, FreshTask
  <2>2. CASE attempts'[n] # attempts[n]
    <3>1. PICK v \in Workers : Outcome(v) /\ Target(v) = n
      BY <1>1, <2>2, OutcomeStep
    <3>2. Target(v)' = n
      <4>1. Finish(v) /\ worker \in [Workers -> WorkerStates]
        BY <1>1, <3>1, OutcomeFacts DEF Records, TypeInv, TypeOK, WorkerTypeOK
      <4> QED BY <3>1, <4>1 DEF Finish, Target, IdleWorker
    <3>3. RecordDeferred(v)
      BY <1>1, <3>1, <3>2, UnsettledOutcome DEF Unsettled
    <3>4. Backoff(worker[v].number) \in Timers
      BY <1>1, <3>3, TimersType DEF RecordDeferred, TypeInv, TypeOK, WorkerTypeOK, WorkerStates
    <3>5. Len(outbox[n]) + 1 \in DOMAIN outbox'[n] \ DOMAIN outbox[n]
      BY <1>1, <3>1, <3>3, <3>4, AddedRow DEF RecordDeferred
    <3> QED BY <1>4, <3>5
  <2> QED BY <2>1, <2>2
<1>8. ASSUME NEW i \in DOMAIN outbox[n], Pending(n, i) PROVE OnTheWay(n)'
  <2>1. outbox[n][i].eta \in Timers /\ i \in DOMAIN outbox'[n]
    BY <1>1, RowType, OutboxRowFate
  <2> QED BY <1>1, <1>5, <1>8, <2>1, PendingStep DEF OnTheWay
<1>9. ASSUME NEW timer \in Timers, broker[Message(n, timer)] > 0 PROVE OnTheWay(n)'
  <2> DEFINE m == Message(n, timer)
  <2>1. m \in Messages /\ m.notification = n /\ m.eta = timer
    BY DEF Message, Messages
  <2>2. broker[m] \in Nat
    BY <1>1, <2>1 DEF TypeInv, TypeOK, StoreTypeOK
  <2>3. notif[n].status # "absent"
    BY <1>9 DEF DriverInv, CarryInv, SubmitInv, Touched
  <2>4. notif[n].status \notin FinalStatuses
    BY <1>2, <1>3 DEF FinalIsSettled
  <2> HIDE DEF m
  <2>5. ASSUME NEW w \in Workers, ReturnEarly(w, m) PROVE OnTheWay(n)'
    <3>1. ~Due(n, ScheduledAt(n)) \/ ~Due(n, notif[n].next)
      BY <2>1, <2>4, <2>5 DEF ReturnEarly, NothingToDo
    <3>2. UNCHANGED <<outbox, elapsed>>
      BY <2>5 DEF ReturnEarly, rows
    <3>3. \E i \in DOMAIN outbox[n] : outbox[n][i].eta = ScheduledAt(n)
      BY <2>3 DEF DriverInv, CarryInv, SubmitInv, Submitted
    <3>4. notif[n].next # NoTimer => \E i \in DOMAIN outbox[n] : outbox[n][i].eta = notif[n].next
      BY DEF DriverInv, CarryInv, BackoffsCarried
    <3>5. notif[n].next = NoTimer => Due(n, notif[n].next)
      BY <1>1, ElapsedGrows DEF Due, NoTimer
    <3> QED BY <1>6, <3>1, <3>2, <3>3, <3>4, <3>5
  <2>6. ASSUME NEW w \in Workers, RefuseLease(w, m) PROVE OnTheWay(n)'
    <3>1. notif[n].lease = "live"
      BY <2>1, <2>6 DEF RefuseLease, LeaseHeld
    <3>2. PICK v \in Workers : Holding(v, n) /\ Fresh(v)
      BY <1>2, <3>1 DEF LeaseIsHeld, FreshHolder
    <3> QED BY <1>7, <3>2 DEF Holding
  <2>7. ASSUME NEW w \in Workers, Receive(w, m) PROVE OnTheWay(n)'
    <3>1. worker'[w].stage = "read" /\ worker'[w].message = m
      BY <1>1, <2>7 DEF Receive, TypeInv, TypeOK, WorkerTypeOK, WorkerStates
    <3> QED BY <2>1, <3>1 DEF OnTheWay, FreshTask, Fresh, Target
  <2>8. CASE broker'[m] > 0
    BY <1>5, <2>8 DEF m
  <2> QED BY <1>1, <1>9, <2>1, <2>2, <2>5, <2>6, <2>7, <2>8, MessageFate DEF m, Takes
<1>10. CASE DOMAIN outbox[n] # {}
  BY <1>2, <1>3, <1>7, <1>8, <1>9, <1>10 DEF AllOnTheWay, OnTheWay, FreshTask
<1>11. CASE DOMAIN outbox[n] = {}
  BY <1>4, <1>11
<1> QED BY <1>10, <1>11

LEMMA DriverInvariant == Spec => []DriverInv
<1>1. Init => DriverInv
  <2> SUFFICES ASSUME Init PROVE DriverInv
    OBVIOUS
  <2>1. NoOperation
    BY DEF Init, SessionInit, IdleSession, NoOperation, Operations
  <2>2. FinalIsSettled /\ LeaseIsHeld /\ AllOnTheWay
    BY DEF Init, StoreInit, AbsentRow, FinalIsSettled, FinalStatuses, LeaseIsHeld, AllOnTheWay
  <2> QED BY <2>1, <2>2, CarryInit DEF DriverInv
<1>2. DriverInv /\ [Next]_vars => DriverInv'
  <2> SUFFICES ASSUME DriverInv, [Next]_vars PROVE DriverInv'
    OBVIOUS
  <2>1. CarryInv'
    BY CarryStep DEF DriverInv
  <2>2. ASSUME Undisturbed' PROVE NoOperation'
    <3>1. TypeInv /\ faults'.operations = 0
      BY <2>2 DEF DriverInv, CarryInv, SubmitInv, StatusInv, AttemptInv, Undisturbed
    <3>2. NoOperation
      BY <2>2, <3>1, UndisturbedStep DEF DriverInv
    <3> QED BY <3>1, <3>2, NoOperationStep
  <2> QED BY <2>1, <2>2, FinalStep, LeaseHeldStep, OnTheWayStep DEF DriverInv
<1> QED BY <1>1, <1>2, PTL DEF Spec

(* At-least-once delivery: early returns, refused leases, lost races and   *)
(* stale commits of publishers, any number of them, acknowledge no message *)
(* that a waiting notification needs, as long as nothing crashes and no    *)
(* operator intervenes.                                                    *)
THEOREM NothingIsForgotten == Spec => []NoNotificationForgotten
<1>1. DriverInv => NoNotificationForgotten
  <2> SUFFICES ASSUME DriverInv, Undisturbed, NEW n \in Notifications,
                      notif[n].status \in Waiting, Unsettled(n)
               PROVE  HasDriver(n)
    BY DEF NoNotificationForgotten, UnsettledHasDriver, Undisturbed
  <2>1. Submitted(n)
    BY DEF DriverInv, CarryInv, SubmitInv, Waiting
  <2>2. OnTheWay(n)
    BY <2>1 DEF DriverInv, AllOnTheWay, Submitted
  <2> QED BY <2>2 DEF OnTheWay, HasDriver, Pending, FreshTask, Fresh, Calling
<1> QED BY <1>1, DriverInvariant, PTL

-----------------------------------------------------------------------------
(* How the size of a set changes.                                          *)
LEMMA NoMore ==
    ASSUME NEW S, IsFiniteSet(S), NEW T, T \subseteq S
    PROVE  /\ IsFiniteSet(T)
           /\ Cardinality(S) \in Nat /\ Cardinality(T) \in Nat
           /\ Cardinality(T) <= Cardinality(S)
<1>1. T \in SUBSET S
  OBVIOUS
<1>2. IsFiniteSet(T) /\ Cardinality(T) <= Cardinality(S)
  BY <1>1, FS_Subset
<1> QED BY <1>2, FS_CardinalityType

LEMMA OneMore ==
    ASSUME NEW S, IsFiniteSet(S), NEW x, NEW T, T \subseteq S \cup {x}
    PROVE  /\ IsFiniteSet(T)
           /\ Cardinality(S) \in Nat /\ Cardinality(T) \in Nat
           /\ Cardinality(T) <= Cardinality(S) + 1
<1>1. /\ IsFiniteSet(S \cup {x})
      /\ Cardinality(S \cup {x}) <= Cardinality(S) + 1
      /\ Cardinality(S) \in Nat
  <2>1. Cardinality(S) \in Nat
    BY FS_CardinalityType
  <2>2. /\ IsFiniteSet(S \cup {x})
        /\ Cardinality(S \cup {x}) = IF x \in S THEN Cardinality(S) ELSE Cardinality(S) + 1
    BY FS_AddElement
  <2> QED BY <2>1, <2>2
<1>2. /\ IsFiniteSet(T) /\ Cardinality(T) \in Nat /\ Cardinality(S \cup {x}) \in Nat
      /\ Cardinality(T) <= Cardinality(S \cup {x})
  BY <1>1, NoMore
<1> QED BY <1>1, <1>2

LEMMA OneLess ==
    ASSUME NEW S, IsFiniteSet(S), NEW x \in S, NEW T, T \subseteq S \ {x}
    PROVE  /\ IsFiniteSet(T)
           /\ Cardinality(S) \in Nat /\ Cardinality(T) \in Nat
           /\ Cardinality(T) + 1 <= Cardinality(S)
<1>1. /\ IsFiniteSet(S \ {x})
      /\ Cardinality(S \ {x}) = Cardinality(S) - 1
      /\ Cardinality(S) \in Nat
  BY FS_RemoveElement, FS_CardinalityType
<1>2. /\ IsFiniteSet(T) /\ Cardinality(T) \in Nat /\ Cardinality(S \ {x}) \in Nat
      /\ Cardinality(T) <= Cardinality(S \ {x})
  BY <1>1, NoMore
<1> QED BY <1>1, <1>2

-----------------------------------------------------------------------------
(* What may still start a provider call for n: a pending row, a message, a *)
(* lease that nobody with a free number holds, and the tasks under way.    *)
(* One submission is one such start.  Publisher, worker and reconciler     *)
(* only turn one start into another, into a task, an attempt or nothing,   *)
(* so starts, tasks and what they led to never sum up to more than one and *)
(* what the faults added.                                                  *)
PendingRows(n) == {i \in DOMAIN outbox[n] : Pending(n, i)}

Queue(n) == {c \in Timers \X Nat : c[2] < broker[Message(n, c[1])]}

Recoverable(n) ==
    \/ n \in stuck
    \/ notif[n].status = "processing" /\ notif[n].lease = "expired"
    \/ notif[n].status = "processing" /\ notif[n].lease = "live" /\ ~FreshHolder(n)

Starts(n) ==
    Cardinality(PendingRows(n)) + Cardinality(Queue(n)) + (IF Recoverable(n) THEN 1 ELSE 0)

Tasks(n) == {w \in Workers : Target(w) = n /\ worker[w].stage \notin {"idle", "finished"}}

(* Those of them that a provider may yet accept, or accepted without the   *)
(* task knowing.                                                           *)
OpenTasks(n) == {w \in Tasks(n) : worker[w].result \in {"none", "retryable"}}

(* The attempts beyond the budget, counting the last of it as one. *)
Beyond(n) ==
    IF Cardinality(attempts[n]) >= MaxAttempts
    THEN Cardinality(attempts[n]) - MaxAttempts + 1
    ELSE 0

(* One publisher works on a batch of unpublished rows, each row once. *)
RowsOnce ==
    \A p \in Publishers :
        /\ \A r \in publisher[p].batch : ~outbox[r[1]][r[2]].published
        /\ publisher[p].stage \in {"leased", "enqueued", "loaded"}
              => /\ publisher[p].row \notin publisher[p].batch
                 /\ ~outbox[publisher[p].row[1]][publisher[p].row[2]].published

AttemptsPaid(n) ==
    Beyond(n) + Starts(n) + Cardinality(Tasks(n)) <= 1 + faults.crashes + faults.overruns

AcceptancesPaid(n) ==
    accepts[n] + Starts(n) + Cardinality(OpenTasks(n))
        <= 1 + 2 * faults.crashes + faults.overruns + faults.lost

OnePublisher == Cardinality(Publishers) = 1

Unattended == OnePublisher /\ faults.operations = 0

BudgetInv ==
    /\ SubmitInv
    /\ AnswersAreFresh
    /\ \A n \in Notifications :
          /\ IsFiniteSet(Queue(n)) /\ IsFiniteSet(Tasks(n))
          /\ notif[n].status = "absent" => accepts[n] = 0
    /\ Unattended => /\ NoOperation
                     /\ RowsOnce
                     /\ \A n \in Notifications : AttemptsPaid(n) /\ AcceptancesPaid(n)

-----------------------------------------------------------------------------
LEMMA SinglePublisher ==
    ASSUME OnePublisher, NEW p \in Publishers, NEW q \in Publishers
    PROVE  p = q
  BY PublishersAssumption, FS_Singleton DEF OnePublisher

LEMMA RowsOnceStep ==
    ASSUME TypeInv, RowsExist, OnePublisher, RowsOnce, [Next]_vars
    PROVE  RowsOnce'
<1>1. TypeInv /\ TypeInv' /\ RowsExist'
  BY TypeStep, RowsExistStep
<1> SUFFICES ASSUME NEW p \in Publishers
             PROVE  /\ \A r \in publisher'[p].batch : ~outbox'[r[1]][r[2]].published
                    /\ publisher'[p].stage \in {"leased", "enqueued", "loaded"}
                          => /\ publisher'[p].row \notin publisher'[p].batch
                             /\ ~outbox'[publisher'[p].row[1]][publisher'[p].row[2]].published
  BY DEF RowsOnce
(* A row stays unpublished unless p itself commits it. *)
<1>2. ASSUME NEW r \in RowNames, Exists(r), ~outbox[r[1]][r[2]].published,
             ~(CommitPublished(p) /\ publisher[p].row = r)
      PROVE  ~outbox'[r[1]][r[2]].published
  <2>1. r[1] \in Notifications /\ r = <<r[1], r[2]>>
    BY DEF RowNames
  <2>2. \A q \in Publishers : q = p
    BY SinglePublisher
  <2> QED BY <1>1, <1>2, <2>1, <2>2, OutboxRowFate DEF Exists
<1>3. ASSUME NEW r \in publisher[p].batch
      PROVE  r \in RowNames /\ Exists(r) /\ ~outbox[r[1]][r[2]].published
  BY <1>1, <1>3 DEF TypeInv, TypeOK, PublisherTypeOK, PublisherStates, RowsExist, RowsOnce
<1>4. ASSUME publisher[p].stage \in {"leased", "enqueued", "loaded"}
      PROVE  /\ publisher[p].row \in RowNames /\ Exists(publisher[p].row)
             /\ ~outbox[publisher[p].row[1]][publisher[p].row[2]].published
             /\ publisher[p].row \notin publisher[p].batch
  BY <1>1, <1>4 DEF TypeInv, PublishersHaveRows, RowsExist, RowsOnce
<1>5. CommitPublished(p) => publisher[p].stage = "loaded" /\ publisher'[p].stage \in {"idle", "selected"}
  <2>1. CommitPublished(p) => publisher[p].stage = "loaded"
    BY DEF CommitPublished
  <2>2. CommitPublished(p) => publisher'[p] # publisher[p]
    <3>1. ASSUME CommitPublished(p) PROVE publisher'[p].stage \in {"idle", "selected"}
      <4>1. publisher \in [Publishers -> PublisherStates]
        BY <1>1 DEF TypeInv, TypeOK, PublisherTypeOK
      <4>2. CASE publisher[p].batch = {}
        BY <3>1, <4>1, <4>2 DEF CommitPublished, NextRow, IdlePublisher
      <4>3. CASE publisher[p].batch # {}
        BY <3>1, <4>1, <4>3 DEF CommitPublished, NextRow
      <4> QED BY <4>2, <4>3
    <3> QED BY <2>1, <3>1
  <2> QED BY <1>1, <2>1, <2>2, PublisherFate DEF Selected, SelectBatch, Leased, LeaseRow, Advanced, Enqueue, Left
<1>6. CASE publisher'[p] = publisher[p]
  <2>1. ~CommitPublished(p)
    BY <1>5, <1>6
  <2> QED BY <1>2, <1>3, <1>4, <1>6, <2>1
<1>7. CASE Selected(p)
  <2>1. outbox' = outbox /\ publisher'[p].batch = Selectable /\ publisher'[p].stage = "selected"
    BY <1>7 DEF Selected, SelectBatch, storeVars, rows
  <2>2. ASSUME NEW r \in Selectable PROVE ~outbox[r[1]][r[2]].published
    BY <2>2 DEF Selectable, SelectableRow
  <2> QED BY <2>1, <2>2
<1>8. CASE Leased(p)
  <2>1. PICK r \in publisher[p].batch :
            /\ LeaseRow(p, r) /\ publisher'[p].stage = "leased" /\ publisher'[p].row = r
            /\ publisher'[p].batch = publisher[p].batch \ {r}
    BY <1>8 DEF Leased
  <2>2. ~CommitPublished(p)
    BY <1>5, <2>1
  <2> QED BY <1>2, <1>3, <2>1, <2>2
<1>9. CASE Advanced(p)
  <2>1. ~CommitPublished(p)
    BY <1>5, <1>9 DEF Advanced
  <2>2. publisher[p].stage \in {"leased", "enqueued", "loaded"}
    BY <1>9 DEF Advanced, Enqueue
  <2> QED BY <1>2, <1>3, <1>4, <1>9, <2>1, <2>2 DEF Advanced
<1>10. CASE Left(p)
  <2>1. ASSUME NEW r \in publisher'[p].batch PROVE ~outbox'[r[1]][r[2]].published
    <3>1. r \in publisher[p].batch
      BY <1>10 DEF Left
    <3>2. ~(CommitPublished(p) /\ publisher[p].row = r)
      BY <1>4, <1>5, <3>1
    <3> QED BY <1>2, <1>3, <3>1, <3>2
  <2> QED BY <1>10, <2>1 DEF Left
<1> QED BY <1>1, <1>6, <1>7, <1>8, <1>9, <1>10, PublisherFate

-----------------------------------------------------------------------------
(* What a step does to the pending rows, the queue, the lease and the      *)
(* tasks of one notification.                                              *)
LEMMA PendingRowsFinite ==
    ASSUME TypeInv, TypeInv', NEW n \in Notifications
    PROVE  IsFiniteSet(PendingRows(n)) /\ IsFiniteSet(PendingRows(n))'
<1>1. ASSUME NEW s \in Seq(OutboxRows) PROVE IsFiniteSet(DOMAIN s)
  <2>1. DOMAIN s = 1 .. Len(s) /\ Len(s) \in Nat
    OBVIOUS
  <2>2. IsFiniteSet(1 .. Len(s))
    BY <2>1, FS_Interval
  <2> QED BY <2>1, <2>2
<1>2. outbox[n] \in Seq(OutboxRows) /\ outbox'[n] \in Seq(OutboxRows)
  BY DEF TypeInv, TypeOK, StoreTypeOK
<1>3. IsFiniteSet(DOMAIN outbox[n]) /\ IsFiniteSet(DOMAIN outbox'[n])
  BY <1>1, <1>2
<1>4. PendingRows(n) \subseteq DOMAIN outbox[n] /\ PendingRows(n)' \subseteq DOMAIN outbox'[n]
  BY DEF PendingRows
<1> QED BY <1>3, <1>4, NoMore

LEMMA CommitMarks ==
    ASSUME TypeInv, NEW p \in Publishers, CommitPublished(p), NEW n \in Notifications,
           NEW i \in DOMAIN outbox[n], publisher[p].row = <<n, i>>
    PROVE  outbox'[n][i].published
<1>1. outbox \in [Notifications -> Seq(OutboxRows)] /\ outbox[n][i] \in OutboxRows
  BY DEF TypeInv, TypeOK, StoreTypeOK
<1>2. outbox'[n] = [outbox[n] EXCEPT ![i].published = TRUE, ![i].lease = "none"]
  BY <1>1 DEF CommitPublished
<1> DEFINE marked == [outbox[n][i] EXCEPT !.published = TRUE]
<1>3. marked \in OutboxRows /\ marked.published
  BY <1>1, Columns DEF Leases
<1>4. outbox'[n][i] = [marked EXCEPT !.lease = "none"]
  BY <1>2
<1> HIDE DEF marked
<1> QED BY <1>3, <1>4, Columns DEF Leases

(* A pending row was pending, is new, or its publisher died.               *)
LEMMA PendingRowsStep ==
    ASSUME TypeInv, [Next]_vars, NEW n \in Notifications, NEW i \in PendingRows(n)'
    PROVE  \/ i \in PendingRows(n)
           \/ Adds(n) /\ i = Len(outbox[n]) + 1 /\ i \notin DOMAIN outbox[n]
           \/ \E p \in Publishers : CrashPublisher(p) /\ publisher[p].row = <<n, i>>
<1>1. i \in DOMAIN outbox'[n] /\ ~outbox'[n][i].published /\ ~PastEnqueue(<<n, i>>)'
  BY DEF PendingRows, Pending
<1>2. CASE i \notin DOMAIN outbox[n]
  BY <1>1, <1>2, NewRowFate
<1>3. CASE i \in DOMAIN outbox[n]
  <2>1. ~outbox[n][i].published
    BY <1>1, <1>3, OutboxRowFate
  <2>2. ASSUME NEW p \in Publishers, publisher[p].stage \in {"enqueued", "loaded"},
               publisher[p].row = <<n, i>>
        PROVE  CrashPublisher(p)
    <3>1. ~(publisher'[p].stage \in {"enqueued", "loaded"} /\ publisher'[p].row = <<n, i>>)
      BY <1>1 DEF PastEnqueue
    <3>2. Left(p)
      BY <2>2, <3>1, PublisherFate DEF Selected, SelectBatch, Leased, LeaseRow, Advanced
    <3> QED BY <1>1, <1>3, <2>2, <3>2, CommitMarks DEF Left, EnqueueFails
  <2> QED BY <1>3, <2>1, <2>2 DEF PendingRows, Pending, PastEnqueue
<1> QED BY <1>2, <1>3

LEMMA EnqueuedRow ==
    ASSUME TypeInv, RowsExist, RowsOnce, OnePublisher, [Next]_vars,
           NEW p \in Publishers, Enqueue(p)
    PROVE  \E n \in Notifications, i \in Nat :
              /\ publisher[p].row = <<n, i>>
              /\ RowMessage(publisher[p].row) \in Messages
              /\ RowMessage(publisher[p].row).notification = n
              /\ i \in PendingRows(n) /\ i \notin PendingRows(n)'
<1>1. publisher[p].stage = "leased" /\ publisher[p].row \in RowNames /\ Exists(publisher[p].row)
  BY DEF Enqueue, TypeInv, PublishersHaveRows, RowsExist
<1>2. PICK n \in Notifications, i \in Nat : publisher[p].row = <<n, i>>
  BY <1>1 DEF RowNames
<1>3. i \in DOMAIN outbox[n] /\ ~outbox[n][i].published
  BY <1>1, <1>2 DEF Exists, RowsOnce
<1>4. /\ RowMessage(publisher[p].row) \in Messages
      /\ RowMessage(publisher[p].row).notification = n
  <2>1. outbox[n][i].eta \in Timers
    BY <1>3, RowType
  <2> QED BY <1>2, <2>1 DEF RowMessage, Message, Messages
<1>5. ~PastEnqueue(<<n, i>>)
  BY <1>1, SinglePublisher DEF PastEnqueue
<1>6. publisher'[p].stage = "enqueued" /\ publisher'[p].row = <<n, i>>
  BY <1>2 DEF Enqueue, TypeInv, TypeOK, PublisherTypeOK, PublisherStates
<1>7. PastEnqueue(<<n, i>>)'
  BY <1>6 DEF PastEnqueue
<1>8. i \in PendingRows(n) /\ i \notin PendingRows(n)'
  BY <1>3, <1>5, <1>7 DEF PendingRows, Pending
<1> QED BY <1>2, <1>4, <1>8

(* One message taken out of the queue, or put into it. *)
LEMMA QueueTaken ==
    ASSUME TypeInv, NEW m \in Messages, broker[m] > 0, Take(m)
    PROVE  /\ <<m.eta, broker[m] - 1>> \in Queue(m.notification)
           /\ Queue(m.notification)' \subseteq Queue(m.notification) \ {<<m.eta, broker[m] - 1>>}
           /\ \A n \in Notifications : n # m.notification => Queue(n)' = Queue(n)
<1>1. broker \in [Messages -> Nat] /\ broker[m] \in Nat
  BY DEF TypeInv, TypeOK, StoreTypeOK
<1>2. m = Message(m.notification, m.eta) /\ m.eta \in Timers
  BY DEF Message, Messages
<1>3. ASSUME NEW n \in Notifications, NEW timer \in Timers
      PROVE  /\ Message(n, timer) \in Messages
             /\ Message(n, timer) = m => n = m.notification /\ timer = m.eta
  BY DEF Message, Messages
<1>4. <<m.eta, broker[m] - 1>> \in Queue(m.notification)
  BY <1>1, <1>2 DEF Queue
<1>5. ASSUME NEW n \in Notifications, NEW c \in Queue(n)'
      PROVE  c \in Queue(n) /\ (n = m.notification => c # <<m.eta, broker[m] - 1>>)
  <2>1. c \in Timers \X Nat /\ c[2] < broker'[Message(n, c[1])]
    BY <1>5 DEF Queue, Message
  <2>2. c[1] \in Timers /\ c[2] \in Nat
    BY <2>1
  <2>3. CASE Message(n, c[1]) = m
    <3>1. broker'[m] = broker[m] - 1
      BY <1>1 DEF Take
    <3> QED BY <1>1, <2>1, <2>2, <2>3, <3>1 DEF Queue
  <2>4. CASE Message(n, c[1]) # m
    <3>1. broker'[Message(n, c[1])] = broker[Message(n, c[1])]
      BY <1>1, <1>3, <2>2, <2>4 DEF Take
    <3>2. n = m.notification => c[1] # m.eta
      BY <1>2, <2>4
    <3> QED BY <2>1, <3>1, <3>2 DEF Queue
  <2> QED BY <2>3, <2>4
<1>6. ASSUME NEW n \in Notifications, n # m.notification, NEW c \in Queue(n)
      PROVE  c \in Queue(n)'
  <2>1. c \in Timers \X Nat /\ c[2] < broker[Message(n, c[1])]
    BY <1>6 DEF Queue
  <2>2. broker'[Message(n, c[1])] = broker[Message(n, c[1])]
    BY <1>1, <1>3, <1>6, <2>1 DEF Take
  <2> QED BY <2>1, <2>2 DEF Queue, Message
<1>7. m.notification \in Notifications
  BY DEF Messages
<1> QED BY <1>4, <1>5, <1>6, <1>7

LEMMA QueueAdded ==
    ASSUME TypeInv, NEW m \in Messages, broker' = [broker EXCEPT ![m] = @ + 1]
    PROVE  /\ Queue(m.notification)' \subseteq Queue(m.notification) \cup {<<m.eta, broker[m]>>}
           /\ \A n \in Notifications : n # m.notification => Queue(n)' = Queue(n)
<1>1. broker \in [Messages -> Nat] /\ broker[m] \in Nat
  BY DEF TypeInv, TypeOK, StoreTypeOK
<1>2. m = Message(m.notification, m.eta) /\ m.eta \in Timers /\ m.notification \in Notifications
  BY DEF Message, Messages
<1>3. ASSUME NEW n \in Notifications, NEW timer \in Timers
      PROVE  /\ Message(n, timer) \in Messages
             /\ Message(n, timer) = m => n = m.notification /\ timer = m.eta
  BY DEF Message, Messages
<1>4. ASSUME NEW c \in Queue(m.notification)'
      PROVE  c \in Queue(m.notification) \cup {<<m.eta, broker[m]>>}
  <2> DEFINE k == Message(m.notification, c[1])
  <2>1. c \in Timers \X Nat /\ c[2] < broker'[k]
    BY <1>4 DEF Queue, Message
  <2>2. c[1] \in Timers /\ c[2] \in Nat /\ c = <<c[1], c[2]>>
    BY <2>1
  <2>3. k \in Messages /\ (k = m => c[1] = m.eta)
    BY <1>2, <1>3, <2>2
  <2>4. c \in Queue(m.notification) <=> c[2] < broker[k]
    BY <2>1 DEF Queue
  <2> HIDE DEF k
  <2>5. CASE k = m
    <3>1. broker'[m] = broker[m] + 1
      BY <1>1
    <3> QED BY <1>1, <2>1, <2>2, <2>3, <2>4, <2>5, <3>1
  <2>6. CASE k # m
    BY <1>1, <2>1, <2>3, <2>4, <2>6
  <2> QED BY <2>5, <2>6
<1>5. ASSUME NEW n \in Notifications, n # m.notification
      PROVE  Queue(n)' = Queue(n)
  <2>1. ASSUME NEW timer \in Timers PROVE broker'[Message(n, timer)] = broker[Message(n, timer)]
    BY <1>1, <1>3, <1>5
  <2>2. ASSUME NEW c \in Timers \X Nat
        PROVE  c[2] < broker'[Message(n, c[1])] <=> c[2] < broker[Message(n, c[1])]
    BY <2>1
  <2> QED BY <2>2 DEF Queue, Message
<1> QED BY <1>4, <1>5

(* What makes a lease recoverable: a dead holder, or one that overran it.  *)
LEMMA RecoverableStep ==
    ASSUME AttemptInv, NoOperation, [Next]_vars, NEW n \in Notifications, Recoverable(n)'
    PROVE  \/ Recoverable(n)
           \/ \E w \in Workers : CrashWorker(w) /\ Holding(w, n)
           \/ SpendOverrun
<1>1. TypeInv
  BY DEF AttemptInv
<1>2. ~Operated(n)
  BY DEF Operated, NoOperation
<1>3. CASE n \in stuck'
  <2>1. CASE ReconcilerNext
    BY <1>3, <2>1 DEF ReconcilerNext, ScanStuck, CommitRecovery, IsStuck, Recoverable
  <2>2. CASE stuck' = stuck
    BY <1>3, <2>2 DEF Recoverable
  <2> QED BY <2>1, <2>2 DEF Next, vars
<1>4. CASE notif'[n].status = "processing" /\ notif'[n].lease = "expired"
  <2>1. CASE notif'[n] = notif[n]
    BY <1>4, <2>1 DEF Recoverable
  <2>2. CASE Expired(n)
    <3>1. CASE \E w \in Workers : Holding(w, n)
      BY <2>2, <3>1 DEF Expired, ExpireLease
    <3>2. CASE ~\E w \in Workers : Holding(w, n)
      BY <1>4, <2>2, <3>2 DEF Expired, Recoverable, FreshHolder
    <3> QED BY <3>1, <3>2
  <2> QED BY <1>1, <1>2, <1>4, <2>1, <2>2, RowFate
          DEF Created, Claimed, Recorded, Queued, Recovered, Reported
<1>5. CASE notif'[n].status = "processing" /\ notif'[n].lease = "live" /\ ~FreshHolder(n)'
  <2>1. CASE notif'[n] = notif[n]
    <3>1. CASE ~FreshHolder(n)
      BY <1>5, <2>1, <3>1 DEF Recoverable
    <3>2. ASSUME NEW w \in Workers, Holding(w, n), Fresh(w), ~CrashWorker(w)
          PROVE  FALSE
      <4>1. attempts'[n] = attempts[n]
        BY <1>5, OutcomeStep, OutcomeFacts
      <4>2. Fresh(w)' /\ Holding(w, n)'
        BY <3>2, <4>1, FreshTaskStep DEF Holding
      <4> QED BY <1>5, <4>2 DEF FreshHolder
    <3> QED BY <3>1, <3>2 DEF FreshHolder
  <2>2. CASE Claimed(n)
    <3>1. PICK w \in Workers : Claim(w) /\ Target(w) = n
      BY <2>2 DEF Claimed
    <3>2. worker'[w].stage = "claimed" /\ worker'[w].message = worker[w].message
      BY <1>1, <3>1 DEF Claim, TypeInv, TypeOK, WorkerTypeOK, WorkerStates
    <3> QED BY <1>5, <3>1, <3>2 DEF FreshHolder, Fresh, Holding, Target
  <2> QED BY <1>1, <1>2, <1>5, <2>1, <2>2, RowFate
          DEF Created, Recorded, Expired, Queued, Recovered, Reported
<1>6. \/ n \in stuck'
      \/ notif'[n].status = "processing" /\ notif'[n].lease = "expired"
      \/ notif'[n].status = "processing" /\ notif'[n].lease = "live" /\ ~FreshHolder(n)'
  BY DEF Recoverable
<1> QED BY <1>3, <1>4, <1>5, <1>6

(* The tasks when one of them moves. *)
LEMMA OneTaskMoves ==
    ASSUME NEW n \in Notifications, NEW w \in Workers,
           \A v \in Workers : v # w => worker'[v] = worker[v]
    PROVE  /\ Tasks(n)' \subseteq Tasks(n) \cup {w}
           /\ OpenTasks(n)' \subseteq OpenTasks(n) \cup {w}
           /\ worker'[w].stage \in {"idle", "finished"}
                 => Tasks(n)' \subseteq Tasks(n) \ {w} /\ OpenTasks(n)' \subseteq OpenTasks(n) \ {w}
           /\ worker'[w].result \notin {"none", "retryable"}
                 => OpenTasks(n)' \subseteq OpenTasks(n) \ {w}
           /\ worker[w].stage \notin {"idle", "finished"} /\ worker'[w].message = worker[w].message
                 => /\ Tasks(n)' \subseteq Tasks(n)
                    /\ worker[w].result \in {"none", "retryable"}
                          => OpenTasks(n)' \subseteq OpenTasks(n)
           /\ worker'[w].message.notification # n
                 => Tasks(n)' \subseteq Tasks(n) /\ OpenTasks(n)' \subseteq OpenTasks(n)
  BY DEF Tasks, OpenTasks, Target

-----------------------------------------------------------------------------
(* What holds before a step without operator requests.                     *)
Steady ==
    /\ AttemptInv /\ RowsExist /\ NoOperation /\ RowsOnce /\ OnePublisher
    /\ \A n \in Notifications : IsFiniteSet(Queue(n)) /\ IsFiniteSet(Tasks(n))

LEMMA StartsChange ==
    ASSUME NEW n \in Notifications,
           IsFiniteSet(PendingRows(n)), IsFiniteSet(PendingRows(n))',
           IsFiniteSet(Queue(n)), IsFiniteSet(Queue(n))',
           NEW a \in Int, Cardinality(PendingRows(n))' <= Cardinality(PendingRows(n)) + a,
           NEW b \in Int, Cardinality(Queue(n))' <= Cardinality(Queue(n)) + b,
           NEW c \in {0, 1}, c = 0 => (Recoverable(n)' => Recoverable(n))
    PROVE  /\ Starts(n) \in Nat /\ Starts(n)' \in Nat
           /\ Starts(n)' <= Starts(n) + a + b + c
           /\ Recoverable(n) /\ ~Recoverable(n)' => Starts(n)' <= Starts(n) + a + b - 1
<1>1. /\ Cardinality(PendingRows(n)) \in Nat /\ Cardinality(PendingRows(n))' \in Nat
      /\ Cardinality(Queue(n)) \in Nat /\ Cardinality(Queue(n))' \in Nat
  BY FS_CardinalityType
<1>2. ASSUME NEW r \in Nat, NEW s \in Nat, s <= r + a,
             NEW q \in Nat, NEW p \in Nat, p <= q + b,
             NEW d \in {0, 1}, NEW e \in {0, 1}, e <= d + c
      PROVE  /\ r + q + d \in Nat /\ s + p + e \in Nat
             /\ s + p + e <= r + q + d + a + b + c
             /\ d = 1 /\ e = 0 => s + p + e <= r + q + d + a + b - 1
  BY <1>2
<1> DEFINE d == IF Recoverable(n) THEN 1 ELSE 0
           e == IF Recoverable(n)' THEN 1 ELSE 0
<1>3. d \in {0, 1} /\ e \in {0, 1} /\ e <= d + c /\ (Recoverable(n) /\ ~Recoverable(n)' => d = 1 /\ e = 0)
  OBVIOUS
<1>4. /\ Starts(n) = Cardinality(PendingRows(n)) + Cardinality(Queue(n)) + d
      /\ Starts(n)' = Cardinality(PendingRows(n))' + Cardinality(Queue(n))' + e
  BY DEF Starts
<1> HIDE DEF d, e
<1> QED BY <1>1, <1>2, <1>3, <1>4

(* Nothing new may start when the rows, the publisher and the faults stay. *)
LEMMA StartsKept ==
    ASSUME Steady, [Next]_vars, NEW n \in Notifications,
           outbox'[n] = outbox[n], publisher' = publisher,
           faults'.crashes = faults.crashes, faults'.overruns = faults.overruns
    PROVE  /\ Starts(n) \in Nat
           /\ Queue(n)' \subseteq Queue(n) => Starts(n)' \in Nat /\ Starts(n)' <= Starts(n)
           /\ \A x \in Queue(n) :
                 Queue(n)' \subseteq Queue(n) \ {x} => Starts(n)' \in Nat /\ Starts(n)' + 1 <= Starts(n)
<1>1. TypeInv /\ TypeInv' /\ AttemptInv
  BY TypeStep DEF Steady, AttemptInv
<1>2. IsFiniteSet(PendingRows(n)) /\ IsFiniteSet(PendingRows(n))' /\ IsFiniteSet(Queue(n))
  BY <1>1, PendingRowsFinite DEF Steady
<1>3. PendingRows(n)' = PendingRows(n)
  BY DEF PendingRows, Pending, PastEnqueue
<1>4. Cardinality(PendingRows(n))' <= Cardinality(PendingRows(n)) + 0
  BY <1>2, <1>3, FS_CardinalityType
<1>5. Recoverable(n)' => Recoverable(n)
  BY <1>1, RecoverableStep, FaultCosts, FaultsGrow DEF Steady
<1>6. ASSUME Queue(n)' \subseteq Queue(n) PROVE Starts(n)' \in Nat /\ Starts(n)' <= Starts(n)
  <2>1. /\ IsFiniteSet(Queue(n))'
        /\ Cardinality(Queue(n))' <= Cardinality(Queue(n)) + 0
    BY <1>2, <1>6, NoMore
  <2> QED BY <1>2, <1>4, <1>5, <2>1, StartsChange
<1>7. ASSUME NEW x \in Queue(n), Queue(n)' \subseteq Queue(n) \ {x}
      PROVE  Starts(n)' \in Nat /\ Starts(n)' + 1 <= Starts(n)
  <2>1. IsFiniteSet(Queue(n)') /\ Cardinality(Queue(n)) \in Nat /\ Cardinality(Queue(n)') \in Nat
        /\ Cardinality(Queue(n)') + 1 <= Cardinality(Queue(n))
    BY <1>2, <1>7, OneLess
  <2>2. /\ IsFiniteSet(Queue(n))'
        /\ Cardinality(Queue(n))' <= Cardinality(Queue(n)) + (-1)
    BY <2>1
  <2>3. /\ Starts(n) \in Nat /\ Starts(n)' \in Nat
        /\ Starts(n)' <= Starts(n) + 0 + (-1) + 0
    BY <1>2, <1>4, <1>5, <2>2, StartsChange
  <2> QED BY <2>3
<1>8. Starts(n) \in Nat
  BY <1>2, FS_CardinalityType DEF Starts
<1> QED BY <1>6, <1>7, <1>8

(* What one more attempt does to the budget. *)
LEMMA BeyondStep ==
    ASSUME AttemptInv, NEW n \in Notifications
    PROVE  /\ Beyond(n) \in Nat
           /\ attempts'[n] = attempts[n] => Beyond(n)' = Beyond(n)
           /\ \A w \in Workers :
                 Outcome(w) /\ Target(w) = n
                    => /\ Beyond(n)' \in Nat /\ Beyond(n)' <= Beyond(n) + 1
                       /\ RecordDeferred(w) => Beyond(n)' = 0
<1>1. IsFiniteSet(attempts[n]) /\ Cardinality(attempts[n]) \in Nat
  BY FS_CardinalityType DEF AttemptInv, TypeInv, AttemptsAreFinite
<1>2. Beyond(n) \in Nat
  BY <1>1, MaxAttemptsAssumption DEF Beyond
<1>3. attempts'[n] = attempts[n] => Beyond(n)' = Beyond(n)
  BY DEF Beyond
<1>4. ASSUME NEW w \in Workers, Outcome(w), Target(w) = n
      PROVE  /\ Beyond(n)' \in Nat /\ Beyond(n)' <= Beyond(n) + 1
             /\ RecordDeferred(w) => Beyond(n)' = 0
  <2>1. /\ attempts'[n] = attempts[n] \cup {Entry(w)} /\ Entry(w) \notin attempts[n]
        /\ worker[w].number = Cardinality(attempts[n]) + 1
    BY <1>4, OutcomeFacts DEF Records, NumberTaken, Entry, NextNumber
  <2>2. Cardinality(attempts'[n]) = Cardinality(attempts[n]) + 1
    BY <1>1, <2>1, FS_AddElement
  <2>3. RecordDeferred(w) => Cardinality(attempts[n]) + 1 < MaxAttempts
    BY <2>1 DEF RecordDeferred, RetriesLeft
  <2> QED BY <1>1, <2>2, <2>3, MaxAttemptsAssumption DEF Beyond
<1> QED BY <1>2, <1>3, <1>4

(* Publishers, the reconciler, requests and time. *)
LEMMA OthersStarts ==
    ASSUME Steady, [Next]_vars, ~(WorkerNext /\ UNCHANGED <<publisher, stuck, session>>),
           NEW n \in Notifications, ~CreateNotification(n)
    PROVE  /\ Starts(n) \in Nat /\ Starts(n)' \in Nat
           /\ Starts(n)' <= Starts(n) + (faults'.crashes - faults.crashes)
                                      + (faults'.overruns - faults.overruns)
<1>1. TypeInv /\ TypeInv' /\ AttemptInv /\ RowsExist
  BY TypeStep DEF Steady, AttemptInv
<1>2. IsFiniteSet(PendingRows(n)) /\ IsFiniteSet(PendingRows(n))' /\ IsFiniteSet(Queue(n))
  BY <1>1, PendingRowsFinite DEF Steady
<1>3. worker' = worker
  BY OthersInvisible DEF Invisible
<1>4. /\ \A w \in Workers : ~CrashWorker(w) /\ ~RecordDeferred(w)
  <2>1. ASSUME NEW w \in Workers, CrashWorker(w) PROVE FALSE
    BY <1>1, <1>3, <2>1 DEF CrashWorker, IdleWorker, TypeInv, TypeOK, WorkerTypeOK
  <2>2. ASSUME NEW w \in Workers, RecordDeferred(w) PROVE FALSE
    BY <1>1, <1>3, <2>2 DEF RecordDeferred, RecordOutcome, Finish, IdleWorker, TypeInv, TypeOK, WorkerTypeOK
  <2> QED BY <2>1, <2>2
<1>5. /\ faults.crashes \in Nat /\ faults'.crashes \in Nat /\ faults.crashes <= faults'.crashes
      /\ faults.overruns \in Nat /\ faults'.overruns \in Nat /\ faults.overruns <= faults'.overruns
  BY <1>1, FaultsGrow
<1>6. Recoverable(n)' => Recoverable(n) \/ faults'.overruns = faults.overruns + 1
  BY <1>1, <1>4, RecoverableStep, FaultCosts DEF Steady
<1>7. Adds(n) => CommitRecovery /\ n \in stuck
  BY <1>4 DEF Adds, Steady, NoOperation, CommitRetry, CommitReplay, Operations
<1>8. ASSUME NEW p \in Publishers, Enqueue(p)
      PROVE  Starts(n) \in Nat /\ Starts(n)' \in Nat /\ Starts(n)' <= Starts(n)
  <2>1. faults' = faults /\ outbox' = outbox
    BY <1>8 DEF Enqueue, rows
  <2>2. Recoverable(n)' => Recoverable(n)
    BY <1>5, <1>6, <2>1
  <2>3. ASSUME NEW i \in PendingRows(n)' PROVE i \in PendingRows(n)
    <3>1. i \in DOMAIN outbox[n]
      BY <2>1 DEF PendingRows
    <3> QED BY <1>1, <1>5, <2>1, <3>1, PendingRowsStep, FaultCosts
  <2>4. PICK m \in Notifications, i \in Nat :
            /\ publisher[p].row = <<m, i>>
            /\ RowMessage(publisher[p].row) \in Messages
            /\ RowMessage(publisher[p].row).notification = m
            /\ i \in PendingRows(m) /\ i \notin PendingRows(m)'
    BY <1>1, <1>8, EnqueuedRow DEF Steady
  <2>5. PICK k \in Messages : k = RowMessage(publisher[p].row) /\ k.notification = m
    BY <2>4
  <2>6. broker' = [broker EXCEPT ![k] = @ + 1]
    BY <1>8, <2>5 DEF Enqueue
  <2>7. CASE n = m
    <3>1. PendingRows(n)' \subseteq PendingRows(n) \ {i}
      BY <2>3, <2>4, <2>7
    <3>2. /\ Cardinality(PendingRows(n)) \in Nat /\ Cardinality(PendingRows(n)') \in Nat
          /\ Cardinality(PendingRows(n)') + 1 <= Cardinality(PendingRows(n))
      BY <1>2, <2>4, <2>7, <3>1, OneLess
    <3>3. Cardinality(PendingRows(n))' <= Cardinality(PendingRows(n)) + (-1)
      BY <3>2
    <3>4. Queue(n)' \subseteq Queue(n) \cup {<<k.eta, broker[k]>>}
      BY <1>1, <2>5, <2>6, <2>7, QueueAdded
    <3>5. IsFiniteSet(Queue(n)') /\ Cardinality(Queue(n)') <= Cardinality(Queue(n)) + 1
      BY <1>2, <3>4, OneMore
    <3>6. IsFiniteSet(Queue(n))' /\ Cardinality(Queue(n))' <= Cardinality(Queue(n)) + 1
      BY <3>5
    <3>7. /\ Starts(n) \in Nat /\ Starts(n)' \in Nat
          /\ Starts(n)' <= Starts(n) + (-1) + 1 + 0
      BY <1>2, <2>2, <3>3, <3>6, StartsChange
    <3> QED BY <3>7
  <2>8. CASE n # m
    <3>1. Queue(n)' = Queue(n)
      BY <1>1, <2>5, <2>6, <2>8, QueueAdded
    <3>2. /\ IsFiniteSet(Queue(n))'
          /\ Cardinality(Queue(n))' <= Cardinality(Queue(n)) + 0
      BY <1>2, <3>1, FS_CardinalityType
    <3>3. Cardinality(PendingRows(n))' <= Cardinality(PendingRows(n)) + 0
      BY <1>2, <2>3, NoMore
    <3>4. /\ Starts(n) \in Nat /\ Starts(n)' \in Nat
          /\ Starts(n)' <= Starts(n) + 0 + 0 + 0
      BY <1>2, <2>2, <3>2, <3>3, StartsChange
    <3> QED BY <3>4
  <2> QED BY <2>7, <2>8
<1>9. CASE ~\E p \in Publishers : Enqueue(p)
  <2>1. broker' = broker
    BY <1>9 DEF Next, PublisherNext, Publishing, SelectBatch, LeaseRow, EnqueueFails,
       LoadNotification, CommitPublished, CrashPublisher, OutboxLeasesExpire, ExpireOutboxLease,
       RequestsNext, CreateNotification, BeginOperation, BeginCallback, Ending, CommitCancel,
       CommitRetry, CommitReplay, CommitCallback, DuplicateCallback, ReconcilerNext, ScanStuck,
       CommitRecovery, TimePasses, vars, storeVars
  <2>2. Queue(n)' = Queue(n)
    BY <2>1 DEF Queue, Message
  <2>3. /\ IsFiniteSet(Queue(n))'
        /\ Cardinality(Queue(n))' <= Cardinality(Queue(n)) + 0
    BY <1>2, <2>2, FS_CardinalityType
  <2>4. CASE CommitRecovery /\ n \in stuck
    <3>1. faults' = faults
      BY <2>4 DEF CommitRecovery
    <3>2. PendingRows(n)' \subseteq PendingRows(n) \cup {Len(outbox[n]) + 1}
      BY <1>1, <1>5, <3>1, PendingRowsStep, FaultCosts
    <3>3. Cardinality(PendingRows(n))' <= Cardinality(PendingRows(n)) + 1
      BY <1>2, <3>2, OneMore
    <3>4. Recoverable(n) /\ ~Recoverable(n)'
      <4>1. notif'[n].status = "queued" /\ stuck' = {}
        <5>1. notif[n] \in Rows
          BY <1>1 DEF TypeInv, TypeOK, StoreTypeOK
        <5> QED BY <2>4, <5>1 DEF CommitRecovery, Rows
      <4> QED BY <2>4, <4>1 DEF Recoverable
    <3>5. /\ Starts(n) \in Nat /\ Starts(n)' \in Nat
          /\ Starts(n)' <= Starts(n) + 1 + 0 - 1
      BY <1>2, <2>3, <3>3, <3>4, StartsChange
    <3> QED BY <1>5, <3>5
  <2>5. CASE ~(CommitRecovery /\ n \in stuck)
    <3>1. \/ PendingRows(n)' \subseteq PendingRows(n)
          \/ /\ faults'.crashes = faults.crashes + 1 /\ faults'.overruns = faults.overruns
             /\ \E i : PendingRows(n)' \subseteq PendingRows(n) \cup {i}
      <4>1. CASE \E p \in Publishers : CrashPublisher(p)
        <5>1. PICK p \in Publishers : CrashPublisher(p)
          BY <4>1
        <5>2. faults'.crashes = faults.crashes + 1 /\ faults'.overruns = faults.overruns
          BY <1>1, <5>1 DEF CrashPublisher, SpendCrash, TypeInv, TypeOK, StoreTypeOK
        <5>3. ASSUME NEW i \in PendingRows(n)' PROVE i \in PendingRows(n) \cup {publisher[p].row[2]}
          <6>1. ASSUME NEW q \in Publishers, publisher[q].row = <<n, i>> PROVE i = publisher[p].row[2]
            BY <6>1, SinglePublisher DEF Steady
          <6> QED BY <1>1, <1>7, <2>5, <6>1, PendingRowsStep
        <5> QED BY <5>2, <5>3
      <4>2. CASE ~\E p \in Publishers : CrashPublisher(p)
        BY <1>1, <1>7, <2>5, <4>2, PendingRowsStep
      <4> QED BY <4>1, <4>2
    <3>2. CASE PendingRows(n)' \subseteq PendingRows(n)
      <4>1. Cardinality(PendingRows(n))' <= Cardinality(PendingRows(n)) + 0
        BY <1>2, <3>2, NoMore
      <4>2. CASE Recoverable(n)' => Recoverable(n)
        <5>1. /\ Starts(n) \in Nat /\ Starts(n)' \in Nat
              /\ Starts(n)' <= Starts(n) + 0 + 0 + 0
          BY <1>2, <2>3, <4>1, <4>2, StartsChange
        <5> QED BY <1>5, <5>1
      <4>3. CASE faults'.overruns = faults.overruns + 1
        <5>1. /\ Starts(n) \in Nat /\ Starts(n)' \in Nat
              /\ Starts(n)' <= Starts(n) + 0 + 0 + 1
          BY <1>2, <2>3, <4>1, StartsChange
        <5> QED BY <1>5, <4>3, <5>1
      <4> QED BY <1>6, <4>2, <4>3
    <3>3. ASSUME faults'.crashes = faults.crashes + 1, faults'.overruns = faults.overruns,
                 NEW i, PendingRows(n)' \subseteq PendingRows(n) \cup {i}
          PROVE  /\ Starts(n) \in Nat /\ Starts(n)' \in Nat
                 /\ Starts(n)' <= Starts(n) + 1
      <4>1. Cardinality(PendingRows(n))' <= Cardinality(PendingRows(n)) + 1
        BY <1>2, <3>3, OneMore
      <4>2. Recoverable(n)' => Recoverable(n)
        BY <1>5, <1>6, <3>3
      <4>3. /\ Starts(n) \in Nat /\ Starts(n)' \in Nat
            /\ Starts(n)' <= Starts(n) + 1 + 0 + 0
        BY <1>2, <2>3, <4>1, <4>2, StartsChange
      <4> QED BY <4>3
    <3>4. CASE ~(PendingRows(n)' \subseteq PendingRows(n))
      <4>1. /\ faults'.crashes = faults.crashes + 1 /\ faults'.overruns = faults.overruns
            /\ \E i : PendingRows(n)' \subseteq PendingRows(n) \cup {i}
        BY <3>1, <3>4
      <4>2. /\ Starts(n) \in Nat /\ Starts(n)' \in Nat
            /\ Starts(n)' <= Starts(n) + 1
        BY <3>3, <4>1
      <4> QED BY <1>5, <4>1, <4>2
    <3> QED BY <3>2, <3>4
  <2> QED BY <2>4, <2>5
<1> QED BY <1>5, <1>8, <1>9

Paid(n) == AttemptsPaid(n) /\ AcceptancesPaid(n)

(* The facts about one notification that the sums are made of. *)
LEMMA Numbers ==
    ASSUME Steady, [Next]_vars, NEW n \in Notifications
    PROVE  /\ AttemptInv /\ TypeInv /\ TypeInv'
           /\ Beyond(n) \in Nat /\ accepts[n] \in Nat /\ accepts'[n] \in Nat
           /\ IsFiniteSet(Tasks(n)) /\ IsFiniteSet(OpenTasks(n))
           /\ Cardinality(Tasks(n)) \in Nat /\ Cardinality(OpenTasks(n)) \in Nat
           /\ faults.crashes \in Nat /\ faults'.crashes \in Nat
           /\ faults.overruns \in Nat /\ faults'.overruns \in Nat
           /\ faults.lost \in Nat /\ faults'.lost \in Nat
           /\ faults.crashes <= faults'.crashes /\ faults.overruns <= faults'.overruns
           /\ faults.lost <= faults'.lost
<1>1. AttemptInv /\ TypeInv /\ TypeInv'
  BY TypeStep DEF Steady, AttemptInv
<1>2. accepts[n] \in Nat /\ accepts'[n] \in Nat
  BY <1>1 DEF TypeInv, TypeOK, StoreTypeOK
<1>3. OpenTasks(n) \subseteq Tasks(n) /\ IsFiniteSet(Tasks(n))
  BY DEF OpenTasks, Steady
<1> QED BY <1>1, <1>2, <1>3, BeyondStep, NoMore, FaultsGrow

LEMMA OthersPaid ==
    ASSUME Steady, SubmitInv, [Next]_vars, ~(WorkerNext /\ UNCHANGED <<publisher, stuck, session>>),
           NEW n \in Notifications, Paid(n),
           notif[n].status = "absent" => accepts[n] = 0
    PROVE  Paid(n)'
<1> USE Numbers
<1>1. worker' = worker /\ attempts' = attempts /\ accepts' = accepts
  BY OthersInvisible DEF Invisible
<1>2. Tasks(n)' = Tasks(n) /\ OpenTasks(n)' = OpenTasks(n) /\ Beyond(n)' = Beyond(n)
  BY <1>1 DEF Tasks, OpenTasks, Target, Beyond
<1>3. CASE ~CreateNotification(n)
  <2>1. /\ Starts(n) \in Nat /\ Starts(n)' \in Nat
        /\ Starts(n)' <= Starts(n) + (faults'.crashes - faults.crashes)
                                   + (faults'.overruns - faults.overruns)
    BY <1>3, OthersStarts
  <2> QED BY <1>1, <1>2, <2>1 DEF Paid, AttemptsPaid, AcceptancesPaid
<1>4. CASE CreateNotification(n)
  <2>1. notif[n].status = "absent" /\ faults' = faults /\ broker' = broker /\ accepts[n] = 0
    BY <1>4 DEF CreateNotification
  <2>2. ~Touched(n)
    BY <2>1 DEF SubmitInv
  <2>3. Tasks(n) = {} /\ OpenTasks(n) = {} /\ attempts[n] = {} /\ DOMAIN outbox[n] = {} /\ n \notin stuck
    BY <2>2 DEF Touched, Tasks, OpenTasks
  <2>4. Queue(n) = {}
    <3>1. ASSUME NEW c \in Queue(n) PROVE FALSE
      <4>1. c[1] \in Timers /\ c[2] \in Nat /\ c[2] < broker[Message(n, c[1])]
        BY <3>1 DEF Queue
      <4>2. broker[Message(n, c[1])] \in Nat
        <5>1. Message(n, c[1]) \in Messages
          BY <4>1 DEF Message, Messages
        <5> QED BY <5>1 DEF TypeInv, TypeOK, StoreTypeOK
      <4> QED BY <2>2, <4>1, <4>2 DEF Touched
    <3> QED BY <3>1
  <2>5. ~Recoverable(n)
    BY <2>1, <2>3 DEF Recoverable
  <2>6. ~Recoverable(n)'
    BY <2>1, <2>5, RecoverableStep, FaultCosts DEF Steady
  <2>7. Queue(n)' = {}
    BY <2>1, <2>4 DEF Queue, Message
  <2>8. PendingRows(n)' \subseteq {Len(outbox[n]) + 1}
    <3>1. PendingRows(n) = {}
      BY <2>3 DEF PendingRows
    <3> QED BY <2>1, <3>1, PendingRowsStep, FaultCosts
  <2>9. Cardinality(PendingRows(n)') \in Nat /\ Cardinality(PendingRows(n)') <= 1
    <3>1. IsFiniteSet({Len(outbox[n]) + 1}) /\ Cardinality({Len(outbox[n]) + 1}) = 1
      BY FS_Singleton
    <3> QED BY <2>8, <3>1, NoMore
  <2>10. Starts(n)' \in Nat /\ Starts(n)' <= 1
    BY <2>6, <2>7, <2>9, FS_EmptySet DEF Starts
  <2>11. Beyond(n) = 0
    <3>1. Cardinality(attempts[n]) = 0
      BY <2>3, FS_EmptySet
    <3> QED BY <3>1, MaxAttemptsAssumption DEF Beyond
  <2>12. Cardinality(Tasks(n)) = 0 /\ Cardinality(OpenTasks(n)) = 0
    BY <2>3, FS_EmptySet
  <2> QED BY <1>1, <1>2, <2>1, <2>10, <2>11, <2>12 DEF Paid, AttemptsPaid, AcceptancesPaid
<1> QED BY <1>3, <1>4

(* A step of one task that starts nothing and ends, or keeps, the task.    *)
LEMMA TaskPaid ==
    ASSUME Steady, [Next]_vars, NEW n \in Notifications, Paid(n),
           Starts(n) \in Nat, Starts(n)' \in Nat, Starts(n)' <= Starts(n),
           Tasks(n)' \subseteq Tasks(n), OpenTasks(n)' \subseteq OpenTasks(n),
           attempts'[n] = attempts[n],
           accepts'[n] <= accepts[n] + (faults'.lost - faults.lost)
    PROVE  Paid(n)'
<1> USE Numbers
<1>1. Beyond(n)' = Beyond(n)
  BY BeyondStep
<1>2. Cardinality(Tasks(n)') \in Nat /\ Cardinality(Tasks(n)') <= Cardinality(Tasks(n))
  BY NoMore
<1>3. Cardinality(OpenTasks(n)') \in Nat /\ Cardinality(OpenTasks(n)') <= Cardinality(OpenTasks(n))
  BY NoMore
<1> QED BY <1>1, <1>2, <1>3 DEF Paid, AttemptsPaid, AcceptancesPaid

(* A message turns into a task or is acknowledged. *)
LEMMA TakesPaid ==
    ASSUME Steady, [Next]_vars, publisher' = publisher, NEW n \in Notifications, Paid(n),
           NEW w \in Workers, NEW m \in Messages, Takes(w, m)
    PROVE  Paid(n)'
<1> USE Numbers
<1>1. /\ outbox' = outbox /\ faults' = faults /\ attempts' = attempts /\ accepts' = accepts
      /\ broker[m] > 0 /\ Take(m)
  BY DEF Takes, ReturnEarly, RefuseLease, Receive, Receivable, rows
<1>2. worker \in [Workers -> WorkerStates]
  BY DEF TypeInv, TypeOK, WorkerTypeOK
<1>3. /\ \A v \in Workers : v # w => worker'[v] = worker[v]
      /\ worker' = worker \/ worker'[w].message = m
  BY <1>2 DEF Takes, ReturnEarly, RefuseLease, Receive, WorkerStates
<1>4. CASE n = m.notification
  <2>1. Starts(n) \in Nat /\ Starts(n)' \in Nat /\ Starts(n)' + 1 <= Starts(n)
    <3>1. /\ <<m.eta, broker[m] - 1>> \in Queue(n)
          /\ Queue(n)' \subseteq Queue(n) \ {<<m.eta, broker[m] - 1>>}
      BY <1>1, <1>4, QueueTaken
    <3>2. /\ outbox'[n] = outbox[n]
          /\ faults'.crashes = faults.crashes /\ faults'.overruns = faults.overruns
      BY <1>1
    <3> QED BY <3>1, <3>2, StartsKept
  <2>2. Cardinality(Tasks(n)') \in Nat /\ Cardinality(Tasks(n)') <= Cardinality(Tasks(n)) + 1
    BY <1>3, OneTaskMoves, OneMore
  <2>3. /\ Cardinality(OpenTasks(n)') \in Nat
        /\ Cardinality(OpenTasks(n)') <= Cardinality(OpenTasks(n)) + 1
    BY <1>3, OneTaskMoves, OneMore
  <2>4. Beyond(n)' = Beyond(n)
    BY <1>1, BeyondStep
  <2> QED BY <1>1, <2>1, <2>2, <2>3, <2>4 DEF Paid, AttemptsPaid, AcceptancesPaid
<1>5. CASE n # m.notification
  <2>1. Starts(n) \in Nat /\ Starts(n)' \in Nat /\ Starts(n)' <= Starts(n)
    <3>1. Queue(n)' = Queue(n)
      BY <1>1, <1>5, QueueTaken
    <3> QED BY <1>1, <3>1, StartsKept
  <2>2. Tasks(n)' \subseteq Tasks(n) /\ OpenTasks(n)' \subseteq OpenTasks(n)
    <3>1. CASE worker' = worker
      BY <3>1 DEF Tasks, OpenTasks, Target
    <3>2. CASE worker'[w].message = m
      BY <1>3, <1>5, <3>2, OneTaskMoves
    <3> QED BY <1>3, <3>1, <3>2
  <2> QED BY <1>1, <2>1, <2>2, TaskPaid
<1> QED BY <1>4, <1>5

(* A provider's acceptance closes the task it was given to, unless the     *)
(* answer is lost.                                                         *)
LEMMA CallPaid ==
    ASSUME Steady, AnswersAreFresh, [Next]_vars, publisher' = publisher,
           NEW n \in Notifications, Paid(n), NEW w \in Workers,
           \/ Claim(w) \/ StartCall(w) \/ AnswerLost(w)
           \/ \E result \in Results : ProviderAnswers(w, result)
    PROVE  Paid(n)'
<1> USE Numbers
<1>1. worker \in [Workers -> WorkerStates] /\ accepts \in [Notifications -> Nat]
      /\ faults \in [crashes : Nat, overruns : Nat, lost : Nat, operations : Nat]
  BY DEF TypeInv, TypeOK, WorkerTypeOK, StoreTypeOK
<1>2. /\ outbox' = outbox /\ attempts' = attempts /\ broker' = broker
      /\ worker[w].stage \in {"read", "claimed", "calling"}
  BY DEF Claim, StartCall, ProviderAnswers, AnswerLost, storeVars, rows
<1>3. faults'.crashes = faults.crashes /\ faults'.overruns = faults.overruns
  BY <1>1 DEF Claim, StartCall, ProviderAnswers, AnswerLost, SpendLostAnswer, storeVars
<1>4. /\ \A v \in Workers : v # w => worker'[v] = worker[v]
      /\ worker'[w].message = worker[w].message
  BY <1>1 DEF Claim, StartCall, ProviderAnswers, AnswerLost, WorkerStates
<1>5. worker[w].result = "none" /\ Target(w) \in Notifications
  BY <1>2 DEF AnswersAreFresh, TypeInv, TasksHaveTargets
<1>6. Starts(n) \in Nat /\ Starts(n)' \in Nat /\ Starts(n)' <= Starts(n)
  <2>1. Queue(n)' = Queue(n)
    BY <1>2 DEF Queue, Message
  <2> QED BY <1>2, <1>3, <2>1, StartsKept
<1>7. Tasks(n)' \subseteq Tasks(n) /\ OpenTasks(n)' \subseteq OpenTasks(n)
  BY <1>2, <1>4, <1>5, OneTaskMoves
<1>8. CASE accepts'[n] <= accepts[n] + (faults'.lost - faults.lost)
  BY <1>2, <1>6, <1>7, <1>8, TaskPaid
<1>9. CASE ProviderAnswers(w, "accepted") /\ Target(w) = n
  <2>1. accepts'[n] = accepts[n] + 1 /\ faults' = faults
    BY <1>1, <1>9 DEF ProviderAnswers
  <2>2. worker'[w].result = "accepted"
    <3>1. worker[w] \in WorkerStates
      BY <1>1
    <3>2. worker'[w] = [worker[w] EXCEPT !.stage = "called", !.result = "accepted"]
      BY <1>1, <1>9 DEF ProviderAnswers
    <3> QED BY <3>1, <3>2 DEF WorkerStates
  <2>3. w \in OpenTasks(n)
    BY <1>2, <1>5, <1>9 DEF OpenTasks, Tasks
  <2>4. OpenTasks(n)' \subseteq OpenTasks(n) \ {w}
    BY <1>4, <2>2, OneTaskMoves
  <2>5. /\ Cardinality(OpenTasks(n)') \in Nat
        /\ Cardinality(OpenTasks(n)') + 1 <= Cardinality(OpenTasks(n))
    BY <2>3, <2>4, OneLess
  <2>6. Cardinality(Tasks(n)') \in Nat /\ Cardinality(Tasks(n)') <= Cardinality(Tasks(n))
    BY <1>7, NoMore
  <2>7. Beyond(n)' = Beyond(n)
    BY <1>2, BeyondStep
  <2> QED BY <1>6, <2>1, <2>5, <2>6, <2>7 DEF Paid, AttemptsPaid, AcceptancesPaid
<1>10. ASSUME ~(accepts'[n] <= accepts[n] + (faults'.lost - faults.lost))
       PROVE  ProviderAnswers(w, "accepted") /\ Target(w) = n
  <2>1. accepts'[n] # accepts[n]
    BY <1>10
  <2>2. ~(Claim(w) \/ StartCall(w))
    BY <2>1 DEF Claim, StartCall, storeVars
  <2>3. ~AnswerLost(w)
    <3> SUFFICES ASSUME AnswerLost(w) PROVE FALSE
      OBVIOUS
    <3>1. faults'.lost = faults.lost + 1
      BY FaultCosts DEF AnswerLost
    <3>2. accepts'[n] = IF Target(w) = n THEN accepts[n] + 1 ELSE accepts[n]
      BY <1>1, <1>5 DEF AnswerLost
    <3> QED BY <1>10, <3>1, <3>2
  <2> QED BY <1>1, <2>1, <2>2, <2>3 DEF ProviderAnswers
<1> QED BY <1>8, <1>9, <1>10

(* An attempt ends its task; a deferral also leaves a row. *)
LEMMA OutcomePaid ==
    ASSUME Steady, [Next]_vars, publisher' = publisher, NEW n \in Notifications, Paid(n),
           NEW w \in Workers, Outcome(w) \/ RecordConflict(w) \/ Acknowledge(w)
    PROVE  Paid(n)'
<1> USE Numbers
<1>1. worker \in [Workers -> WorkerStates] /\ outbox \in [Notifications -> Seq(OutboxRows)]
  BY DEF TypeInv, TypeOK, WorkerTypeOK, StoreTypeOK
<1>2. faults' = faults /\ accepts' = accepts /\ broker' = broker
  BY DEF Outcome, RecordAccepted, RecordDeferred, RecordDeadLettered, RecordFailed, RecordOutcome,
     RecordConflict, Acknowledge, storeVars
<1>3. Finish(w) \/ Acknowledge(w)
  BY DEF Outcome, RecordAccepted, RecordDeferred, RecordDeadLettered, RecordFailed, RecordOutcome,
     RecordConflict
<1>4. /\ \A v \in Workers : v # w => worker'[v] = worker[v]
      /\ worker'[w].stage \in {"idle", "finished"}
  <2>1. CASE Finish(w)
    <3>1. /\ \A v \in Workers : v # w => worker'[v] = worker[v]
          /\ worker'[w] = [IdleWorker EXCEPT !.stage = "finished", !.message = worker[w].message]
      BY <1>1, <2>1 DEF Finish
    <3> QED BY <3>1 DEF IdleWorker
  <2>2. CASE Acknowledge(w)
    BY <1>1, <2>2 DEF Acknowledge, IdleWorker
  <2> QED BY <1>3, <2>1, <2>2
<1>5. Tasks(n)' \subseteq Tasks(n) \ {w} /\ OpenTasks(n)' \subseteq OpenTasks(n) \ {w}
  BY <1>4, OneTaskMoves
<1>6. Queue(n)' = Queue(n)
  BY <1>2 DEF Queue, Message
<1>7. CASE outbox'[n] = outbox[n] /\ attempts'[n] = attempts[n]
  <2>1. Starts(n) \in Nat /\ Starts(n)' \in Nat /\ Starts(n)' <= Starts(n)
    BY <1>2, <1>6, <1>7, StartsKept
  <2> QED BY <1>2, <1>5, <1>7, <2>1, TaskPaid
<1>8. CASE Outcome(w) /\ Target(w) = n
  <2>1. w \in Tasks(n)
    BY <1>8 DEF Tasks, Outcome, RecordAccepted, RecordDeferred, RecordDeadLettered, RecordFailed
  <2>2. Cardinality(Tasks(n)') \in Nat /\ Cardinality(Tasks(n)') + 1 <= Cardinality(Tasks(n))
    BY <1>5, <2>1, OneLess
  <2>3. Beyond(n)' \in Nat /\ Beyond(n)' <= Beyond(n) + 1 /\ (RecordDeferred(w) => Beyond(n)' = 0)
    BY <1>8, BeyondStep
  <2>4. CASE RecordDeferred(w)
    <3>1. w \in OpenTasks(n)
      BY <2>1, <2>4 DEF OpenTasks, RecordDeferred
    <3>2. /\ Cardinality(OpenTasks(n)') \in Nat
          /\ Cardinality(OpenTasks(n)') + 1 <= Cardinality(OpenTasks(n))
      BY <1>5, <3>1, OneLess
    <3>3. IsFiniteSet(PendingRows(n)) /\ IsFiniteSet(PendingRows(n))' /\ IsFiniteSet(Queue(n))
      BY PendingRowsFinite DEF Steady
    <3>4. PendingRows(n)' \subseteq PendingRows(n) \cup {Len(outbox[n]) + 1}
      BY <1>2, PendingRowsStep, FaultCosts
    <3>5. Cardinality(PendingRows(n))' <= Cardinality(PendingRows(n)) + 1
      BY <3>3, <3>4, OneMore
    <3>6. IsFiniteSet(Queue(n))' /\ Cardinality(Queue(n))' <= Cardinality(Queue(n)) + 0
      BY <1>6, <3>3, FS_CardinalityType
    <3>7. Recoverable(n)' => Recoverable(n)
      BY <1>2, RecoverableStep, FaultCosts DEF Steady
    <3>8. /\ Starts(n) \in Nat /\ Starts(n)' \in Nat
          /\ Starts(n)' <= Starts(n) + 1 + 0 + 0
      BY <3>3, <3>5, <3>6, <3>7, StartsChange
    <3> QED BY <1>2, <2>2, <2>3, <2>4, <3>2, <3>8 DEF Paid, AttemptsPaid, AcceptancesPaid
  <2>5. CASE ~RecordDeferred(w)
    <3>1. outbox' = outbox
      BY <1>8, <2>5 DEF Outcome, RecordAccepted, RecordDeadLettered, RecordFailed
    <3>2. Starts(n) \in Nat /\ Starts(n)' \in Nat /\ Starts(n)' <= Starts(n)
      BY <1>2, <1>6, <3>1, StartsKept
    <3>3. /\ Cardinality(OpenTasks(n)') \in Nat
          /\ Cardinality(OpenTasks(n)') <= Cardinality(OpenTasks(n))
      BY <1>5, NoMore
    <3> QED BY <1>2, <2>2, <2>3, <3>2, <3>3 DEF Paid, AttemptsPaid, AcceptancesPaid
  <2> QED BY <2>4, <2>5
<1>9. CASE Outcome(w) /\ Target(w) # n
  <2>1. attempts'[n] = attempts[n]
    BY <1>9, OutcomeFacts DEF Records, TypeInv, TypeOK, StoreTypeOK
  <2>2. outbox'[n] = outbox[n]
    BY <1>1, <1>9 DEF Outcome, RecordAccepted, RecordDeferred, RecordDeadLettered, RecordFailed,
       AddOutboxRow
  <2> QED BY <1>7, <2>1, <2>2
<1>10. CASE RecordConflict(w) \/ Acknowledge(w)
  BY <1>7, <1>10 DEF RecordConflict, Acknowledge, storeVars, rows
<1> QED BY <1>8, <1>9, <1>10

(* A dead process gives its message back, and its lease if it held one.    *)
LEMMA CrashPaid ==
    ASSUME Steady, [Next]_vars, publisher' = publisher, NEW n \in Notifications, Paid(n),
           NEW w \in Workers, CrashWorker(w)
    PROVE  Paid(n)'
<1> USE Numbers
<1>1. worker \in [Workers -> WorkerStates]
      /\ faults \in [crashes : Nat, overruns : Nat, lost : Nat, operations : Nat]
  BY DEF TypeInv, TypeOK, WorkerTypeOK, StoreTypeOK
<1>2. /\ outbox' = outbox /\ attempts' = attempts /\ accepts' = accepts
      /\ broker' = [broker EXCEPT ![worker[w].message] = @ + 1]
  BY DEF CrashWorker, rows
<1>3. /\ faults'.crashes = faults.crashes + 1
      /\ faults'.overruns = faults.overruns /\ faults'.lost = faults.lost
  BY <1>1 DEF CrashWorker, SpendCrash
<1>4. PICK m \in Messages : m = worker[w].message /\ m.notification = Target(w)
  <2>1. Target(w) \in Notifications
    BY DEF CrashWorker, TypeInv, TasksHaveTargets
  <2>2. worker[w].message \in [notification : Notifications \cup {None}, eta : Timers]
    BY <1>1 DEF WorkerStates
  <2> QED BY <2>1, <2>2 DEF Messages, Target
<1>5. /\ \A v \in Workers : v # w => worker'[v] = worker[v]
      /\ worker'[w].stage = "idle"
  BY <1>1 DEF CrashWorker, IdleWorker
<1>6. Tasks(n)' \subseteq Tasks(n) \ {w} /\ OpenTasks(n)' \subseteq OpenTasks(n) \ {w}
  BY <1>5, OneTaskMoves
<1>7. /\ Cardinality(Tasks(n)') \in Nat /\ Cardinality(Tasks(n)') <= Cardinality(Tasks(n))
      /\ Cardinality(OpenTasks(n)') \in Nat
      /\ Cardinality(OpenTasks(n)') <= Cardinality(OpenTasks(n))
  BY <1>6, NoMore
<1>8. Beyond(n)' = Beyond(n)
  BY <1>2, BeyondStep
<1>9. IsFiniteSet(PendingRows(n)) /\ IsFiniteSet(PendingRows(n))' /\ IsFiniteSet(Queue(n))
  BY PendingRowsFinite DEF Steady
<1>10. Cardinality(PendingRows(n))' <= Cardinality(PendingRows(n)) + 0
  <2>1. PendingRows(n)' = PendingRows(n)
    BY <1>2 DEF PendingRows, Pending, PastEnqueue
  <2> QED BY <1>9, <2>1, FS_CardinalityType
<1>11. ASSUME ~Holding(w, n) PROVE Recoverable(n)' => Recoverable(n)
  <2>1. ASSUME NEW v \in Workers, CrashWorker(v) PROVE v = w
    <3>1. worker'[v].stage = "idle" /\ worker[v].stage # "idle"
      BY <1>1, <2>1 DEF CrashWorker, IdleWorker
    <3> QED BY <1>5, <3>1
  <2>2. ~SpendOverrun
    BY <1>3, FaultCosts
  <2> QED BY <1>11, <2>1, <2>2, RecoverableStep DEF Steady
<1>12. CASE Target(w) = n
  <2>1. IsFiniteSet(Queue(n)') /\ Cardinality(Queue(n)') <= Cardinality(Queue(n)) + 1
    BY <1>2, <1>4, <1>9, <1>12, QueueAdded, OneMore
  <2>2. IsFiniteSet(Queue(n))' /\ Cardinality(Queue(n))' <= Cardinality(Queue(n)) + 1
    BY <2>1
  <2>3. CASE Holding(w, n)
    <3>1. /\ Starts(n) \in Nat /\ Starts(n)' \in Nat
          /\ Starts(n)' <= Starts(n) + 0 + 1 + 1
      BY <1>9, <1>10, <2>2, StartsChange
    <3>2. w \in Tasks(n)
      BY <2>3 DEF Holding, Tasks
    <3>3. Cardinality(Tasks(n)') + 1 <= Cardinality(Tasks(n))
      BY <1>6, <3>2, OneLess
    <3> QED BY <1>2, <1>3, <1>7, <1>8, <3>1, <3>3 DEF Paid, AttemptsPaid, AcceptancesPaid
  <2>4. CASE ~Holding(w, n)
    <3>1. /\ Starts(n) \in Nat /\ Starts(n)' \in Nat
          /\ Starts(n)' <= Starts(n) + 0 + 1 + 0
      BY <1>9, <1>10, <1>11, <2>2, <2>4, StartsChange
    <3> QED BY <1>2, <1>3, <1>7, <1>8, <3>1 DEF Paid, AttemptsPaid, AcceptancesPaid
  <2> QED BY <2>3, <2>4
<1>13. CASE Target(w) # n
  <2>1. Queue(n)' = Queue(n)
    BY <1>2, <1>4, <1>13, QueueAdded
  <2>2. IsFiniteSet(Queue(n))' /\ Cardinality(Queue(n))' <= Cardinality(Queue(n)) + 0
    BY <1>9, <2>1, FS_CardinalityType
  <2>3. /\ Starts(n) \in Nat /\ Starts(n)' \in Nat
        /\ Starts(n)' <= Starts(n) + 0 + 0 + 0
    BY <1>9, <1>10, <1>11, <1>13, <2>2, StartsChange DEF Holding
  <2> QED BY <1>2, <1>3, <1>7, <1>8, <2>3 DEF Paid, AttemptsPaid, AcceptancesPaid
<1> QED BY <1>12, <1>13

(* A lease that expires under a holder costs an overrun. *)
LEMMA ExpiryPaid ==
    ASSUME Steady, [Next]_vars, publisher' = publisher, NEW n \in Notifications, Paid(n),
           NEW m \in Notifications, ExpireLease(m)
    PROVE  Paid(n)'
<1> USE Numbers
<1>1. /\ worker' = worker /\ outbox' = outbox /\ attempts' = attempts /\ accepts' = accepts
      /\ broker' = broker
  BY DEF ExpireLease
<1>2. Tasks(n)' = Tasks(n) /\ OpenTasks(n)' = OpenTasks(n) /\ Beyond(n)' = Beyond(n)
  BY <1>1 DEF Tasks, OpenTasks, Target, Beyond
<1>3. IsFiniteSet(PendingRows(n)) /\ IsFiniteSet(PendingRows(n))' /\ IsFiniteSet(Queue(n))
  BY PendingRowsFinite DEF Steady
<1>4. PendingRows(n)' = PendingRows(n) /\ Queue(n)' = Queue(n)
  BY <1>1 DEF PendingRows, Pending, PastEnqueue, Queue, Message
<1>5. /\ Cardinality(PendingRows(n))' <= Cardinality(PendingRows(n)) + 0
      /\ IsFiniteSet(Queue(n))' /\ Cardinality(Queue(n))' <= Cardinality(Queue(n)) + 0
  BY <1>3, <1>4, FS_CardinalityType
<1>6. CASE Recoverable(n)' => Recoverable(n)
  <2>1. /\ Starts(n) \in Nat /\ Starts(n)' \in Nat
        /\ Starts(n)' <= Starts(n) + 0 + 0 + 0
    BY <1>3, <1>5, <1>6, StartsChange
  <2> QED BY <1>1, <1>2, <2>1 DEF Paid, AttemptsPaid, AcceptancesPaid
<1>7. CASE Recoverable(n)' /\ ~Recoverable(n)
  <2>1. ~\E w \in Workers : CrashWorker(w)
    BY <1>1 DEF CrashWorker, IdleWorker, TypeInv, TypeOK, WorkerTypeOK
  <2>2. faults'.overruns = faults.overruns + 1
    BY <1>7, <2>1, RecoverableStep, FaultCosts DEF Steady
  <2>3. /\ Starts(n) \in Nat /\ Starts(n)' \in Nat
        /\ Starts(n)' <= Starts(n) + 0 + 0 + 1
    BY <1>3, <1>5, StartsChange
  <2> QED BY <1>1, <1>2, <2>2, <2>3 DEF Paid, AttemptsPaid, AcceptancesPaid
<1> QED BY <1>6, <1>7

LEMMA WorkerPaid ==
    ASSUME Steady, AnswersAreFresh, [Next]_vars, WorkerNext, publisher' = publisher,
           NEW n \in Notifications, Paid(n)
    PROVE  Paid(n)'
<1>1. ASSUME NEW w \in Workers, NEW m \in Messages, Takes(w, m) PROVE Paid(n)'
  BY <1>1, TakesPaid
<1>2. ASSUME NEW w \in Workers,
             \/ Claim(w) \/ StartCall(w) \/ AnswerLost(w)
             \/ \E result \in Results : ProviderAnswers(w, result)
      PROVE  Paid(n)'
  BY <1>2, CallPaid
<1>3. ASSUME NEW w \in Workers, Outcome(w) \/ RecordConflict(w) \/ Acknowledge(w) PROVE Paid(n)'
  BY <1>3, OutcomePaid
<1>4. ASSUME NEW w \in Workers, CrashWorker(w) PROVE Paid(n)'
  BY <1>4, CrashPaid
<1>5. ASSUME NEW m \in Notifications, ExpireLease(m) PROVE Paid(n)'
  BY <1>5, ExpiryPaid
<1> QED BY <1>1, <1>2, <1>3, <1>4, <1>5 DEF WorkerNext, Receipt, Takes, Processing, Outcome

-----------------------------------------------------------------------------
(* What does not depend on the number of publishers and operations.        *)
LEMMA QueueStaysFinite ==
    ASSUME TypeInv, RowsExist, [Next]_vars, NEW n \in Notifications, IsFiniteSet(Queue(n))
    PROVE  IsFiniteSet(Queue(n))'
<1>1. CASE broker' = broker
  <2>1. Queue(n)' = Queue(n)
    BY <1>1 DEF Queue, Message
  <2> QED BY <2>1
<1>2. ASSUME NEW m \in Messages, broker' = [broker EXCEPT ![m] = @ + 1]
      PROVE  IsFiniteSet(Queue(n))'
  <2>1. CASE n = m.notification
    <3>1. Queue(n)' \subseteq Queue(n) \cup {<<m.eta, broker[m]>>}
      BY <1>2, <2>1, QueueAdded
    <3>2. IsFiniteSet(Queue(n)')
      BY <3>1, OneMore
    <3> QED BY <3>2
  <2>2. CASE n # m.notification
    <3>1. Queue(n)' = Queue(n)
      BY <1>2, <2>2, QueueAdded
    <3> QED BY <3>1
  <2> QED BY <2>1, <2>2
<1>3. ASSUME NEW w \in Workers, NEW m \in Messages, Takes(w, m) PROVE IsFiniteSet(Queue(n))'
  <2>1. broker[m] > 0 /\ Take(m)
    BY <1>3 DEF Takes, ReturnEarly, RefuseLease, Receive, Receivable
  <2>2. Queue(n)' \subseteq Queue(n)
    BY <2>1, QueueTaken
  <2>3. IsFiniteSet(Queue(n)')
    BY <2>2, NoMore
  <2> QED BY <2>3
<1>4. ASSUME NEW p \in Publishers, Enqueue(p) PROVE IsFiniteSet(Queue(n))'
  <2>1. publisher[p].row \in RowNames /\ Exists(publisher[p].row)
    BY <1>4 DEF Enqueue, TypeInv, PublishersHaveRows, RowsExist
  <2>2. RowMessage(publisher[p].row) \in Messages
    BY <2>1, RowType DEF RowNames, Exists, RowMessage
  <2>3. PICK m \in Messages : m = RowMessage(publisher[p].row)
    BY <2>2
  <2> QED BY <1>2, <1>4, <2>3 DEF Enqueue
<1>5. ASSUME NEW w \in Workers, CrashWorker(w) PROVE IsFiniteSet(Queue(n))'
  <2>1. Target(w) \in Notifications /\ worker[w] \in WorkerStates
    BY <1>5 DEF CrashWorker, TypeInv, TasksHaveTargets, TypeOK, WorkerTypeOK
  <2>2. PICK m \in Messages : m = worker[w].message
    BY <2>1 DEF WorkerStates, Messages, Target
  <2> QED BY <1>2, <1>5, <2>2 DEF CrashWorker
<1>6. \/ broker' = broker
      \/ \E w \in Workers, m \in Messages : Takes(w, m)
      \/ \E p \in Publishers : Enqueue(p)
      \/ \E w \in Workers : CrashWorker(w)
  BY DEF Next, WorkerNext, Receipt, Takes, Processing, AnswerLost, Claim, StartCall,
     ProviderAnswers, RecordAccepted, RecordDeferred, RecordDeadLettered, RecordFailed,
     RecordOutcome, RecordConflict, Acknowledge, ExpireLease,
     PublisherNext, Publishing, SelectBatch, LeaseRow, EnqueueFails,
     LoadNotification, CommitPublished, CrashPublisher, OutboxLeasesExpire, ExpireOutboxLease,
     RequestsNext, CreateNotification, BeginOperation, BeginCallback, Ending, CommitCancel,
     CommitRetry, CommitReplay, CommitCallback, DuplicateCallback, ReconcilerNext, ScanStuck,
     CommitRecovery, TimePasses, vars, storeVars
<1> QED BY <1>1, <1>3, <1>4, <1>5, <1>6

LEMMA TasksStayFinite ==
    ASSUME TypeInv, [Next]_vars, NEW n \in Notifications, IsFiniteSet(Tasks(n))
    PROVE  IsFiniteSet(Tasks(n))'
<1>1. worker \in [Workers -> WorkerStates]
  BY DEF TypeInv, TypeOK, WorkerTypeOK
<1>2. CASE worker' = worker
  <2>1. Tasks(n)' = Tasks(n)
    BY <1>2 DEF Tasks, Target
  <2> QED BY <2>1
<1>3. ASSUME NEW w \in Workers,
             Receipt(w) \/ Processing(w) \/ AnswerLost(w) \/ CrashWorker(w)
      PROVE  IsFiniteSet(Tasks(n))'
  <2>1. \A v \in Workers : v # w => worker'[v] = worker[v]
    BY <1>1, <1>3 DEF Receipt, ReturnEarly, RefuseLease, Receive, AnswerLost, CrashWorker,
       Processing, Claim, StartCall, ProviderAnswers, RecordAccepted, RecordDeferred,
       RecordDeadLettered, RecordFailed, RecordOutcome, RecordConflict, Finish, Acknowledge
  <2>2. Tasks(n)' \subseteq Tasks(n) \cup {w}
    BY <2>1, OneTaskMoves
  <2>3. IsFiniteSet(Tasks(n)')
    BY <2>2, OneMore
  <2> QED BY <2>3
<1>4. CASE WorkerNext
  BY <1>2, <1>3, <1>4 DEF WorkerNext, ExpireLease
<1>5. CASE ~WorkerNext
  BY <1>2, <1>5, OthersInvisible DEF Invisible
<1> QED BY <1>4, <1>5

(* No provider is called for a notification nobody submitted. *)
LEMMA AbsentStep ==
    ASSUME SubmitInv, [Next]_vars, NEW n \in Notifications, notif'[n].status = "absent",
           notif[n].status = "absent" => accepts[n] = 0
    PROVE  accepts'[n] = 0
<1>1. TypeInv /\ accepts \in [Notifications -> Nat]
  BY DEF SubmitInv, StatusInv, AttemptInv, TypeInv, TypeOK, StoreTypeOK
<1>2. notif[n].status = "absent"
  BY <1>1, RowFate DEF Created, Claimed, Recorded, Expired, Queued, Recovered, Operated, Reported
<1>3. ~Touched(n)
  BY <1>2 DEF SubmitInv
<1>4. CASE accepts' = accepts
  BY <1>2, <1>4
<1>5. ASSUME NEW w \in Workers,
             AnswerLost(w) \/ \E result \in Results : ProviderAnswers(w, result)
      PROVE  accepts'[n] = accepts[n]
  <2>1. worker[w].stage = "calling" /\ Target(w) # n
    BY <1>3, <1>5 DEF AnswerLost, ProviderAnswers, Touched
  <2> QED BY <1>1, <1>5, <2>1 DEF AnswerLost, ProviderAnswers
<1>6. CASE WorkerNext
  BY <1>2, <1>4, <1>5, <1>6
  DEF WorkerNext, Receipt, ReturnEarly, RefuseLease, Receive, Processing, Claim, StartCall,
      RecordAccepted, RecordDeferred, RecordDeadLettered, RecordFailed, RecordOutcome,
      RecordConflict, Acknowledge, CrashWorker, ExpireLease, storeVars
<1>7. CASE ~WorkerNext
  BY <1>4, <1>7, OthersInvisible DEF Invisible
<1> QED BY <1>6, <1>7

LEMMA CountsAreNatural ==
    ASSUME TypeInv, NEW n \in Notifications, IsFiniteSet(Queue(n)), IsFiniteSet(Tasks(n))
    PROVE  /\ Starts(n) \in Nat
           /\ Cardinality(Tasks(n)) \in Nat /\ Cardinality(OpenTasks(n)) \in Nat
<1>1. outbox[n] \in Seq(OutboxRows)
  BY DEF TypeInv, TypeOK, StoreTypeOK
<1>2. DOMAIN outbox[n] = 1 .. Len(outbox[n]) /\ Len(outbox[n]) \in Nat
  BY <1>1
<1>3. IsFiniteSet(PendingRows(n))
  <2>1. IsFiniteSet(1 .. Len(outbox[n]))
    BY <1>2, FS_Interval
  <2> QED BY <1>2, <2>1, NoMore DEF PendingRows
<1>4. IsFiniteSet(OpenTasks(n))
  BY NoMore DEF OpenTasks
<1> QED BY <1>3, <1>4, FS_CardinalityType DEF Starts

LEMMA BudgetInit == Init => BudgetInv
<1> SUFFICES ASSUME Init PROVE BudgetInv
  OBVIOUS
<1>1. SubmitInv /\ AnswersAreFresh
  BY SubmitInit, RefinementInit DEF RefinementInv
<1>2. NoOperation /\ RowsOnce
  BY DEF Init, SessionInit, IdleSession, NoOperation, Operations, PublisherInit, IdlePublisher,
     RowsOnce
<1>3. ASSUME NEW n \in Notifications
      PROVE  /\ Queue(n) = {} /\ Tasks(n) = {} /\ accepts[n] = 0
             /\ AttemptsPaid(n) /\ AcceptancesPaid(n)
  <2>1. Queue(n) = {}
    BY DEF Queue, Init, StoreInit, Messages, Message
  <2>2. Tasks(n) = {} /\ OpenTasks(n) = {}
    BY DEF Tasks, OpenTasks, Init, WorkerInit, IdleWorker
  <2>3. PendingRows(n) = {} /\ attempts[n] = {} /\ accepts[n] = 0
    BY DEF PendingRows, Init, StoreInit
  <2>4. ~Recoverable(n)
    BY DEF Recoverable, Init, StoreInit, ReconcilerInit, AbsentRow
  <2>5. Cardinality({}) = 0
    BY FS_EmptySet
  <2>6. Starts(n) = 0 /\ Beyond(n) = 0
    BY <2>1, <2>3, <2>4, <2>5, MaxAttemptsAssumption DEF Starts, Beyond
  <2>7. faults.crashes = 0 /\ faults.overruns = 0 /\ faults.lost = 0
    BY DEF Init, StoreInit, NoFaults
  <2> QED BY <2>1, <2>2, <2>3, <2>5, <2>6, <2>7 DEF AttemptsPaid, AcceptancesPaid
<1>4. \A n \in Notifications : IsFiniteSet(Queue(n)) /\ IsFiniteSet(Tasks(n))
  BY <1>3, FS_EmptySet
<1> QED BY <1>1, <1>2, <1>3, <1>4 DEF BudgetInv

LEMMA BudgetStep ==
    ASSUME BudgetInv, [Next]_vars
    PROVE  BudgetInv'
<1>1. SubmitInv /\ AttemptInv /\ TypeInv /\ RowsExist /\ AnswersAreFresh
  BY DEF BudgetInv, SubmitInv, StatusInv, AttemptInv
<1>2. SubmitInv'
  BY <1>1, SubmitStep
<1>3. AnswersAreFresh'
  BY <1>1, WorkerRefines, OthersInvisible, InvisibleStep DEF RefinementInv, Refines
<1>4. ASSUME NEW n \in Notifications
      PROVE  /\ IsFiniteSet(Queue(n))' /\ IsFiniteSet(Tasks(n))'
             /\ notif'[n].status = "absent" => accepts'[n] = 0
  BY <1>1, QueueStaysFinite, TasksStayFinite, AbsentStep DEF BudgetInv
<1>5. ASSUME Unattended'
      PROVE  /\ NoOperation' /\ RowsOnce'
             /\ \A n \in Notifications : Paid(n)'
  <2>1. OnePublisher /\ faults'.operations = 0 /\ faults.operations = 0
    <3>1. OnePublisher /\ faults'.operations = 0
      BY <1>5 DEF Unattended, OnePublisher
    <3> QED BY <1>1, <3>1, FaultsGrow
  <2>2. NoOperation /\ RowsOnce /\ \A n \in Notifications : Paid(n)
    BY <2>1 DEF BudgetInv, Unattended, Paid
  <2>3. Steady
    BY <1>1, <2>1, <2>2 DEF Steady, BudgetInv
  <2>4. NoOperation' /\ RowsOnce'
    BY <1>1, <2>1, <2>2, NoOperationStep, RowsOnceStep
  <2>5. ASSUME NEW n \in Notifications PROVE Paid(n)'
    <3>1. CASE WorkerNext /\ UNCHANGED <<publisher, stuck, session>>
      BY <1>1, <2>2, <2>3, <3>1, WorkerPaid
    <3>2. CASE ~(WorkerNext /\ UNCHANGED <<publisher, stuck, session>>)
      BY <1>1, <2>2, <2>3, <3>2, OthersPaid DEF BudgetInv
    <3> QED BY <3>1, <3>2
  <2> QED BY <2>4, <2>5
<1> QED BY <1>2, <1>3, <1>4, <1>5 DEF BudgetInv, Paid

LEMMA BudgetInvariant == Spec => []BudgetInv
  BY BudgetInit, BudgetStep, PTL DEF Spec

(* Without a fault a provider accepts a notification at most once: the     *)
(* publisher that marks a row after it sent the message, the late          *)
(* acknowledgements, the refused leases and the reconciler never multiply  *)
(* it.  Every crash pays for two more acceptances at most, every overrun   *)
(* lease and every lost answer for one.                                    *)
THEOREM DuplicatesAreBounded == Spec => []DuplicatesBoundedByFaults
<1>1. BudgetInv => DuplicatesBoundedByFaults
  <2> SUFFICES ASSUME BudgetInv, Unattended, NEW n \in Notifications
               PROVE  accepts[n] <= 1 + 2 * faults.crashes + faults.overruns + faults.lost
    BY DEF DuplicatesBoundedByFaults, Unattended, OnePublisher
  <2>1. TypeInv /\ AcceptancesPaid(n) /\ IsFiniteSet(Queue(n)) /\ IsFiniteSet(Tasks(n))
    BY DEF BudgetInv, SubmitInv, StatusInv, AttemptInv
  <2>2. accepts[n] \in Nat /\ faults \in [crashes : Nat, overruns : Nat, lost : Nat, operations : Nat]
    BY <2>1 DEF TypeInv, TypeOK, StoreTypeOK
  <2>3. Starts(n) \in Nat /\ Cardinality(OpenTasks(n)) \in Nat
    BY <2>1, CountsAreNatural
  <2> QED BY <2>1, <2>2, <2>3 DEF AcceptancesPaid
<1> QED BY <1>1, BudgetInvariant, PTL

(* Redeliveries and recoveries use up the same budget as retries: each     *)
(* crash and each overrun lease adds at most one recorded attempt to       *)
(* max_delivery_attempts, however often the attempts fail.                 *)
THEOREM BudgetIsKept == Spec => []AttemptBudgetKept
<1>1. BudgetInv => AttemptBudgetKept
  <2> SUFFICES ASSUME BudgetInv, Unattended, NEW n \in Notifications
               PROVE  Cardinality(attempts[n]) <= MaxAttempts + faults.crashes + faults.overruns
    BY DEF AttemptBudgetKept, Unattended, OnePublisher
  <2>1. /\ TypeInv /\ AttemptInv /\ AttemptsPaid(n) /\ IsFiniteSet(Queue(n))
        /\ IsFiniteSet(Tasks(n))
    BY DEF BudgetInv, SubmitInv, StatusInv, AttemptInv
  <2>2. faults \in [crashes : Nat, overruns : Nat, lost : Nat, operations : Nat]
    BY <2>1 DEF TypeInv, TypeOK, StoreTypeOK
  <2>3. Starts(n) \in Nat /\ Cardinality(Tasks(n)) \in Nat
    BY <2>1, CountsAreNatural
  <2>4. Cardinality(attempts[n]) \in Nat
    BY <2>1, FS_CardinalityType DEF TypeInv, AttemptsAreFinite
  <2>5. Beyond(n) \in Nat /\ Beyond(n) <= 1 + faults.crashes + faults.overruns
    BY <2>1, <2>2, <2>3, BeyondStep DEF AttemptsPaid
  <2> QED BY <2>2, <2>4, <2>5, MaxAttemptsAssumption DEF Beyond
<1> QED BY <1>1, BudgetInvariant, PTL

=============================================================================
