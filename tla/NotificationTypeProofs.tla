------------------------ MODULE NotificationTypeProofs ------------------------
(***************************************************************************)
(* Type correctness of NotificationSystem, for every value of its          *)
(* constants.  TypeOK is not inductive: what a task does to the store is   *)
(* typed only if the task has a notification and a number, and the         *)
(* attempts can be counted only if they are finitely many.                 *)
(***************************************************************************)
EXTENDS NotificationSystem, FiniteSetTheorems, SequenceTheorems, TLAPS

AttemptsAreFinite == \A n \in Notifications : IsFiniteSet(attempts[n])

TasksHaveTargets ==
    \A w \in Workers :
        /\ worker[w].stage # "idle" => Target(w) \in Notifications
        /\ worker[w].stage \in {"calling", "called"} => worker[w].number # 0

PublishersHaveRows ==
    \A p \in Publishers :
        publisher[p].stage \in {"leased", "enqueued", "loaded"}
            => publisher[p].row \in RowNames

SessionsHaveTargets ==
    \A s \in Sessions :
        session[s].request # "none" => session[s].notification \in Notifications

TypeInv ==
    /\ TypeOK
    /\ AttemptsAreFinite
    /\ TasksHaveTargets
    /\ PublishersHaveRows
    /\ SessionsHaveTargets

USE ScheduledAssumption, MaxAttemptsAssumption, NoneAssumption,
    ReconcilerRunsAssumption, CallbackEventsAssumption

-----------------------------------------------------------------------------
(* Facts about the shared store.                                           *)

LEMMA TimersType ==
    /\ NoTimer \in Timers /\ ScheduleTimer \in Timers
    /\ \A n \in Notifications : ScheduledAt(n) \in Timers
    /\ \A k \in Nat : RetriesLeft(k) => Backoff(k) \in Timers
  BY DEF NoTimer, ScheduleTimer, Timers, ScheduledAt, RetriesLeft, Backoff

LEMMA AddOutboxRowType ==
    ASSUME outbox \in [Notifications -> Seq(OutboxRows)],
           NEW n \in Notifications, NEW timer \in Timers,
           AddOutboxRow(n, timer)
    PROVE  outbox' \in [Notifications -> Seq(OutboxRows)]
  <1>1. UnpublishedRow(timer) \in OutboxRows
    BY DEF UnpublishedRow, OutboxRows, Leases
  <1>2. Append(outbox[n], UnpublishedRow(timer)) \in Seq(OutboxRows)
    BY <1>1
  <1>3. QED
    BY <1>2 DEF AddOutboxRow

(* Assigning a column of one outbox row keeps the sequence of rows. *)
LEMMA OutboxRowUpdate ==
    ASSUME NEW s \in Seq(OutboxRows), NEW i \in Nat, NEW lease \in Leases
    PROVE  /\ [s EXCEPT ![i].lease = lease] \in Seq(OutboxRows)
           /\ [s EXCEPT ![i].published = TRUE] \in Seq(OutboxRows)
  <1>1. CASE i \in 1 .. Len(s)
    <2>1. s[i] \in OutboxRows
      BY <1>1
    <2>2. /\ [s[i] EXCEPT !.lease = lease] \in OutboxRows
          /\ [s[i] EXCEPT !.published = TRUE] \in OutboxRows
      BY <2>1 DEF OutboxRows
    <2>3. QED
      BY <1>1, <2>2, ExceptSeq
  <1>2. CASE i \notin 1 .. Len(s)
    <2>1. DOMAIN s = 1 .. Len(s)
      OBVIOUS
    <2>2. /\ [s EXCEPT ![i].lease = lease] = s
          /\ [s EXCEPT ![i].published = TRUE] = s
      BY <1>2, <2>1
    <2>3. QED
      BY <2>2
  <1>3. QED
    BY <1>1, <1>2

LEMMA BumpType ==
    ASSUME NEW S, NEW f \in [S -> Nat], NEW x
    PROVE  [f EXCEPT ![x] = @ + 1] \in [S -> Nat]
  <1>1. CASE x \in S
    <2>1. f[x] + 1 \in Nat
      BY <1>1
    <2>2. QED
      BY <2>1
  <1>2. CASE x \notin S
    <2>1. [f EXCEPT ![x] = @ + 1] = f
      BY <1>2
    <2>2. QED
      BY <2>1
  <1>3. QED
    BY <1>1, <1>2

LEMMA SpendType ==
    ASSUME faults \in [crashes : Nat, overruns : Nat, lost : Nat, operations : Nat],
           SpendCrash \/ SpendOverrun \/ SpendLostAnswer \/ SpendOperation
    PROVE  faults' \in [crashes : Nat, overruns : Nat, lost : Nat, operations : Nat]
  BY DEF SpendCrash, SpendOverrun, SpendLostAnswer, SpendOperation

LEMMA RowUpdateType ==
    ASSUME NEW f \in [Notifications -> Rows], NEW n \in Notifications
    PROVE  /\ \A lease \in Leases : [f EXCEPT ![n].lease = lease] \in [Notifications -> Rows]
           /\ \A status \in Statuses : [f EXCEPT ![n].status = status] \in [Notifications -> Rows]
  <1>1. f[n] \in Rows
    OBVIOUS
  <1>2. ASSUME NEW lease \in Leases
        PROVE  [f EXCEPT ![n].lease = lease] \in [Notifications -> Rows]
    <2>1. [f[n] EXCEPT !.lease = lease] \in Rows
      BY <1>1 DEF Rows
    <2>2. QED
      BY <2>1
  <1>3. ASSUME NEW status \in Statuses
        PROVE  [f EXCEPT ![n].status = status] \in [Notifications -> Rows]
    <2>1. [f[n] EXCEPT !.status = status] \in Rows
      BY <1>1 DEF Rows
    <2>2. QED
      BY <2>1
  <1>4. QED
    BY <1>2, <1>3

LEMMA TypeInit == Init => TypeInv
  <1> SUFFICES ASSUME Init PROVE TypeInv
    OBVIOUS
  <1> USE DEF Init, StoreInit, WorkerInit, PublisherInit, ReconcilerInit, SessionInit
  <1>1. StoreTypeOK
    <2>1. \A n \in Notifications : outbox[n] \in Seq(OutboxRows)
      OBVIOUS
    <2>2. QED
      BY <2>1, TimersType DEF StoreTypeOK, AbsentRow, NoFaults, Rows, Statuses, Leases
  <1>2. WorkerTypeOK /\ TasksHaveTargets
    BY TimersType DEF WorkerTypeOK, TasksHaveTargets, WorkerStates, IdleWorker, Stages,
       Message, AbsentRow, Rows, Statuses, Leases
  <1>3. PublisherTypeOK /\ PublishersHaveRows
    BY DEF PublisherTypeOK, PublishersHaveRows, PublisherStates, IdlePublisher, NoRow, Statuses
  <1>4. SessionTypeOK /\ SessionsHaveTargets
    BY TimersType DEF SessionTypeOK, SessionsHaveTargets, SessionStates, IdleSession,
       AbsentRow, Rows, Statuses, Leases
  <1>5. ReconcilerTypeOK /\ AttemptsAreFinite
    BY FS_EmptySet DEF ReconcilerTypeOK, AttemptsAreFinite
  <1>6. QED
    BY <1>1, <1>2, <1>3, <1>4, <1>5 DEF TypeInv, TypeOK

-----------------------------------------------------------------------------
(* The worker.                                                             *)

(* What a step of a worker must show: the parts of TypeInv it can disturb. *)
LEMMA WorkerFrame ==
    ASSUME TypeInv, UNCHANGED <<publisher, stuck, session>>,
           StoreTypeOK', AttemptsAreFinite', WorkerTypeOK', TasksHaveTargets'
    PROVE  TypeInv'
  BY DEF TypeInv, TypeOK, PublisherTypeOK, PublishersHaveRows, ReconcilerTypeOK,
     SessionTypeOK, SessionsHaveTargets

LEMMA ClaimedRowType ==
    ASSUME NEW row \in Rows, NEW loaded \in Rows
    PROVE  ClaimedRow(row, loaded) \in Rows
  BY DEF ClaimedRow, Rows, Statuses, Leases

LEMMA IdleWorkerType == IdleWorker \in WorkerStates
  BY TimersType DEF IdleWorker, WorkerStates, Stages, Message, AbsentRow, Rows, Statuses, Leases

(* A task that goes on to a state in which it has its target and number. *)
LEMMA TaskUpdate ==
    ASSUME WorkerTypeOK, TasksHaveTargets, NEW w \in Workers,
           NEW task \in WorkerStates,
           task.message.notification \in Notifications,
           task.stage \in {"calling", "called"} => task.number # 0,
           worker' = [worker EXCEPT ![w] = task]
    PROVE  WorkerTypeOK' /\ TasksHaveTargets'
  BY DEF WorkerTypeOK, TasksHaveTargets, Target

LEMMA ReceiptType ==
    ASSUME TypeInv, NEW w \in Workers, Receipt(w),
           UNCHANGED <<publisher, stuck, session>>
    PROVE  TypeInv'
  <1> PICK m \in Messages : ReturnEarly(w, m) \/ RefuseLease(w, m) \/ Receive(w, m)
    BY DEF Receipt
  <1> USE DEF TypeInv, TypeOK
  <1>1. Take(m) => broker' \in [Messages -> Nat]
    <2>1. Receivable(m) => broker[m] - 1 \in Nat
      BY DEF StoreTypeOK, Receivable
    <2>2. Receivable(m)
      BY DEF ReturnEarly, RefuseLease, Receive
    <2>3. QED
      BY <2>1, <2>2 DEF Take, StoreTypeOK
  <1>2. CASE ReturnEarly(w, m) \/ RefuseLease(w, m)
    BY <1>1, <1>2, WorkerFrame DEF ReturnEarly, RefuseLease, rows, StoreTypeOK,
       AttemptsAreFinite, WorkerTypeOK, TasksHaveTargets, Target
  <1>3. CASE Receive(w, m)
    <2>1. StoreTypeOK' /\ AttemptsAreFinite'
      BY <1>1, <1>3 DEF Receive, rows, StoreTypeOK, AttemptsAreFinite
    <2>2. m.notification \in Notifications /\ m.eta \in Timers
      BY DEF Messages
    <2> DEFINE task == [worker[w] EXCEPT !.stage = "read", !.message = m,
                                         !.loaded = notif[m.notification]]
    <2>3. worker[w] \in WorkerStates /\ notif[m.notification] \in Rows
      BY <2>2 DEF WorkerTypeOK, StoreTypeOK
    <2>4. m \in [notification : Notifications \cup {None}, eta : Timers]
      BY DEF Messages
    <2>5. task \in WorkerStates /\ task.stage = "read" /\ task.message = m
      BY <2>3, <2>4 DEF WorkerStates, Stages
    <2>6. worker' = [worker EXCEPT ![w] = task]
      BY <1>3, <2>3 DEF Receive, WorkerTypeOK
    <2>7. WorkerTypeOK' /\ TasksHaveTargets'
      BY <2>2, <2>5, <2>6, TaskUpdate
    <2>8. QED
      BY <1>3, <2>1, <2>7, WorkerFrame
  <1>4. QED
    BY <1>2, <1>3

LEMMA CallType ==
    ASSUME TypeInv, NEW w \in Workers, UNCHANGED <<publisher, stuck, session>>,
           \/ Claim(w)
           \/ StartCall(w)
           \/ \E result \in Results : ProviderAnswers(w, result)
           \/ AnswerLost(w)
    PROVE  TypeInv'
  <1> USE DEF TypeInv, TypeOK
  <1>1. CASE Claim(w)
    <2>1. StoreTypeOK' /\ AttemptsAreFinite'
      BY <1>1, ClaimedRowType DEF Claim, StoreTypeOK, AttemptsAreFinite, WorkerTypeOK,
         WorkerStates
    <2>2. WorkerTypeOK' /\ TasksHaveTargets'
      <3> DEFINE row == ClaimedRow(worker[w].loaded, worker[w].loaded)
                 task == [worker[w] EXCEPT !.stage = "claimed", !.loaded = row]
      <3>1. worker[w] \in WorkerStates
        BY DEF WorkerTypeOK
      <3>2. row \in Rows
        BY <3>1, ClaimedRowType DEF WorkerStates
      <3>3. task \in WorkerStates /\ task.stage = "claimed" /\ task.message = worker[w].message
        BY <3>1, <3>2 DEF WorkerStates, Stages
      <3>4. worker' = [worker EXCEPT ![w] = task]
        BY <1>1, <3>1 DEF Claim, WorkerTypeOK, WorkerStates
      <3>5. Target(w) \in Notifications
        BY <1>1 DEF Claim, TasksHaveTargets
      <3>6. QED
        BY <3>3, <3>4, <3>5, TaskUpdate DEF Target
    <2>3. QED
      BY <2>1, <2>2, WorkerFrame
  <1>2. CASE StartCall(w)
    <2>1. NextNumber(Target(w)) \in Nat \ {0}
      BY <1>2, FS_CardinalityType DEF StartCall, NextNumber, AttemptsAreFinite, TasksHaveTargets
    <2>2. StoreTypeOK' /\ AttemptsAreFinite'
      BY <1>2 DEF StartCall, storeVars, rows, StoreTypeOK, AttemptsAreFinite
    <2>3. WorkerTypeOK' /\ TasksHaveTargets'
      <3> DEFINE task == [worker[w] EXCEPT !.stage = "calling",
                                           !.number = NextNumber(Target(w))]
      <3>1. worker[w] \in WorkerStates
        BY DEF WorkerTypeOK
      <3>2. /\ task \in WorkerStates
            /\ task.message = worker[w].message
            /\ task.number = NextNumber(Target(w))
        BY <2>1, <3>1 DEF WorkerStates, Stages
      <3>3. worker' = [worker EXCEPT ![w] = task]
        BY <1>2, <3>1 DEF StartCall, WorkerTypeOK, WorkerStates
      <3>4. Target(w) \in Notifications
        BY <1>2 DEF StartCall, TasksHaveTargets
      <3>5. QED
        BY <2>1, <3>2, <3>3, <3>4, TaskUpdate DEF Target
    <2>4. QED
      BY <2>2, <2>3, WorkerFrame
  <1>3. ASSUME NEW result \in Results, ProviderAnswers(w, result)
        PROVE  TypeInv'
    <2>1. StoreTypeOK' /\ AttemptsAreFinite'
      BY <1>3, BumpType DEF ProviderAnswers, rows, StoreTypeOK, AttemptsAreFinite
    <2>2. WorkerTypeOK' /\ TasksHaveTargets'
      <3> DEFINE task == [worker[w] EXCEPT !.stage = "called", !.result = result]
      <3>1. worker[w] \in WorkerStates
        BY DEF WorkerTypeOK
      <3>2. /\ task \in WorkerStates
            /\ task.message = worker[w].message
            /\ task.number = worker[w].number
        BY <3>1 DEF WorkerStates, Stages
      <3>3. worker' = [worker EXCEPT ![w] = task]
        BY <1>3, <3>1 DEF ProviderAnswers, WorkerTypeOK, WorkerStates
      <3>4. Target(w) \in Notifications /\ worker[w].number # 0
        BY <1>3 DEF ProviderAnswers, TasksHaveTargets
      <3>5. QED
        BY <3>2, <3>3, <3>4, TaskUpdate DEF Target
    <2>3. QED
      BY <2>1, <2>2, WorkerFrame
  <1>4. CASE AnswerLost(w)
    <2>1. StoreTypeOK' /\ AttemptsAreFinite'
      BY <1>4, BumpType, SpendType DEF AnswerLost, rows, StoreTypeOK, AttemptsAreFinite
    <2>2. WorkerTypeOK' /\ TasksHaveTargets'
      <3> DEFINE task == [worker[w] EXCEPT !.stage = "called", !.result = "retryable"]
      <3>1. worker[w] \in WorkerStates
        BY DEF WorkerTypeOK
      <3>2. /\ task \in WorkerStates
            /\ task.message = worker[w].message
            /\ task.number = worker[w].number
        BY <3>1 DEF WorkerStates, Stages, Results
      <3>3. worker' = [worker EXCEPT ![w] = task]
        BY <1>4, <3>1 DEF AnswerLost, WorkerTypeOK, WorkerStates
      <3>4. Target(w) \in Notifications /\ worker[w].number # 0
        BY <1>4 DEF AnswerLost, TasksHaveTargets
      <3>5. QED
        BY <3>2, <3>3, <3>4, TaskUpdate DEF Target
    <2>3. QED
      BY <2>1, <2>2, WorkerFrame
  <1>5. QED
    BY <1>1, <1>2, <1>3, <1>4

(* Every way of recording an outcome. *)
LEMMA RecordOutcomeType ==
    ASSUME TypeInv, NEW w \in Workers, NEW status \in Statuses, NEW next,
           Target(w) \in Notifications => next \in Timers,
           worker[w].stage = "called", worker[w].result \in Results,
           RecordOutcome(w, status, next),
           outbox' \in [Notifications -> Seq(OutboxRows)],
           UNCHANGED <<publisher, stuck, session>>
    PROVE  TypeInv'
  <1> USE DEF TypeInv, TypeOK
  <1> DEFINE entry == [number |-> worker[w].number, result |-> worker[w].result]
  <1>1. Target(w) \in Notifications
    BY DEF TasksHaveTargets
  <1>2. entry \in Attempts
    BY DEF TasksHaveTargets, WorkerTypeOK, WorkerStates, Attempts
  <1>3. attempts' = [attempts EXCEPT ![Target(w)] = @ \cup {entry}]
    BY DEF RecordOutcome
  <1>4. attempts' \in [Notifications -> SUBSET Attempts]
    BY <1>1, <1>2, <1>3 DEF StoreTypeOK
  <1>5. AttemptsAreFinite'
    <2>1. IsFiniteSet(attempts[Target(w)] \cup {entry})
      BY <1>1, FS_AddElement DEF AttemptsAreFinite
    <2>2. QED
      BY <1>1, <1>3, <2>1 DEF AttemptsAreFinite, StoreTypeOK
  <1>6. notif' \in [Notifications -> Rows]
    BY <1>1 DEF RecordOutcome, StoreTypeOK, Rows, Leases
  <1>7. StoreTypeOK'
    BY <1>4, <1>6 DEF RecordOutcome, StoreTypeOK
  <1>8. WorkerTypeOK' /\ TasksHaveTargets'
    BY <1>1, IdleWorkerType DEF RecordOutcome, Finish, WorkerTypeOK, WorkerStates, Stages,
       TasksHaveTargets, Target, IdleWorker
  <1>9. QED
    BY <1>5, <1>7, <1>8, WorkerFrame

LEMMA RecordType ==
    ASSUME TypeInv, NEW w \in Workers, UNCHANGED <<publisher, stuck, session>>,
           \/ RecordAccepted(w) \/ RecordDeferred(w)
           \/ RecordDeadLettered(w) \/ RecordFailed(w)
    PROVE  TypeInv'
  <1> USE TimersType DEF Results, Statuses
  <1>1. outbox \in [Notifications -> Seq(OutboxRows)] /\ notif \in [Notifications -> Rows]
    BY DEF TypeInv, TypeOK, StoreTypeOK
  <1>2. \A n \in Notifications : notif[n].next \in Timers
    BY <1>1 DEF Rows
  <1>3. CASE RecordAccepted(w)
    BY <1>1, <1>2, <1>3, RecordOutcomeType DEF RecordAccepted
  <1>4. CASE RecordDeferred(w)
    <2>1. Backoff(worker[w].number) \in Timers
      BY <1>4 DEF RecordDeferred, TypeInv, TypeOK, WorkerTypeOK, WorkerStates
    <2>2. Target(w) \in Notifications
      BY <1>4 DEF RecordDeferred, TypeInv, TasksHaveTargets
    <2>3. outbox' \in [Notifications -> Seq(OutboxRows)]
      BY <1>1, <1>4, <2>1, <2>2, AddOutboxRowType DEF RecordDeferred
    <2>4. QED
      BY <1>4, <2>1, <2>3, RecordOutcomeType DEF RecordDeferred
  <1>5. CASE RecordDeadLettered(w)
    BY <1>1, <1>2, <1>5, RecordOutcomeType DEF RecordDeadLettered
  <1>6. CASE RecordFailed(w)
    BY <1>1, <1>2, <1>6, RecordOutcomeType DEF RecordFailed
  <1>7. QED
    BY <1>3, <1>4, <1>5, <1>6

LEMMA TaskEndType ==
    ASSUME TypeInv, NEW w \in Workers, UNCHANGED <<publisher, stuck, session>>,
           RecordConflict(w) \/ Acknowledge(w) \/ CrashWorker(w)
    PROVE  TypeInv'
  <1> USE DEF TypeInv, TypeOK
  <1>1. StoreTypeOK' /\ AttemptsAreFinite'
    <2>1. CASE RecordConflict(w) \/ Acknowledge(w)
      BY <2>1 DEF RecordConflict, Acknowledge, storeVars, rows, StoreTypeOK, AttemptsAreFinite
    <2>2. CASE CrashWorker(w)
      BY <2>2, BumpType, SpendType DEF CrashWorker, rows, StoreTypeOK, AttemptsAreFinite
    <2>3. QED
      BY <2>1, <2>2
  <1>2. WorkerTypeOK' /\ TasksHaveTargets'
    <2>1. CASE RecordConflict(w)
      BY <2>1, IdleWorkerType DEF RecordConflict, Finish, WorkerTypeOK, WorkerStates, Stages,
         TasksHaveTargets, Target, IdleWorker
    <2>2. CASE Acknowledge(w) \/ CrashWorker(w)
      BY <2>2, IdleWorkerType DEF Acknowledge, CrashWorker, WorkerTypeOK, TasksHaveTargets,
         Target, IdleWorker
    <2>3. QED
      BY <2>1, <2>2
  <1>3. QED
    BY <1>1, <1>2, WorkerFrame

LEMMA ExpireLeaseType ==
    ASSUME TypeInv, NEW n \in Notifications, ExpireLease(n),
           UNCHANGED <<publisher, stuck, session>>
    PROVE  TypeInv'
  <1> USE DEF TypeInv, TypeOK
  <1>1. notif' \in [Notifications -> Rows]
    BY RowUpdateType DEF ExpireLease, StoreTypeOK, Leases
  <1>2. faults' \in [crashes : Nat, overruns : Nat, lost : Nat, operations : Nat]
    BY SpendType DEF ExpireLease, StoreTypeOK
  <1>3. StoreTypeOK' /\ AttemptsAreFinite' /\ WorkerTypeOK' /\ TasksHaveTargets'
    BY <1>1, <1>2 DEF ExpireLease, StoreTypeOK, AttemptsAreFinite, WorkerTypeOK,
       TasksHaveTargets, Target
  <1>4. QED
    BY <1>3, WorkerFrame

LEMMA WorkerStepType ==
    TypeInv /\ WorkerNext /\ UNCHANGED <<publisher, stuck, session>> => TypeInv'
  BY ReceiptType, CallType, RecordType, TaskEndType, ExpireLeaseType DEF WorkerNext, Processing
-----------------------------------------------------------------------------
(* The publisher.                                                          *)

LEMMA PublisherFrame ==
    ASSUME TypeInv, UNCHANGED <<worker, stuck, session>>, UNCHANGED attempts,
           StoreTypeOK', PublisherTypeOK', PublishersHaveRows'
    PROVE  TypeInv'
  BY DEF TypeInv, TypeOK, WorkerTypeOK, TasksHaveTargets, Target, AttemptsAreFinite,
     ReconcilerTypeOK, SessionTypeOK, SessionsHaveTargets

(* Writing the columns of the outbox row r. *)
LEMMA SetLeaseType ==
    ASSUME outbox \in [Notifications -> Seq(OutboxRows)],
           NEW r \in RowNames, NEW lease \in Leases
    PROVE  /\ [outbox EXCEPT ![r[1]][r[2]].lease = lease] \in [Notifications -> Seq(OutboxRows)]
           /\ [outbox EXCEPT ![r[1]][r[2]].published = TRUE,
                             ![r[1]][r[2]].lease = lease] \in [Notifications -> Seq(OutboxRows)]
  <1>1. r[1] \in Notifications /\ r[2] \in Nat /\ outbox[r[1]] \in Seq(OutboxRows)
    BY DEF RowNames
  <1> DEFINE s == outbox[r[1]]
             t == [s EXCEPT ![r[2]].published = TRUE]
  <1>2. [s EXCEPT ![r[2]].lease = lease] \in Seq(OutboxRows) /\ t \in Seq(OutboxRows)
    BY <1>1, OutboxRowUpdate
  <1>3. [t EXCEPT ![r[2]].lease = lease] \in Seq(OutboxRows)
    BY <1>1, <1>2, OutboxRowUpdate
  <1>4. [outbox EXCEPT ![r[1]][r[2]].lease = lease]
            = [outbox EXCEPT ![r[1]] = [s EXCEPT ![r[2]].lease = lease]]
    OBVIOUS
  <1>5. [outbox EXCEPT ![r[1]][r[2]].published = TRUE, ![r[1]][r[2]].lease = lease]
            = [outbox EXCEPT ![r[1]] = [t EXCEPT ![r[2]].lease = lease]]
    BY <1>1
  <1> HIDE DEF s, t
  <1>6. QED
    BY <1>1, <1>2, <1>3, <1>4, <1>5

LEMMA IdlePublisherType ==
    /\ IdlePublisher \in PublisherStates
    /\ IdlePublisher.stage = "idle"
  BY DEF IdlePublisher, PublisherStates, NoRow, Statuses

(* A step that gives publisher p the state q. *)
LEMMA PublisherUpdate ==
    ASSUME PublisherTypeOK, PublishersHaveRows, NEW p \in Publishers,
           NEW q \in PublisherStates, publisher' = [publisher EXCEPT ![p] = q],
           q.stage \in {"leased", "enqueued", "loaded"} => q.row \in RowNames
    PROVE  PublisherTypeOK' /\ PublishersHaveRows'
  BY DEF PublisherTypeOK, PublishersHaveRows

LEMMA NextRowType ==
    ASSUME TypeInv, NEW p \in Publishers, NEW seen \in Notifications \cup {None},
           NEW status \in Statuses, NextRow(p, seen, status)
    PROVE  PublisherTypeOK' /\ PublishersHaveRows'
  <1> DEFINE q == IF publisher[p].batch = {}
                  THEN IdlePublisher
                  ELSE [stage |-> "selected", batch |-> publisher[p].batch, row |-> NoRow,
                        seen |-> seen, status |-> status]
  <1>1. publisher[p] \in PublisherStates
    BY DEF TypeInv, TypeOK, PublisherTypeOK
  <1>2. q \in PublisherStates /\ q.stage \in {"idle", "selected"}
    BY <1>1, IdlePublisherType DEF PublisherStates
  <1>3. publisher' = [publisher EXCEPT ![p] = q]
    BY DEF NextRow
  <1> HIDE DEF q
  <1>4. QED
    BY <1>2, <1>3, PublisherUpdate DEF TypeInv, TypeOK

LEMMA SelectType ==
    ASSUME TypeInv, NEW p \in Publishers, UNCHANGED <<worker, stuck, session>>,
           \/ SelectBatch(p)
           \/ \E r \in publisher[p].batch : LeaseRow(p, r)
    PROVE  TypeInv'
  <1>1. publisher[p] \in PublisherStates /\ PublisherTypeOK /\ PublishersHaveRows
    BY DEF TypeInv, TypeOK, PublisherTypeOK
  <1>2. StoreTypeOK
    BY DEF TypeInv, TypeOK
  <1>3. CASE SelectBatch(p)
    <2> DEFINE q == [publisher[p] EXCEPT !.stage = "selected", !.batch = Selectable]
    <2>1. \A n \in Notifications : DOMAIN outbox[n] \subseteq Nat
      BY <1>2 DEF StoreTypeOK
    <2>2. Selectable \subseteq RowNames
      BY <2>1 DEF Selectable, RowNames
    <2>3. q \in PublisherStates /\ q.stage = "selected"
      BY <1>1, <2>2 DEF PublisherStates
    <2>4. publisher' = [publisher EXCEPT ![p] = q]
      BY <1>1, <1>3 DEF SelectBatch, PublisherTypeOK
    <2> HIDE DEF q
    <2>5. PublisherTypeOK' /\ PublishersHaveRows'
      BY <1>1, <2>3, <2>4, PublisherUpdate
    <2>6. StoreTypeOK' /\ UNCHANGED attempts
      BY <1>2, <1>3 DEF SelectBatch, storeVars, rows, StoreTypeOK
    <2>7. QED
      BY <2>5, <2>6, PublisherFrame
  <1>4. ASSUME NEW r \in publisher[p].batch, LeaseRow(p, r)
        PROVE  TypeInv'
    <2> DEFINE q == [publisher[p] EXCEPT !.stage = "leased", !.batch = @ \ {r}, !.row = r]
    <2>1. r \in RowNames
      BY <1>1 DEF PublisherStates
    <2>2. q \in PublisherStates /\ q.row = r
      BY <1>1, <2>1 DEF PublisherStates
    <2>3. publisher' = [publisher EXCEPT ![p] = q]
      BY <1>1, <1>4 DEF LeaseRow, PublisherTypeOK
    <2> HIDE DEF q
    <2>4. PublisherTypeOK' /\ PublishersHaveRows'
      BY <1>1, <2>1, <2>2, <2>3, PublisherUpdate
    <2>5. outbox' \in [Notifications -> Seq(OutboxRows)]
      BY <1>2, <1>4, <2>1, SetLeaseType DEF LeaseRow, SetLease, StoreTypeOK, Leases
    <2>6. StoreTypeOK' /\ UNCHANGED attempts
      BY <1>2, <1>4, <2>5 DEF LeaseRow, StoreTypeOK
    <2>7. QED
      BY <2>4, <2>6, PublisherFrame
  <1>5. QED
    BY <1>3, <1>4

LEMMA PublishType ==
    ASSUME TypeInv, NEW p \in Publishers, UNCHANGED <<worker, stuck, session>>,
           \/ Enqueue(p) \/ EnqueueFails(p) \/ LoadNotification(p)
           \/ CommitPublished(p) \/ CrashPublisher(p)
    PROVE  TypeInv'
  <1>1. publisher[p] \in PublisherStates /\ PublisherTypeOK /\ PublishersHaveRows
    BY DEF TypeInv, TypeOK, PublisherTypeOK
  <1>2. StoreTypeOK
    BY DEF TypeInv, TypeOK
  <1>3. publisher[p].stage \in {"leased", "enqueued", "loaded"}
            => /\ publisher[p].row \in RowNames
               /\ publisher[p].row[1] \in Notifications
    BY <1>1 DEF PublishersHaveRows, RowNames
  <1>4. /\ publisher[p].seen \in Notifications \cup {None}
        /\ publisher[p].status \in Statuses
    BY <1>1 DEF PublisherStates
  <1>5. CASE Enqueue(p)
    <2> DEFINE q == [publisher[p] EXCEPT !.stage = "enqueued"]
    <2>1. q \in PublisherStates /\ q.row = publisher[p].row
      BY <1>1 DEF PublisherStates
    <2>2. publisher' = [publisher EXCEPT ![p] = q]
      BY <1>1, <1>5 DEF Enqueue, PublisherTypeOK
    <2>3. publisher[p].row \in RowNames
      BY <1>3, <1>5 DEF Enqueue
    <2> HIDE DEF q
    <2>4. PublisherTypeOK' /\ PublishersHaveRows'
      BY <1>1, <2>1, <2>2, <2>3, PublisherUpdate
    <2>5. StoreTypeOK' /\ UNCHANGED attempts
      BY <1>2, <1>5, BumpType DEF Enqueue, rows, StoreTypeOK
    <2>6. QED
      BY <2>4, <2>5, PublisherFrame
  <1>6. CASE EnqueueFails(p)
    <2>1. PublisherTypeOK' /\ PublishersHaveRows'
      BY <1>4, <1>6, NextRowType DEF EnqueueFails
    <2>2. outbox' \in [Notifications -> Seq(OutboxRows)]
      BY <1>2, <1>3, <1>6, SetLeaseType DEF EnqueueFails, SetLease, StoreTypeOK, Leases
    <2>3. StoreTypeOK' /\ UNCHANGED attempts
      BY <1>2, <1>6, <2>2 DEF EnqueueFails, StoreTypeOK
    <2>4. QED
      BY <2>1, <2>3, PublisherFrame
  <1>7. CASE LoadNotification(p)
    <2> DEFINE n == publisher[p].row[1]
               q == [publisher[p] EXCEPT !.stage = "loaded", !.seen = n,
                         !.status = IF publisher[p].seen = n THEN @ ELSE notif[n].status]
    <2>1. publisher[p].row \in RowNames /\ n \in Notifications
      BY <1>3, <1>7 DEF LoadNotification
    <2>2. notif[n].status \in Statuses
      BY <1>2, <2>1 DEF StoreTypeOK, Rows
    <2>3. q \in PublisherStates /\ q.row = publisher[p].row
      BY <1>1, <1>4, <2>1, <2>2 DEF PublisherStates
    <2>4. publisher' = [publisher EXCEPT ![p] = q]
      BY <1>1, <1>7 DEF LoadNotification, PublisherTypeOK
    <2> HIDE DEF q
    <2>5. PublisherTypeOK' /\ PublishersHaveRows'
      BY <1>1, <2>1, <2>3, <2>4, PublisherUpdate
    <2>6. StoreTypeOK' /\ UNCHANGED attempts
      BY <1>2, <1>7 DEF LoadNotification, storeVars, rows, StoreTypeOK
    <2>7. QED
      BY <2>5, <2>6, PublisherFrame
  <1>8. CASE CommitPublished(p)
    <2> DEFINE r == publisher[p].row
    <2>1. r \in RowNames /\ r[1] \in Notifications
      BY <1>3, <1>8 DEF CommitPublished
    <2>2. PublisherTypeOK' /\ PublishersHaveRows'
      BY <1>4, <1>8, <2>1, NextRowType DEF CommitPublished, Statuses
    <2>3. outbox' \in [Notifications -> Seq(OutboxRows)]
      BY <1>2, <1>8, <2>1, SetLeaseType DEF CommitPublished, StoreTypeOK, Leases
    <2>4. notif' \in [Notifications -> Rows]
      BY <1>2, <1>8, <2>1, RowUpdateType DEF CommitPublished, StoreTypeOK, Statuses
    <2>5. StoreTypeOK' /\ UNCHANGED attempts
      BY <1>2, <1>8, <2>3, <2>4 DEF CommitPublished, StoreTypeOK
    <2>6. QED
      BY <2>2, <2>5, PublisherFrame
  <1>9. CASE CrashPublisher(p)
    <2>1. PublisherTypeOK' /\ PublishersHaveRows'
      BY <1>1, <1>9, IdlePublisherType, PublisherUpdate DEF CrashPublisher
    <2>2. StoreTypeOK' /\ UNCHANGED attempts
      BY <1>2, <1>9, SpendType DEF CrashPublisher, rows, StoreTypeOK
    <2>3. QED
      BY <2>1, <2>2, PublisherFrame
  <1>10. QED
    BY <1>5, <1>6, <1>7, <1>8, <1>9

LEMMA OutboxLeaseType ==
    ASSUME TypeInv, OutboxLeasesExpire, UNCHANGED <<worker, stuck, session>>
    PROVE  TypeInv'
  <1>1. PICK n \in Notifications : \E i \in DOMAIN outbox[n] : ExpireOutboxLease(<<n, i>>)
    BY DEF OutboxLeasesExpire
  <1>2. StoreTypeOK
    BY DEF TypeInv, TypeOK
  <1>3. PICK i \in Nat : ExpireOutboxLease(<<n, i>>)
    <2>1. outbox[n] \in Seq(OutboxRows)
      BY <1>2 DEF StoreTypeOK
    <2>2. DOMAIN outbox[n] \subseteq Nat
      BY <2>1
    <2>3. QED
      BY <1>1, <2>2
  <1>4. <<n, i>> \in RowNames
    BY DEF RowNames
  <1>5. outbox' = [outbox EXCEPT ![<<n, i>>[1]][<<n, i>>[2]].lease = "expired"]
    BY <1>3 DEF ExpireOutboxLease, SetLease
  <1>6. outbox' \in [Notifications -> Seq(OutboxRows)]
    BY <1>2, <1>4, <1>5, SetLeaseType DEF StoreTypeOK, Leases
  <1>7. StoreTypeOK' /\ UNCHANGED <<attempts, publisher>>
    BY <1>2, <1>3, <1>6, SpendType DEF ExpireOutboxLease, StoreTypeOK
  <1>8. QED
    BY <1>7, PublisherFrame DEF TypeInv, TypeOK, PublisherTypeOK, PublishersHaveRows

LEMMA PublisherStepType ==
    TypeInv /\ PublisherNext /\ UNCHANGED <<worker, stuck, session>> => TypeInv'
  BY SelectType, PublishType, OutboxLeaseType DEF PublisherNext, Publishing
-----------------------------------------------------------------------------
(* The reconciler, the requests and the clock.                             *)

(* What the reconciler makes of a row. *)
LEMMA RequeuedRowType ==
    ASSUME NEW row \in Rows
    PROVE  [row EXCEPT !.status = "queued", !.lease = "none"] \in Rows
  <1>1. "queued" \in Statuses /\ "none" \in Leases
    BY DEF Statuses, Leases
  <1>2. QED
    BY <1>1 DEF Rows

LEMMA ReconcilerStepType ==
    ASSUME TypeInv, ReconcilerNext, UNCHANGED <<worker, publisher, session>>
    PROVE  TypeInv'
  <1>1. StoreTypeOK /\ ReconcilerTypeOK
    BY DEF TypeInv, TypeOK
  <1>2. StoreTypeOK' /\ ReconcilerTypeOK' /\ UNCHANGED attempts
    <2>1. CASE ScanStuck
      BY <1>1, <2>1 DEF ScanStuck, storeVars, rows, StoreTypeOK, ReconcilerTypeOK
    <2>2. CASE CommitRecovery
      <3>1. notif' \in [Notifications -> Rows]
        <4>1. \A n \in Notifications :
                  /\ notif[n] \in Rows
                  /\ [notif[n] EXCEPT !.status = "queued", !.lease = "none"] \in Rows
          BY <1>1, RequeuedRowType DEF StoreTypeOK
        <4>2. QED
          BY <2>2, <4>1 DEF CommitRecovery
      <3>2. UnpublishedRow(NoTimer) \in OutboxRows
        BY TimersType DEF UnpublishedRow, OutboxRows, Leases
      <3>3. \A n \in Notifications :
                /\ outbox[n] \in Seq(OutboxRows)
                /\ Append(outbox[n], UnpublishedRow(NoTimer)) \in Seq(OutboxRows)
        BY <1>1, <3>2 DEF StoreTypeOK
      <3>4. outbox' \in [Notifications -> Seq(OutboxRows)]
        BY <2>2, <3>3 DEF CommitRecovery
      <3>5. QED
        BY <1>1, <2>2, <3>1, <3>4 DEF CommitRecovery, StoreTypeOK, ReconcilerTypeOK
    <2>3. QED
      BY <2>1, <2>2 DEF ReconcilerNext
  <1>3. QED
    BY <1>2 DEF TypeInv, TypeOK, WorkerTypeOK, TasksHaveTargets, Target, AttemptsAreFinite,
       PublisherTypeOK, PublishersHaveRows, SessionTypeOK, SessionsHaveTargets

LEMMA RequestsFrame ==
    ASSUME TypeInv, UNCHANGED <<worker, publisher, stuck>>, UNCHANGED attempts,
           StoreTypeOK', SessionTypeOK', SessionsHaveTargets'
    PROVE  TypeInv'
  BY DEF TypeInv, TypeOK, WorkerTypeOK, TasksHaveTargets, Target, AttemptsAreFinite,
     PublisherTypeOK, PublishersHaveRows, ReconcilerTypeOK

LEMMA CreateType ==
    ASSUME TypeInv, NEW n \in Notifications, CreateNotification(n),
           UNCHANGED <<worker, publisher, stuck>>
    PROVE  TypeInv'
  <1>1. StoreTypeOK
    BY DEF TypeInv, TypeOK
  <1>2. notif' \in [Notifications -> Rows]
    BY <1>1, RowUpdateType DEF CreateNotification, StoreTypeOK, Statuses
  <1>3. outbox' \in [Notifications -> Seq(OutboxRows)]
    BY <1>1, TimersType, AddOutboxRowType DEF CreateNotification, StoreTypeOK
  <1>4. StoreTypeOK' /\ UNCHANGED <<attempts, session>>
    BY <1>1, <1>2, <1>3 DEF CreateNotification, StoreTypeOK
  <1>5. QED
    BY <1>4, RequestsFrame DEF TypeInv, TypeOK, SessionTypeOK, SessionsHaveTargets

LEMMA BeginType ==
    ASSUME TypeInv, NEW s \in Sessions, NEW n \in Notifications,
           UNCHANGED <<worker, publisher, stuck>>,
           \/ \E request \in Operations : BeginOperation(s, request, n)
           \/ \E event \in CallbackEvents : BeginCallback(s, event, n)
    PROVE  TypeInv'
  <1>1. StoreTypeOK /\ SessionTypeOK /\ SessionsHaveTargets
    BY DEF TypeInv, TypeOK
  <1>2. PICK request \in Operations \cup ProviderEvents : Load(s, request, n)
    BY DEF BeginOperation, BeginCallback
  <1>3. SessionTypeOK' /\ SessionsHaveTargets'
    <2>1. notif[n] \in Rows
      BY <1>1 DEF StoreTypeOK
    <2>2. [request |-> request, notification |-> n, loaded |-> notif[n]] \in SessionStates
      BY <2>1 DEF SessionStates
    <2>3. QED
      BY <1>1, <1>2, <2>2 DEF Load, SessionTypeOK, SessionsHaveTargets
  <1>4. StoreTypeOK' /\ UNCHANGED attempts
    BY <1>1, SpendType DEF BeginOperation, BeginCallback, storeVars, rows, StoreTypeOK
  <1>5. QED
    BY <1>3, <1>4, RequestsFrame

LEMMA TransitionType ==
    ASSUME NEW status \in Statuses, NEW event \in ProviderEvents
    PROVE  Transition(status, event) \in Statuses
  BY DEF Transition, Statuses, ProviderEvents

LEMMA EndingType ==
    ASSUME TypeInv, NEW s \in Sessions, UNCHANGED <<worker, publisher, stuck>>, Ending(s)
    PROVE  TypeInv'
  <1> DEFINE n == session[s].notification
  <1>1. StoreTypeOK /\ SessionTypeOK /\ SessionsHaveTargets
    BY DEF TypeInv, TypeOK
  <1>2. n \in Notifications /\ session[s].loaded \in Rows /\ notif[n] \in Rows
    <2>1. session[s].request # "none"
      BY DEF Ending, CommitCancel, CommitRetry, CommitReplay, CommitCallback,
         DuplicateCallback, ProviderEvents
    <2>2. QED
      BY <1>1, <2>1 DEF SessionsHaveTargets, SessionTypeOK, SessionStates, StoreTypeOK
  <1>3. EndRequest(s)
    BY DEF Ending, CommitCancel, CommitRetry, CommitReplay, CommitCallback, DuplicateCallback
  <1>4. SessionTypeOK' /\ SessionsHaveTargets'
    <2>1. IdleSession \in SessionStates /\ IdleSession.request = "none"
      BY TimersType DEF IdleSession, SessionStates, AbsentRow, Rows, Statuses, Leases
    <2>2. QED
      BY <1>1, <1>3, <2>1 DEF EndRequest, SessionTypeOK, SessionsHaveTargets
  <1>5. notif[n].next \in Timers /\ notif[n].lease \in Leases /\ NoTimer \in Timers
    BY <1>2, TimersType DEF Rows
  <1>6. StoreTypeOK' /\ UNCHANGED attempts
    <2>1. CASE CommitCancel(s)
      BY <1>1, <1>2, <2>1, RowUpdateType DEF CommitCancel, StoreTypeOK, Statuses
    <2>2. CASE CommitRetry(s)
      <3>1. notif' \in [Notifications -> Rows]
        BY <1>1, <1>2, <1>5, <2>2 DEF CommitRetry, Cleared, StoreTypeOK, Rows, Statuses, Leases
      <3>2. outbox' \in [Notifications -> Seq(OutboxRows)]
        BY <1>1, <1>2, <2>2, TimersType, AddOutboxRowType DEF CommitRetry, StoreTypeOK
      <3>3. QED
        BY <1>1, <2>2, <3>1, <3>2 DEF CommitRetry, StoreTypeOK
    <2>3. CASE CommitReplay(s)
      <3>1. notif' \in [Notifications -> Rows]
        BY <1>1, <1>2, <1>5, <2>3 DEF CommitReplay, Cleared, StoreTypeOK, Rows, Statuses
      <3>2. outbox' \in [Notifications -> Seq(OutboxRows)]
        BY <1>1, <1>2, <2>3, TimersType, AddOutboxRowType DEF CommitReplay, StoreTypeOK
      <3>3. QED
        BY <1>1, <2>3, <3>1, <3>2 DEF CommitReplay, StoreTypeOK
    <2>4. CASE CommitCallback(s)
      <3>1. /\ session[s].request \in ProviderEvents
            /\ Transition(session[s].loaded.status, session[s].request) \in Statuses
        BY <1>2, <2>4, TransitionType DEF CommitCallback, Rows
      <3>2. notif' \in [Notifications -> Rows]
        BY <1>1, <1>2, <2>4, <3>1, RowUpdateType DEF CommitCallback, StoreTypeOK
      <3>3. events' \in [Notifications -> SUBSET ProviderEvents]
        BY <1>1, <1>2, <2>4, <3>1 DEF CommitCallback, StoreTypeOK
      <3>4. QED
        BY <1>1, <2>4, <3>2, <3>3 DEF CommitCallback, StoreTypeOK
    <2>5. CASE DuplicateCallback(s)
      BY <1>1, <2>5 DEF DuplicateCallback, storeVars, rows, StoreTypeOK
    <2>6. QED
      BY <2>1, <2>2, <2>3, <2>4, <2>5 DEF Ending
  <1>7. QED
    BY <1>4, <1>6, RequestsFrame

LEMMA RequestsStepType ==
    TypeInv /\ RequestsNext /\ UNCHANGED <<worker, publisher, stuck>> => TypeInv'
  BY CreateType, BeginType, EndingType DEF RequestsNext

LEMMA TimePassesType ==
    ASSUME TypeInv, NEW n \in Notifications, TimePasses(n),
           UNCHANGED <<worker, publisher, stuck, session>>
    PROVE  TypeInv'
  <1>1. StoreTypeOK
    BY DEF TypeInv, TypeOK
  <1>2. PICK i \in 1 .. Len(outbox[n]) :
            elapsed' = [elapsed EXCEPT ![n] = outbox[n][i].eta]
    BY DEF TimePasses
  <1>3. outbox[n] \in Seq(OutboxRows)
    BY <1>1 DEF StoreTypeOK
  <1>4. outbox[n][i].eta \in Timers
    <2>1. outbox[n][i] \in OutboxRows
      BY <1>3
    <2>2. QED
      BY <2>1 DEF OutboxRows
  <1>5. StoreTypeOK' /\ UNCHANGED attempts
    BY <1>1, <1>2, <1>4 DEF TimePasses, rows, StoreTypeOK
  <1>6. QED
    BY <1>5, RequestsFrame DEF TypeInv, TypeOK, SessionTypeOK, SessionsHaveTargets

-----------------------------------------------------------------------------
LEMMA TypeStep == TypeInv /\ [Next]_vars => TypeInv'
  <1>1. TypeInv /\ UNCHANGED vars => TypeInv'
    BY DEF vars, storeVars, rows, TypeInv, TypeOK, StoreTypeOK, AttemptsAreFinite, WorkerTypeOK,
       TasksHaveTargets, Target, PublisherTypeOK, PublishersHaveRows, ReconcilerTypeOK,
       SessionTypeOK, SessionsHaveTargets
  <1>2. TypeInv /\ Next => TypeInv'
    BY WorkerStepType, PublisherStepType, ReconcilerStepType, RequestsStepType, TimePassesType
    DEF Next
  <1>3. QED
    BY <1>1, <1>2

(* The strengthening of TypeOK that every step preserves. *)
THEOREM TypeInvariant == Spec => []TypeInv
  <1>1. QED
    BY TypeInit, TypeStep, PTL DEF Spec

(* Every variable keeps its type, whatever the number of notifications,    *)
(* processes and faults.                                                   *)
THEOREM TypeCorrectness == Spec => []TypeOK
  <1>1. TypeInv => TypeOK
    BY DEF TypeInv
  <1>2. QED
    BY <1>1, TypeInvariant, PTL
=============================================================================
