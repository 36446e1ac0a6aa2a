---------------------------- MODULE DeliveryWorker ----------------------------
(***************************************************************************)
(* The Celery task gns.deliver: process_notification of delivery.py, one   *)
(* database session per message, for the channels that call a provider     *)
(* (the in_app branch has no provider call and is not part of this module).*)
(* Messages are acknowledged late: after the task returned or raised, and  *)
(* not at all when its process dies.                                       *)
(***************************************************************************)
EXTENDS NotificationStore

CONSTANT Workers

VARIABLE worker

(* Where a task stands: "read" holds the row it loaded, "claimed" has      *)
(* committed PROCESSING, "calling" has counted the attempts and called the *)
(* provider, "called" has the answer, "finished" has committed or raised   *)
(* but not yet acknowledged its message.                                   *)
Stages == {"idle", "read", "claimed", "calling", "called", "finished"}

WorkerStates ==
    [stage : Stages,
     message : [notification : Notifications \cup {None}, eta : Timers],
     loaded : Rows,
     number : Nat,
     result : Results \cup {"none"}]

IdleWorker ==
    [stage |-> "idle", message |-> Message(None, NoTimer), loaded |-> AbsentRow,
     number |-> 0, result |-> "none"]

WorkerTypeOK == worker \in [Workers -> WorkerStates]

WorkerInit == worker = [w \in Workers |-> IdleWorker]

Target(w) == worker[w].message.notification

(* The stages between the claim and the commit of the outcome. *)
Holding(w, n) ==
    Target(w) = n /\ worker[w].stage \in {"claimed", "calling", "called"}

-----------------------------------------------------------------------------
FinalStatuses == {"cancelled", "sent", "delivered", "failed", "dead_lettered"}

NothingToDo(n) ==
    \/ notif[n].status \in FinalStatuses
    \/ ~Due(n, ScheduledAt(n))
    \/ ~Due(n, notif[n].next)

LeaseHeld(n) == notif[n].status = "processing" /\ notif[n].lease = "live"

(* Celery hands a message to a free worker process once its eta is past. *)
Receivable(m) == broker[m] > 0 /\ Due(m.notification, m.eta)

Take(m) == broker' = [broker EXCEPT ![m] = @ - 1]

(* The row is final or not due: the task returns and the message is gone. *)
ReturnEarly(w, m) ==
    /\ worker[w].stage = "idle" /\ Receivable(m)
    /\ NothingToDo(m.notification)
    /\ Take(m)
    /\ UNCHANGED <<worker, rows, elapsed, accepts, faults>>

(* LeaseUnavailable: a task that raises is acknowledged like any other. *)
RefuseLease(w, m) ==
    /\ worker[w].stage = "idle" /\ Receivable(m)
    /\ ~NothingToDo(m.notification)
    /\ LeaseHeld(m.notification)
    /\ Take(m)
    /\ UNCHANGED <<worker, rows, elapsed, accepts, faults>>

Receive(w, m) ==
    /\ worker[w].stage = "idle" /\ Receivable(m)
    /\ ~NothingToDo(m.notification)
    /\ ~LeaseHeld(m.notification)
    /\ Take(m)
    /\ worker' = [worker EXCEPT ![w].stage = "read",
                                ![w].message = m,
                                ![w].loaded = notif[m.notification]]
    /\ UNCHANGED <<rows, elapsed, accepts, faults>>

(* Faulty: the claim sets the status and forgets the lease. *)
ClaimedRowWithoutLease(row, loaded) == [row EXCEPT !.status = "processing"]

(* The columns the claim writes: the lease always, the status only when    *)
(* the row was not loaded as PROCESSING with an expired lease.             *)
ClaimedRow(row, loaded) ==
    [row EXCEPT !.status = IF loaded.status = "processing" THEN @ ELSE "processing",
                !.lease = "live"]

Claim(w) ==
    /\ worker[w].stage = "read"
    /\ notif' = [notif EXCEPT ![Target(w)] = ClaimedRow(@, worker[w].loaded)]
    /\ worker' = [worker EXCEPT ![w].stage = "claimed",
                                ![w].loaded = ClaimedRow(@, @)]
    /\ UNCHANGED <<attempts, events, outbox, broker, elapsed, accepts, faults>>

(* Faulty: the first attempt is number 0. *)
NextNumberFromZero(n) == Cardinality(attempts[n])

NextNumber(n) == Cardinality(attempts[n]) + 1

StartCall(w) ==
    /\ worker[w].stage = "claimed"
    /\ worker' = [worker EXCEPT ![w].stage = "calling",
                                ![w].number = NextNumber(Target(w))]
    /\ UNCHANGED storeVars

ProviderAnswers(w, result) ==
    /\ worker[w].stage = "calling"
    /\ worker' = [worker EXCEPT ![w].stage = "called", ![w].result = result]
    /\ accepts' = IF result = "accepted"
                  THEN [accepts EXCEPT ![Target(w)] = @ + 1]
                  ELSE accepts
    /\ UNCHANGED <<rows, broker, elapsed, faults>>

(* The provider took the message but its answer timed out. *)
AnswerLost(w) ==
    /\ worker[w].stage = "calling"
    /\ SpendLostAnswer
    /\ worker' = [worker EXCEPT ![w].stage = "called", ![w].result = "retryable"]
    /\ accepts' = [accepts EXCEPT ![Target(w)] = @ + 1]
    /\ UNCHANGED <<rows, broker, elapsed>>

-----------------------------------------------------------------------------
(* The commit of the outcome. *)

(* Faulty: no unique constraint on the number. *)
NumberNeverTaken(n, number) == FALSE

NumberTaken(n, number) == \E a \in attempts[n] : a.number = number

(* Faulty: gives up one attempt too early. *)
RetriesLeftButOne(number) == number + 1 < MaxAttempts

RetriesLeft(number) == number < MaxAttempts

Finish(w) ==
    worker' = [worker EXCEPT ![w] = [IdleWorker EXCEPT !.stage = "finished",
                                                       !.message = worker[w].message]]

(* The attempt row, the new status and the released lease; number is still *)
(* free, or the unique constraint on it aborts the transaction.            *)
RecordOutcome(w, status, next) ==
    LET n == Target(w)
    IN  /\ ~NumberTaken(n, worker[w].number)
        /\ attempts' = [attempts EXCEPT ![n] =
               @ \cup {[number |-> worker[w].number, result |-> worker[w].result]}]
        /\ notif' = [notif EXCEPT ![n] =
               [status |-> status, next |-> next, lease |-> "none"]]
        /\ Finish(w)
        /\ UNCHANGED <<events, broker, elapsed, accepts, faults>>

(* next_attempt_at = None is written only where a value was loaded. *)
RecordAccepted(w) ==
    /\ worker[w].stage = "called" /\ worker[w].result = "accepted"
    /\ RecordOutcome(w, "sent", IF worker[w].loaded.next = NoTimer
                                THEN notif[Target(w)].next
                                ELSE NoTimer)
    /\ UNCHANGED outbox

RecordDeferred(w) ==
    /\ worker[w].stage = "called" /\ worker[w].result = "retryable"
    /\ RetriesLeft(worker[w].number)
    /\ RecordOutcome(w, "deferred", Backoff(worker[w].number))
    /\ AddOutboxRow(Target(w), Backoff(worker[w].number))

RecordDeadLettered(w) ==
    /\ worker[w].stage = "called" /\ worker[w].result = "retryable"
    /\ ~RetriesLeft(worker[w].number)
    /\ RecordOutcome(w, "dead_lettered", notif[Target(w)].next)
    /\ UNCHANGED outbox

RecordFailed(w) ==
    /\ worker[w].stage = "called" /\ worker[w].result = "permanent"
    /\ RecordOutcome(w, "failed", notif[Target(w)].next)
    /\ UNCHANGED outbox

(* Another task recorded the same number first.  The flush fails, and on   *)
(* the broken session the handler for other exceptions fails as well: the  *)
(* outcome is not recorded and the lease is not released.                  *)
RecordConflict(w) ==
    /\ worker[w].stage = "called"
    /\ NumberTaken(Target(w), worker[w].number)
    /\ Finish(w)
    /\ UNCHANGED storeVars

Acknowledge(w) ==
    /\ worker[w].stage = "finished"
    /\ worker' = [worker EXCEPT ![w] = IdleWorker]
    /\ UNCHANGED storeVars

(* task_acks_late and task_reject_on_worker_lost: the message is requeued. *)
CrashWorker(w) ==
    /\ worker[w].stage # "idle"
    /\ SpendCrash
    /\ broker' = [broker EXCEPT ![worker[w].message] = @ + 1]
    /\ worker' = [worker EXCEPT ![w] = IdleWorker]
    /\ UNCHANGED <<rows, elapsed, accepts>>

(* processing_lease_seconds pass: always possible once no task holds n,    *)
(* otherwise only when that task overruns its lease.                       *)
ExpireLease(n) ==
    /\ notif[n].lease = "live"
    /\ notif' = [notif EXCEPT ![n].lease = "expired"]
    /\ IF \E w \in Workers : Holding(w, n) THEN SpendOverrun ELSE UNCHANGED faults
    /\ UNCHANGED <<worker, attempts, events, outbox, broker, elapsed, accepts>>

-----------------------------------------------------------------------------
Receipt(w) ==
    \E m \in Messages : ReturnEarly(w, m) \/ RefuseLease(w, m) \/ Receive(w, m)

Processing(w) ==
    \/ Claim(w)
    \/ StartCall(w)
    \/ \E result \in Results : ProviderAnswers(w, result)
    \/ RecordAccepted(w) \/ RecordDeferred(w)
    \/ RecordDeadLettered(w) \/ RecordFailed(w)
    \/ RecordConflict(w)
    \/ Acknowledge(w)

WorkerNext ==
    \/ \E w \in Workers :
          Receipt(w) \/ Processing(w) \/ AnswerLost(w) \/ CrashWorker(w)
    \/ \E n \in Notifications : ExpireLease(n)
=============================================================================
