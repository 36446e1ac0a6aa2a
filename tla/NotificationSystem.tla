-------------------------- MODULE NotificationSystem --------------------------
(***************************************************************************)
(* The delivery core of GNS: the HTTP requests, the outbox publisher, the  *)
(* delivery workers and the reconciler, each with its own sessions on the  *)
(* shared store.                                                           *)
(***************************************************************************)
EXTENDS DeliveryWorker, OutboxPublisher, Reconciler, NotificationRequests

vars == <<storeVars, worker, publisher, stuck, session>>

TypeOK ==
    /\ StoreTypeOK
    /\ WorkerTypeOK
    /\ PublisherTypeOK
    /\ ReconcilerTypeOK
    /\ SessionTypeOK

Init ==
    /\ StoreInit
    /\ WorkerInit
    /\ PublisherInit
    /\ ReconcilerInit
    /\ SessionInit

Next ==
    \/ WorkerNext /\ UNCHANGED <<publisher, stuck, session>>
    \/ PublisherNext /\ UNCHANGED <<worker, stuck, session>>
    \/ ReconcilerNext /\ UNCHANGED <<worker, publisher, session>>
    \/ RequestsNext /\ UNCHANGED <<worker, publisher, stuck>>
    \/ \E n \in Notifications : TimePasses(n) /\ UNCHANGED <<worker, publisher, stuck, session>>

Spec == Init /\ [][Next]_vars

(* Fairness.  Clients need not submit anything and nobody need crash; what *)
(* was begun is finished, idle processes pick up what waits for them, time *)
(* passes, and a broker that is offered a message again and again takes it *)
(* at some time.                                                           *)
Fairness ==
    /\ \A w \in Workers :
          WF_vars((Receipt(w) \/ Processing(w)) /\ UNCHANGED <<publisher, stuck, session>>)
    /\ \A p \in Publishers :
          /\ WF_vars(Publishing(p) /\ UNCHANGED <<worker, stuck, session>>)
          /\ SF_vars(Enqueue(p) /\ UNCHANGED <<worker, stuck, session>>)
    /\ WF_vars(ReconcilerNext /\ UNCHANGED <<worker, publisher, session>>)
    /\ \A s \in Sessions : WF_vars(Ending(s) /\ UNCHANGED <<worker, publisher, stuck>>)
    /\ \A n \in Notifications :
          /\ WF_vars(ExpireLease(n) /\ UNCHANGED <<publisher, stuck, session>>)
          /\ WF_vars(TimePasses(n) /\ UNCHANGED <<worker, publisher, stuck, session>>)
    /\ WF_vars(OutboxLeasesExpire /\ UNCHANGED <<worker, stuck, session>>)

LiveSpec == Spec /\ Fairness

-----------------------------------------------------------------------------
(* Invariants.                                                             *)

(* Attempts are numbered 1, 2, ... without a gap, whichever of several     *)
(* workers record them: the number is a count read before the provider     *)
(* call, the unique constraint decides when two counted the same.          *)
AttemptsNumberedContiguously ==
    \A n \in Notifications :
        {a.number : a \in attempts[n]} = 1 .. Cardinality(attempts[n])

(* A notification in PROCESSING carries a lease, live or expired: without  *)
(* one the reconciler's SELECT would never find it again.                  *)
ProcessingHasLease ==
    \A n \in Notifications : notif[n].status = "processing" => notif[n].lease # "none"

(* SENT and DELIVERED are only ever reported for a notification that has a *)
(* recorded attempt the provider accepted, whether the worker or a         *)
(* callback wrote the status.                                              *)
SentHasAcceptedAttempt ==
    \A n \in Notifications :
        notif[n].status \in {"sent", "delivered"}
            => \E a \in attempts[n] : a.result = "accepted"

(* A notification is only dead-lettered after the whole retry budget was   *)
(* spent on recorded attempts, duplicate deliveries included.              *)
DeadLetteredMeansExhausted ==
    \A n \in Notifications :
        notif[n].status = "dead_lettered" => Cardinality(attempts[n]) >= MaxAttempts

(* Duplicates are bounded by their causes.  With one publisher and no      *)
(* operator request, a crash costs at most two extra acceptances (the      *)
(* redelivered message and the recovered one), an overrun lease or a lost  *)
(* answer one each; without a fault a provider accepts at most once.       *)
DuplicatesBoundedByFaults ==
    Cardinality(Publishers) = 1 /\ faults.operations = 0
        => \A n \in Notifications :
               accepts[n] <= 1 + 2 * faults.crashes + faults.overruns + faults.lost

(* Nor do those faults let a notification be attempted much more often     *)
(* than configured: each crash and each overrun lease adds one attempt to  *)
(* max_delivery_attempts at most.                                          *)
AttemptBudgetKept ==
    Cardinality(Publishers) = 1 /\ faults.operations = 0
        => \A n \in Notifications :
               Cardinality(attempts[n]) <= MaxAttempts + faults.crashes + faults.overruns

(* Something in the system will still take a notification further.         *)
HasDriver(n) ==
    \/ \E i \in DOMAIN outbox[n] : ~outbox[n][i].published
    \/ \E timer \in Timers : broker[Message(n, timer)] > 0
    \/ \E w \in Workers : Target(w) = n /\ worker[w].stage # "finished"
    \/ notif[n].status = "processing"

Waiting == {"accepted", "queued", "deferred"}

(* No attempt of n was accepted, failed for good or used up the budget. *)
Unsettled(n) ==
    \A a \in attempts[n] : a.result = "retryable" /\ a.number < MaxAttempts

(* At-least-once delivery: a notification that waits for its first attempt *)
(* or for a retry has an unpublished outbox row, a message, a task, or a   *)
(* lease the reconciler will find.                                         *)
UnsettledHasDriver ==
    \A n \in Notifications :
        notif[n].status \in Waiting /\ Unsettled(n) => HasDriver(n)

(* Early returns and refused leases acknowledge messages, but they never   *)
(* take the last one as long as no process crashes and no client cancels.  *)
NoNotificationForgotten ==
    faults.crashes = 0 /\ faults.operations = 0 => UnsettledHasDriver

-----------------------------------------------------------------------------
(* Action properties.                                                      *)

(* An actor that loaded n before it was cancelled. *)
StaleActor(n) ==
    \/ \E w \in Workers : Target(w) = n /\ worker[w].stage \in {"read", "called"}
    \/ \E p \in Publishers : publisher[p].seen = n
    \/ \E s \in Sessions :
          session[s].notification = n /\ session[s].loaded.status # "cancelled"
    \/ n \in stuck

(* CANCELLED is only overwritten by an actor that had loaded the           *)
(* notification before: no handler starts anything from a cancelled row.   *)
CancelUndoneOnlyByStaleActor ==
    [][\A n \in Notifications :
          notif[n].status = "cancelled" /\ notif'[n].status # "cancelled"
              => StaleActor(n)]_vars

(* A cancellation is only committed over a notification that waits to be   *)
(* processed: anything later is answered with a conflict.                  *)
CancelOnlyBeforeProcessing ==
    [][\A n \in Notifications :
          notif[n].status # "cancelled" /\ notif'[n].status = "cancelled"
              => notif[n].status \in {"accepted", "queued"}]_vars

-----------------------------------------------------------------------------
(* Refinement: a worker between its count of the attempts and its outcome  *)
(* is a caller of AttemptLog, the attempt rows are the log.                *)
ProviderCall(w) ==
    IF worker[w].stage \in {"calling", "called"}
    THEN [target |-> Target(w), answer |-> worker[w].result]
    ELSE [target |-> None, answer |-> "none"]

Log == INSTANCE AttemptLog
           WITH Callers <- Workers, Answers <- Results,
                log <- attempts, accepted <- accepts,
                calls <- [w \in Workers |-> ProviderCall(w)]

(* The attempts of a notification are an append-only log numbered without  *)
(* gaps, each entry written by the one task that made that provider call,  *)
(* and every acceptance by a provider belongs to a call.                   *)
ImplementsAttemptLog == Log!Spec

-----------------------------------------------------------------------------
(* Liveness.                                                               *)

(* Whatever happens to its worker, a notification leaves PROCESSING: the   *)
(* task commits an outcome, or its lease expires and the reconciler        *)
(* requeues it.                                                            *)
ProcessingEnds ==
    \A n \in Notifications :
        notif[n].status = "processing" ~> notif[n].status # "processing"

(* An accepted notification is settled - a provider accepted it, refused   *)
(* it for good, or every retry was spent - unless it is cancelled or a     *)
(* process crashes.                                                        *)
AcceptedIsSettled ==
    \A n \in Notifications :
        notif[n].status = "accepted"
            ~> \/ ~Unsettled(n)
               \/ notif[n].status = "cancelled"
               \/ faults.crashes > 0
=============================================================================
