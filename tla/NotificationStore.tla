-------------------------- MODULE NotificationStore --------------------------
(***************************************************************************)
(* What the delivery components of GNS share: the rows they keep in        *)
(* PostgreSQL (models.py), the RabbitMQ queue between them, the clock, and *)
(* the budget of faults a behaviour may contain.                           *)
(*                                                                         *)
(* Every handler loads ORM objects, decides on that snapshot and commits   *)
(* later; SQLAlchemy writes back only the columns whose value differs from *)
(* the snapshot, and no query of the code takes a row lock.  So a read and *)
(* the commit that depends on it are separate steps of the components.     *)
(***************************************************************************)
EXTENDS Integers, Sequences, FiniteSets

CONSTANTS
    Notifications,   \* the notifications clients may submit
    Scheduled,       \* those submitted with a scheduled_at in the future
    MaxAttempts,     \* settings.max_delivery_attempts
    MaxCrashes,      \* bound: worker and publisher processes killed
    MaxOverruns,     \* bound: leases that expire under a live holder
    MaxLostAnswers,  \* bound: provider accepted, but GNS saw a time-out
    MaxOperations,   \* bound: cancel, retry and replay requests begun
    None             \* no notification

ASSUME ScheduledAssumption == Scheduled \subseteq Notifications
ASSUME MaxAttemptsAssumption == MaxAttempts \in Nat \ {0}
ASSUME NoneAssumption == None \notin Notifications

VARIABLES
    notif,     \* the row of each notification
    attempts,  \* its delivery_attempts rows
    events,    \* the statuses of the provider events stored for it
    outbox,    \* its outbox_events rows, oldest first
    broker,    \* the deliver messages waiting in RabbitMQ: a bag
    elapsed,   \* the latest timer of each notification that has run out
    accepts,   \* history: how often a provider accepted it
    faults     \* how much of each bound is used up

rows == <<notif, attempts, events, outbox>>
storeVars == <<rows, broker, elapsed, accepts, faults>>

-----------------------------------------------------------------------------
(* Time.  Only the order of the deadlines of one notification matters: its *)
(* scheduled_at comes first, and the back-off that attempt k starts ends   *)
(* later than the one attempt k - 1 started (RETRY_DELAYS_SECONDS never    *)
(* decreases).  A row, the outbox payload and the Celery eta derived from  *)
(* it carry the same deadline.                                             *)

NoTimer == 0
ScheduleTimer == 1
Backoff(number) == number + 1
Timers == 0 .. MaxAttempts

ScheduledAt(n) == IF n \in Scheduled THEN ScheduleTimer ELSE NoTimer

Due(n, timer) == timer <= elapsed[n]

-----------------------------------------------------------------------------
Statuses == {"absent", "accepted", "queued", "processing", "sent",
             "delivered", "deferred", "failed", "dead_lettered", "cancelled"}

(* A lease is a deadline: unset, in the future, or in the past. *)
Leases == {"none", "live", "expired"}

Rows == [status : Statuses, next : Timers, lease : Leases]

AbsentRow == [status |-> "absent", next |-> NoTimer, lease |-> "none"]

(* What a provider call comes to: accepted, AdapterError.retryable, or a   *)
(* permanent AdapterError.  Any other exception is recorded the same way   *)
(* as a permanent one.                                                     *)
Results == {"accepted", "retryable", "permanent"}

Attempts == [number : Nat \ {0}, result : Results]

ProviderEvents == {"sent", "delivered", "deferred", "failed"}

OutboxRows == [eta : Timers, published : BOOLEAN, lease : Leases]

UnpublishedRow(timer) == [eta |-> timer, published |-> FALSE, lease |-> "none"]

Messages == [notification : Notifications, eta : Timers]

Message(n, timer) == [notification |-> n, eta |-> timer]

NoFaults == [crashes |-> 0, overruns |-> 0, lost |-> 0, operations |-> 0]

-----------------------------------------------------------------------------
StoreTypeOK ==
    /\ notif \in [Notifications -> Rows]
    /\ attempts \in [Notifications -> SUBSET Attempts]
    /\ events \in [Notifications -> SUBSET ProviderEvents]
    /\ outbox \in [Notifications -> Seq(OutboxRows)]
    /\ broker \in [Messages -> Nat]
    /\ elapsed \in [Notifications -> Timers]
    /\ accepts \in [Notifications -> Nat]
    /\ faults \in [crashes : Nat, overruns : Nat, lost : Nat, operations : Nat]

StoreInit ==
    /\ notif = [n \in Notifications |-> AbsentRow]
    /\ attempts = [n \in Notifications |-> {}]
    /\ events = [n \in Notifications |-> {}]
    /\ outbox = [n \in Notifications |-> <<>>]
    /\ broker = [m \in Messages |-> 0]
    /\ elapsed = [n \in Notifications |-> NoTimer]
    /\ accepts = [n \in Notifications |-> 0]
    /\ faults = NoFaults

-----------------------------------------------------------------------------
(* Faulty: the payload carries no available_at. *)
AddOutboxRowWithoutEta(n, timer) ==
    outbox' = [outbox EXCEPT ![n] = Append(@, UnpublishedRow(NoTimer))]

(* One more outbox row for n, in the transaction that changes n. *)
AddOutboxRow(n, timer) ==
    outbox' = [outbox EXCEPT ![n] = Append(@, UnpublishedRow(timer))]

SpendCrash ==
    /\ faults.crashes < MaxCrashes
    /\ faults' = [faults EXCEPT !.crashes = @ + 1]

SpendOverrun ==
    /\ faults.overruns < MaxOverruns
    /\ faults' = [faults EXCEPT !.overruns = @ + 1]

SpendLostAnswer ==
    /\ faults.lost < MaxLostAnswers
    /\ faults' = [faults EXCEPT !.lost = @ + 1]

SpendOperation ==
    /\ faults.operations < MaxOperations
    /\ faults' = [faults EXCEPT !.operations = @ + 1]

(* The next deadline of n runs out; some outbox row of n carries it. *)
TimePasses(n) ==
    /\ \E i \in 1 .. Len(outbox[n]) :
          /\ outbox[n][i].eta > elapsed[n]
          /\ elapsed' = [elapsed EXCEPT ![n] = outbox[n][i].eta]
    /\ UNCHANGED <<rows, broker, accepts, faults>>
=============================================================================
