------------------------------ MODULE InAppStore ------------------------------
(***************************************************************************)
(* The rows of in-app delivery (models.py): what the in_app branch of the  *)
(* delivery worker writes and the inbox requests of users change.  A       *)
(* notification is a number, which is also its id in the inbox: ids are    *)
(* random, so nothing relates their order to the order of creation.        *)
(*                                                                         *)
(* Publisher, reconciler and operator retry are one step each here; their  *)
(* own interleavings are the subject of NotificationSystem.                *)
(***************************************************************************)
EXTENDS Integers, FiniteSets, Sequences

CONSTANTS
    Notifications,   \* the notifications with channel in_app
    Users,
    Everyone,        \* a broadcast recipient: role, group, tenant, application
    None,
    Scenarios        \* bounds: what clients, operators and faults may do

ASSUME NotificationsAssumption == Notifications \subseteq Nat \ {0}
ASSUME RecipientsAssumption == Everyone \notin Users /\ None \notin Users
ASSUME NoneAssumption == None \notin {"delivered", "failed"}

VARIABLES
    row,          \* notifications: status, lease and what was submitted
    messages,     \* deliver messages of each notification in RabbitMQ
    attempt,      \* its delivery_attempts row; the number is always 1
    inApp,        \* how many in_app_notifications rows it is the source of
    recipient,    \* their in_app_recipients rows
    acks,         \* attempt numbers of the rows with transport "sdk"
    preference,   \* in_app_preferences: in_app_enabled by user and event key
    budget,       \* what is left of the scenario
    disturbed     \* history: a crash, repeat, overrun or retry happened

deliveryRows == <<row, messages, attempt, inApp>>
inboxRows == <<recipient, acks, preference>>
storeVars == <<deliveryRows, inboxRows, budget, disturbed>>

-----------------------------------------------------------------------------
Recipients == Users \cup {Everyone}

(* What the template, recipient and metadata of a notification come to:    *)
(* its deduplication_key, the recipients it addresses, the fingerprint of  *)
(* its content, and what is wrong with it - content that does not render,  *)
(* an unsupported recipient type, an id given twice.                       *)
Bodies == [key : {None, "key"}, content : {"a", "b"}, targets : SUBSET Recipients,
           flaw : {"none", "content", "recipient", "repeated id"}]

Fingerprint(body) == <<body.content, body.targets, body.flaw>>

Statuses == {"absent", "queued", "processing", "delivered", "failed"}

Rows == [status : Statuses, lease : {"none", "live", "past"},
         body : Bodies \cup {None}]

AbsentRow == [status |-> "absent", lease |-> "none", body |-> None]

AckStatuses == {"delivered", "displayed", "opened"}

(* reached: which of delivered_at, displayed_at, opened_at are set. *)
RecipientRows == [read : BOOLEAN, dismissed : BOOLEAN, reached : SUBSET AckStatuses,
                  status : AckStatuses \cup {"queued"}, count : Nat]

ASSUME NoRowAssumption == None \notin RecipientRows
ASSUME ScenariosAssumption ==
    \A scenario \in Scenarios : "bodies" \in DOMAIN scenario /\ scenario.bodies \subseteq Bodies

NewRecipient == [read |-> FALSE, dismissed |-> FALSE, reached |-> {},
                 status |-> "queued", count |-> 0]

EventKeys == {"event", "*"}

StoreTypeOK ==
    /\ row \in [Notifications -> Rows]
    /\ messages \in [Notifications -> Nat]
    /\ attempt \in [Notifications -> {None, "delivered", "failed"}]
    /\ inApp \in [Notifications -> Nat]
    /\ recipient \in [Notifications -> [Recipients -> RecipientRows \cup {None}]]
    /\ acks \in [Notifications -> [Recipients -> SUBSET Nat]]
    /\ preference \in [Users -> [EventKeys -> {None, "allow", "deny"}]]
    /\ disturbed \in BOOLEAN

StoreInit ==
    /\ row = [n \in Notifications |-> AbsentRow]
    /\ messages = [n \in Notifications |-> 0]
    /\ attempt = [n \in Notifications |-> None]
    /\ inApp = [n \in Notifications |-> 0]
    /\ recipient = [n \in Notifications |-> [t \in Recipients |-> None]]
    /\ acks = [n \in Notifications |-> [t \in Recipients |-> {}]]
    /\ preference = [u \in Users |-> [k \in EventKeys |-> None]]
    /\ budget \in Scenarios
    /\ disturbed = FALSE

-----------------------------------------------------------------------------
Spend(what) ==
    /\ budget[what] > 0
    /\ budget' = [budget EXCEPT ![what] = @ - 1]

Disturb == Spend("disturbances") /\ disturbed' = TRUE

(* A client submits n; publish_outbox queues it.                           *)
Accept(n) ==
    /\ row[n].status = "absent"
    /\ Spend("submissions")
    /\ \E body \in budget.bodies :
          row' = [row EXCEPT ![n] = [status |-> "queued", lease |-> "none", body |-> body]]
    /\ messages' = [messages EXCEPT ![n] = @ + 1]
    /\ UNCHANGED <<attempt, inApp, inboxRows, disturbed>>

(* The publisher enqueues the outbox row of n once more. *)
Repeat(n) ==
    /\ row[n].status # "absent"
    /\ Disturb
    /\ messages' = [messages EXCEPT ![n] = @ + 1]
    /\ UNCHANGED <<row, attempt, inApp, inboxRows>>


(* QUEUED again, with a new outbox row. *)
Requeue(n) ==
    /\ row' = [row EXCEPT ![n].status = "queued", ![n].lease = "none"]
    /\ messages' = [messages EXCEPT ![n] = @ + 1]

(* processing_lease_until < now is not true of NULL. *)
IsStuck(n) == row[n].status = "processing" /\ row[n].lease = "past"

Reconcile(n) ==
    /\ IsStuck(n)
    /\ Requeue(n)
    /\ UNCHANGED <<attempt, inApp, inboxRows, budget, disturbed>>

(* retry_notification of operations_api.py. *)
RetryNotification(n) ==
    /\ row[n].status = "failed"
    /\ Disturb
    /\ Requeue(n)
    /\ UNCHANGED <<attempt, inApp, inboxRows>>
=============================================================================
