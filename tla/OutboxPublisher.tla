--------------------------- MODULE OutboxPublisher ---------------------------
(***************************************************************************)
(* publish_outbox of tasks.py, run in a loop by cli.py: it leases the      *)
(* unpublished outbox rows one by one, sends a deliver message for each    *)
(* and marks the notification QUEUED.  Between the message and that last   *)
(* commit a worker may already have processed the notification.            *)
(***************************************************************************)
EXTENDS NotificationStore

CONSTANT Publishers

ASSUME PublishersAssumption == IsFiniteSet(Publishers)

VARIABLE publisher

(* An outbox row is named by its notification and its place in outbox[n].  *)
RowNames == Notifications \X Nat

NoRow == <<None, 0>>

PublisherStates ==
    [stage : {"idle", "selected", "leased", "enqueued", "loaded"},
     batch : SUBSET RowNames,
     row : RowNames \cup {NoRow},
     seen : Notifications \cup {None},
     status : Statuses]

IdlePublisher ==
    [stage |-> "idle", batch |-> {}, row |-> NoRow, seen |-> None, status |-> "absent"]

PublisherTypeOK == publisher \in [Publishers -> PublisherStates]

PublisherInit == publisher = [p \in Publishers |-> IdlePublisher]

-----------------------------------------------------------------------------
(* Faulty: published rows are selected again. *)
SelectableAgain(row) == row.lease # "live"

SelectableRow(row) == ~row.published /\ row.lease # "live"

Selectable ==
    UNION {{<<n, i>> : i \in {j \in DOMAIN outbox[n] : SelectableRow(outbox[n][j])}} :
               n \in Notifications}

(* One cycle selects every row that qualifies; LIMIT is not modelled. *)
SelectBatch(p) ==
    /\ publisher[p].stage = "idle"
    /\ Selectable # {}
    /\ publisher' = [publisher EXCEPT ![p].stage = "selected", ![p].batch = Selectable]
    /\ UNCHANGED storeVars

(* ORDER BY created_at, as far as the rows of one notification go. *)
Oldest(batch) == {r \in batch : \A q \in batch : q[1] = r[1] => r[2] <= q[2]}

SetLease(r, lease) == outbox' = [outbox EXCEPT ![r[1]][r[2]].lease = lease]

(* The rows were loaded by the SELECT: what others did to them since goes  *)
(* unnoticed.                                                              *)
LeaseRow(p, r) ==
    /\ publisher[p].stage = "selected"
    /\ r \in Oldest(publisher[p].batch)
    /\ SetLease(r, "live")
    /\ publisher' = [publisher EXCEPT ![p].stage = "leased",
                                      ![p].batch = @ \ {r},
                                      ![p].row = r]
    /\ UNCHANGED <<notif, attempts, events, broker, elapsed, accepts, faults>>

RowMessage(r) == Message(r[1], outbox[r[1]][r[2]].eta)

Enqueue(p) ==
    /\ publisher[p].stage = "leased"
    /\ broker' = [broker EXCEPT ![RowMessage(publisher[p].row)] = @ + 1]
    /\ publisher' = [publisher EXCEPT ![p].stage = "enqueued"]
    /\ UNCHANGED <<rows, elapsed, accepts, faults>>

(* The next row of the batch, or the end of the cycle and its session. *)
NextRow(p, seen, status) ==
    publisher' = [publisher EXCEPT ![p] =
        IF publisher[p].batch = {}
        THEN IdlePublisher
        ELSE [stage |-> "selected", batch |-> publisher[p].batch, row |-> NoRow,
              seen |-> seen, status |-> status]]

(* RabbitMQ is unreachable: the row is released for a later cycle. *)
EnqueueFails(p) ==
    /\ publisher[p].stage = "leased"
    /\ SetLease(publisher[p].row, "none")
    /\ NextRow(p, publisher[p].seen, publisher[p].status)
    /\ UNCHANGED <<notif, attempts, events, broker, elapsed, accepts, faults>>

(* db.get: the row of the database, unless the previous row of the batch   *)
(* already left the object of this notification in the session.            *)
LoadNotification(p) ==
    LET n == publisher[p].row[1]
    IN  /\ publisher[p].stage = "enqueued"
        /\ publisher' = [publisher EXCEPT
               ![p].stage = "loaded",
               ![p].seen = n,
               ![p].status = IF publisher[p].seen = n THEN @ ELSE notif[n].status]
        /\ UNCHANGED storeVars

MarksQueued(status) == status \in {"accepted", "deferred"}

(* published_at and the released lease, and QUEUED if the loaded status    *)
(* was ACCEPTED or DEFERRED: the status is written, whatever the row holds *)
(* by now.                                                                 *)
CommitPublished(p) ==
    LET r == publisher[p].row
        queued == MarksQueued(publisher[p].status)
    IN  /\ publisher[p].stage = "loaded"
        /\ outbox' = [outbox EXCEPT ![r[1]][r[2]].published = TRUE,
                                    ![r[1]][r[2]].lease = "none"]
        /\ notif' = IF queued THEN [notif EXCEPT ![r[1]].status = "queued"] ELSE notif
        /\ NextRow(p, r[1], IF queued THEN "queued" ELSE publisher[p].status)
        /\ UNCHANGED <<attempts, events, broker, elapsed, accepts, faults>>

CrashPublisher(p) ==
    /\ publisher[p].stage # "idle"
    /\ SpendCrash
    /\ publisher' = [publisher EXCEPT ![p] = IdlePublisher]
    /\ UNCHANGED <<rows, broker, elapsed, accepts>>

(* The 30 seconds of an outbox lease pass: always possible for a row no    *)
(* publisher works on, otherwise only when that publisher overruns.        *)
ExpireOutboxLease(r) ==
    /\ outbox[r[1]][r[2]].lease = "live"
    /\ SetLease(r, "expired")
    /\ IF \E p \in Publishers : publisher[p].row = r
       THEN SpendOverrun
       ELSE UNCHANGED faults
    /\ UNCHANGED <<publisher, notif, attempts, events, broker, elapsed, accepts>>

-----------------------------------------------------------------------------
Publishing(p) ==
    \/ SelectBatch(p)
    \/ \E r \in publisher[p].batch : LeaseRow(p, r)
    \/ Enqueue(p) \/ EnqueueFails(p)
    \/ LoadNotification(p)
    \/ CommitPublished(p)

OutboxLeasesExpire ==
    \E n \in Notifications : \E i \in DOMAIN outbox[n] : ExpireOutboxLease(<<n, i>>)

PublisherNext ==
    \/ \E p \in Publishers : Publishing(p) \/ CrashPublisher(p)
    \/ OutboxLeasesExpire
=============================================================================
