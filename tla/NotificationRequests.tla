------------------------- MODULE NotificationRequests -------------------------
(***************************************************************************)
(* The HTTP handlers that change a notification: its creation and          *)
(* cancellation (api.py), operator retry and dead-letter replay            *)
(* (operations_api.py) and provider callbacks (callbacks.py).  Except for  *)
(* the creation, each is a session that loads the row and tests its status *)
(* (Begin...), then commits what it decided on that snapshot (Commit...).  *)
(***************************************************************************)
EXTENDS NotificationStore

CONSTANTS
    Sessions,        \* concurrent requests
    CallbackEvents   \* the normalized statuses providers report

ASSUME CallbackEventsAssumption == CallbackEvents \subseteq ProviderEvents

VARIABLE session

Operations == {"cancel", "retry", "replay"}

SessionStates ==
    [request : Operations \cup ProviderEvents \cup {"none"},
     notification : Notifications \cup {None},
     loaded : Rows]

IdleSession == [request |-> "none", notification |-> None, loaded |-> AbsentRow]

SessionTypeOK == session \in [Sessions -> SessionStates]

SessionInit == session = [s \in Sessions |-> IdleSession]

-----------------------------------------------------------------------------
(* create_notification: the row and its outbox row in one transaction.     *)
CreateNotification(n) ==
    /\ notif[n].status = "absent"
    /\ notif' = [notif EXCEPT ![n].status = "accepted"]
    /\ AddOutboxRow(n, ScheduledAt(n))
    /\ UNCHANGED <<session, attempts, events, broker, elapsed, accepts, faults>>

(* The statuses each request is accepted in. *)
Cancellable == {"accepted", "queued"}
Retryable == {"failed", "deferred", "dead_lettered"}
Replayable == {"dead_lettered"}

(* Faulty: retry only excludes what is on its way or done. *)
PermittedUnlessActive(request, status) ==
    \/ request = "cancel" /\ status \in Cancellable
    \/ request = "retry" /\ status \notin {"absent", "queued", "processing", "sent", "delivered"}
    \/ request = "replay" /\ status \in Replayable

Permitted(request, status) ==
    \/ request = "cancel" /\ status \in Cancellable
    \/ request = "retry" /\ status \in Retryable
    \/ request = "replay" /\ status \in Replayable

Load(s, request, n) ==
    session' = [session EXCEPT ![s] =
        [request |-> request, notification |-> n, loaded |-> notif[n]]]

BeginOperation(s, request, n) ==
    /\ session[s].request = "none"
    /\ Permitted(request, notif[n].status)
    /\ SpendOperation
    /\ Load(s, request, n)
    /\ UNCHANGED <<rows, broker, elapsed, accepts>>

EndRequest(s) == session' = [session EXCEPT ![s] = IdleSession]

CommitCancel(s) ==
    /\ session[s].request = "cancel"
    /\ notif' = [notif EXCEPT ![session[s].notification].status = "cancelled"]
    /\ EndRequest(s)
    /\ UNCHANGED <<attempts, events, outbox, broker, elapsed, accepts, faults>>

(* A column set to None is written only where the loaded row had a value.  *)
Cleared(column, loadedColumn, null) == IF loadedColumn = null THEN column ELSE null

CommitRetry(s) ==
    LET n == session[s].notification
        loaded == session[s].loaded
    IN  /\ session[s].request = "retry"
        /\ notif' = [notif EXCEPT ![n] =
               [status |-> "queued",
                next |-> Cleared(@.next, loaded.next, NoTimer),
                lease |-> Cleared(@.lease, loaded.lease, "none")]]
        /\ AddOutboxRow(n, NoTimer)
        /\ EndRequest(s)
        /\ UNCHANGED <<attempts, events, broker, elapsed, accepts, faults>>

(* Unlike retry, replay leaves the lease alone. *)
CommitReplay(s) ==
    LET n == session[s].notification
    IN  /\ session[s].request = "replay"
        /\ notif' = [notif EXCEPT
               ![n].status = "queued",
               ![n].next = Cleared(@, session[s].loaded.next, NoTimer)]
        /\ AddOutboxRow(n, NoTimer)
        /\ EndRequest(s)
        /\ UNCHANGED <<attempts, events, broker, elapsed, accepts, faults>>

-----------------------------------------------------------------------------
(* apply_transition.  provider_accepted acts as "sent" does, bounced and   *)
(* complained as "failed"; opened and clicked change no status.            *)
Transition(status, event) ==
    CASE event = "sent" ->
           IF status \in {"delivered", "failed", "cancelled", "dead_lettered"}
           THEN status ELSE "sent"
      [] event = "delivered" ->
           IF status \in {"cancelled", "dead_lettered"} THEN status ELSE "delivered"
      [] event = "deferred" ->
           IF status \in {"delivered", "cancelled"} THEN status ELSE "deferred"
      [] event = "failed" ->
           IF status = "cancelled" THEN status ELSE "failed"

(* Faulty: any attempt is matched. *)
KnownByAnyAttempt(n) == attempts[n] # {}

(* A callback names the provider's message id: only a recorded attempt     *)
(* that was accepted has one.                                              *)
KnownToProvider(n) == \E a \in attempts[n] : a.result = "accepted"

(* An event whose id is not stored yet: a provider may report one status   *)
(* again under a new id, while a known id is answered as a duplicate.      *)
BeginCallback(s, event, n) ==
    /\ session[s].request = "none"
    /\ KnownToProvider(n)
    /\ Load(s, event, n)
    /\ UNCHANGED storeVars

CommitCallback(s) ==
    LET n == session[s].notification
        event == session[s].request
        status == Transition(session[s].loaded.status, event)
    IN  /\ event \in ProviderEvents
        /\ events' = [events EXCEPT ![n] = @ \cup {event}]
        /\ notif' = IF status = session[s].loaded.status
                    THEN notif
                    ELSE [notif EXCEPT ![n].status = status]
        /\ EndRequest(s)
        /\ UNCHANGED <<attempts, outbox, broker, elapsed, accepts, faults>>

(* The same event id was committed meanwhile: IntegrityError, rollback,    *)
(* and the answer for a duplicate.                                         *)
DuplicateCallback(s) ==
    /\ session[s].request \in ProviderEvents
    /\ session[s].request \in events[session[s].notification]
    /\ EndRequest(s)
    /\ UNCHANGED storeVars

-----------------------------------------------------------------------------
Ending(s) ==
    \/ CommitCancel(s) \/ CommitRetry(s) \/ CommitReplay(s)
    \/ CommitCallback(s) \/ DuplicateCallback(s)

RequestsNext ==
    \/ \E n \in Notifications : CreateNotification(n)
    \/ \E s \in Sessions :
          \/ \E n \in Notifications, request \in Operations : BeginOperation(s, request, n)
          \/ \E n \in Notifications, event \in CallbackEvents : BeginCallback(s, event, n)
          \/ Ending(s)
=============================================================================
