------------------------------ MODULE Reconciler ------------------------------
(***************************************************************************)
(* reconcile_stuck_notifications of delivery.py: one session reads the     *)
(* notifications left in PROCESSING with an expired lease and, in a second *)
(* step, commits all of them back to QUEUED with an outbox row each.       *)
(***************************************************************************)
EXTENDS NotificationStore

CONSTANT ReconcilerRuns   \* whether a process consumes the maintenance queue

ASSUME ReconcilerRunsAssumption == ReconcilerRuns \in BOOLEAN

VARIABLE stuck   \* the notifications the running reconciler has loaded

ReconcilerTypeOK == stuck \subseteq Notifications

ReconcilerInit == stuck = {}

(* Faulty: a lease that is still running is not spared. *)
IsStuckWhateverLease(n) == notif[n].status = "processing"

(* Faulty: the comparison with the clock is the wrong way round. *)
IsStuckWhileLive(n) == notif[n].status = "processing" /\ notif[n].lease = "live"

IsStuck(n) == notif[n].status = "processing" /\ notif[n].lease = "expired"

ScanStuck ==
    /\ ReconcilerRuns
    /\ stuck = {}
    /\ \E n \in Notifications : IsStuck(n)
    /\ stuck' = {n \in Notifications : IsStuck(n)}
    /\ UNCHANGED storeVars

(* The condition of the SELECT is not evaluated again. *)
CommitRecovery ==
    /\ stuck # {}
    /\ notif' = [n \in Notifications |->
           IF n \in stuck
           THEN [notif[n] EXCEPT !.status = "queued", !.lease = "none"]
           ELSE notif[n]]
    /\ outbox' = [n \in Notifications |->
           IF n \in stuck
           THEN Append(outbox[n], UnpublishedRow(NoTimer))
           ELSE outbox[n]]
    /\ stuck' = {}
    /\ UNCHANGED <<attempts, events, broker, elapsed, accepts, faults>>

ReconcilerNext == ScanStuck \/ CommitRecovery
=============================================================================
