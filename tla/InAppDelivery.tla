---------------------------- MODULE InAppDelivery ----------------------------
(***************************************************************************)
(* The in_app branch of process_notification (delivery.py) and             *)
(* create_in_app_delivery (in_app.py): one task per worker.  The claim is  *)
(* a transaction of its own; the deduplication lookup, the insert and the  *)
(* outcome are the second one, which holds the deduplication key from the  *)
(* insert on and publishes to the hub before it commits.                   *)
(***************************************************************************)
EXTENDS InAppStream

CONSTANTS
    Workers,
    HubWorkers   \* those that run in the process that serves the streams

ASSUME HubWorkersAssumption == HubWorkers \subseteq Workers

VARIABLE worker

(* loaded: the status read with the row; picked: the recipients inserted.  *)
WorkerStates == [stage : {"idle", "loaded", "claimed", "absent", "inserted",
                          "duplicate", "rejected", "rejected with row"},
                 of : Notifications \cup {None},
                 loaded : Statuses, picked : SUBSET Recipients]

IdleWorker == [stage |-> "idle", of |-> None, loaded |-> "absent", picked |-> {}]

DeliveryTypeOK == worker \in [Workers -> WorkerStates]

DeliveryInit == worker = [w \in Workers |-> IdleWorker]

-----------------------------------------------------------------------------
Body(w) == row[worker[w].of].body

Uncommitted(n) == \E w \in Workers : worker[w].of = n /\ worker[w].stage = "inserted"

Holds(w, n) == worker[w].of = n /\ worker[w].stage \notin {"idle", "loaded"}

Advance(w, stage) == worker' = [worker EXCEPT ![w].stage = stage]

Finish(w) == worker' = [worker EXCEPT ![w] = IdleWorker]

Settled(n) ==
    \/ row[n].status \in {"delivered", "failed"}
    \/ row[n].status = "processing" /\ row[n].lease = "live"

Take(w, n) ==
    /\ worker[w].stage = "idle"
    /\ messages[n] > 0
    /\ messages' = [messages EXCEPT ![n] = @ - 1]
    /\ UNCHANGED <<row, attempt, inApp, inboxRows, budget, disturbed, stream>>

(* The early returns and LeaseUnavailable: the message is acknowledged.    *)
Discard(w, n) == Take(w, n) /\ Settled(n) /\ UNCHANGED worker

Load(w, n) ==
    /\ Take(w, n)
    /\ ~Settled(n)
    /\ worker' = [worker EXCEPT ![w] =
           [@ EXCEPT !.stage = "loaded", !.of = n, !.loaded = row[n].status]]

(* The status is only written where it differs from the one loaded. *)
Claim(w) ==
    LET n == worker[w].of IN
    /\ worker[w].stage = "loaded"
    /\ row' = [row EXCEPT
           ![n].status = IF worker[w].loaded = "processing" THEN @ ELSE "processing",
           ![n].lease = "live"]
    /\ Advance(w, "claimed")
    /\ UNCHANGED <<messages, attempt, inApp, inboxRows, budget, disturbed, stream>>

-----------------------------------------------------------------------------
Keyed(key) == {m \in Notifications : inApp[m] > 0 /\ row[m].body.key = key}

LookUp(w, stage) ==
    /\ worker[w].stage = "claimed"
    /\ Advance(w, stage)
    /\ UNCHANGED <<storeVars, stream>>

(* render_content, SEVERITIES and safe_action refuse before the lookup. *)
ContentRefused(w) == LookUp(w, "rejected") /\ Body(w).flaw = "content"

Existing(w) == IF Body(w).key = None THEN {} ELSE Keyed(Body(w).key)

FindNone(w) ==
    LookUp(w, "absent") /\ Body(w).flaw # "content" /\ Existing(w) = {}

FindDuplicate(w) ==
    /\ LookUp(w, "duplicate")
    /\ Body(w).flaw # "content"
    /\ \E m \in Existing(w) : Fingerprint(row[m].body) = Fingerprint(Body(w))

FindConflict(w) ==
    /\ LookUp(w, "rejected")
    /\ Body(w).flaw # "content"
    /\ \E m \in Existing(w) : Fingerprint(row[m].body) # Fingerprint(Body(w))

-----------------------------------------------------------------------------
(* The unique constraint makes the insert wait for a transaction that      *)
(* holds the key, and fail once the key is taken.                          *)
KeyHeld(w) ==
    /\ Body(w).key # None
    /\ \E v \in Workers : /\ worker[v].stage \in {"inserted", "rejected with row"}
                          /\ Body(v).key = Body(w).key

KeyTaken(w) == Existing(w) # {}

(* preference_allows takes whichever matching row the database returns.    *)
Verdicts(u) ==
    LET rows == {preference[u][k] : k \in EventKeys} \ {None}
    IN  IF rows = {} THEN {"allow"} ELSE rows

Picks(targets) ==
    {picked \in SUBSET targets :
        /\ Everyone \in targets => Everyone \in picked
        /\ \A u \in targets \cap Users :
              (IF u \in picked THEN "allow" ELSE "deny") \in Verdicts(u)}

CreateInAppDelivery(w, picked) ==
    /\ worker' = [worker EXCEPT ![w].stage = "inserted", ![w].picked = picked]
    /\ IF w \in HubWorkers
       THEN Publish(picked \cap Users, worker[w].of)
       ELSE PublishElsewhere(worker[w].of)
    /\ UNCHANGED storeVars

(* An IntegrityError from flush leaves the session unusable: recording the *)
(* failure raises again, the task ends and its message is acknowledged.    *)
Abort(w) == Finish(w) /\ UNCHANGED <<storeVars, stream>>

(* fail() after the flush of the row: the row is committed with FAILED.    *)
RecipientRefused(w) ==
    /\ Advance(w, "rejected with row")
    /\ UNCHANGED <<storeVars, stream>>

Insert(w) ==
    /\ worker[w].stage = "absent"
    /\ ~KeyHeld(w)
    /\ \/ KeyTaken(w) /\ Abort(w)
       \/ ~KeyTaken(w) /\ Body(w).flaw = "recipient" /\ RecipientRefused(w)
       \/ /\ ~KeyTaken(w)
          /\ Body(w).flaw # "recipient"
          /\ \E picked \in Picks(Body(w).targets) :
                IF Body(w).flaw = "repeated id" /\ picked # {}
                THEN Abort(w)
                ELSE CreateInAppDelivery(w, picked)

-----------------------------------------------------------------------------
(* Faulty: the number goes on counting as it does for other channels. *)
AttemptTakenNever(n) == FALSE

(* The unique constraint on (notification_id, attempt_number = 1). *)
AttemptTaken(n) == attempt[n] # None

Released(n) == [row EXCEPT ![n].lease = "none"]

(* Faulty: the status is set after the commit. *)
EndingWithoutStatus(w, status) == [row EXCEPT ![worker[w].of].lease = "none"]

Ending(w, status) ==
    [row EXCEPT ![worker[w].of].status = status, ![worker[w].of].lease = "none"]

Deliver(w) ==
    LET n == worker[w].of IN
    /\ worker[w].stage = "inserted"
    /\ ~AttemptTaken(n)
    /\ row' = Ending(w, "delivered")
    /\ attempt' = [attempt EXCEPT ![n] = "delivered"]
    /\ inApp' = [inApp EXCEPT ![n] = @ + 1]
    /\ recipient' = [recipient EXCEPT ![n] =
           [t \in Recipients |-> IF t \in worker[w].picked THEN NewRecipient ELSE @[t]]]
    /\ Finish(w)
    /\ UNCHANGED <<messages, acks, preference, budget, disturbed, stream>>

(* create_in_app_delivery returned before it set the status. *)
ConfirmDuplicate(w) ==
    LET n == worker[w].of IN
    /\ worker[w].stage = "duplicate"
    /\ ~AttemptTaken(n)
    /\ row' = Released(n)
    /\ attempt' = [attempt EXCEPT ![n] = "delivered"]
    /\ Finish(w)
    /\ UNCHANGED <<messages, inApp, inboxRows, budget, disturbed, stream>>

RecordFailure(w) ==
    LET n == worker[w].of IN
    /\ worker[w].stage \in {"rejected", "rejected with row"}
    /\ ~AttemptTaken(n)
    /\ row' = Ending(w, "failed")
    /\ attempt' = [attempt EXCEPT ![n] = "failed"]
    /\ inApp' = IF worker[w].stage = "rejected" THEN inApp ELSE [inApp EXCEPT ![n] = @ + 1]
    /\ Finish(w)
    /\ UNCHANGED <<messages, inboxRows, budget, disturbed, stream>>

(* The commit fails: nothing of the second transaction is kept. *)
AttemptConflict(w) ==
    /\ worker[w].stage \in {"inserted", "duplicate", "rejected", "rejected with row"}
    /\ AttemptTaken(worker[w].of)
    /\ Abort(w)

(* The message is delivered again; what was published stays published. *)
Crash(w) ==
    /\ worker[w].stage # "idle"
    /\ Disturb
    /\ messages' = [messages EXCEPT ![worker[w].of] = @ + 1]
    /\ Finish(w)
    /\ UNCHANGED <<row, attempt, inApp, inboxRows, stream>>

(* processing_lease_until passes; under a running task it is an overrun. *)
ExpireLease(n) ==
    /\ row[n].lease = "live"
    /\ IF \E w \in Workers : Holds(w, n) THEN Disturb ELSE UNCHANGED <<budget, disturbed>>
    /\ row' = [row EXCEPT ![n].lease = "past"]
    /\ UNCHANGED <<messages, attempt, inApp, inboxRows, worker, stream>>

Processing(w) ==
    \/ Claim(w)
    \/ ContentRefused(w) \/ FindNone(w) \/ FindDuplicate(w) \/ FindConflict(w)
    \/ Insert(w)
    \/ Deliver(w) \/ ConfirmDuplicate(w) \/ RecordFailure(w) \/ AttemptConflict(w)

DeliveryNext ==
    \/ \E w \in Workers :
          \/ \E n \in Notifications : Discard(w, n) \/ Load(w, n)
          \/ Processing(w)
          \/ Crash(w)
    \/ \E n \in Notifications : ExpireLease(n)
=============================================================================
