------------------------------ MODULE InAppProofs ------------------------------
(***************************************************************************)
(* One inbox row for each notification, and for each deduplication key,    *)
(* for any number of notifications, users, workers and faults.             *)
(***************************************************************************)
EXTENDS InAppSystem, FiniteSetTheorems, TLAPS

Inserting == {"inserted", "rejected with row"}

(* A transaction that holds a deduplication key from its insert on. *)
Carrier(w) == worker[w].stage \in Inserting /\ Body(w).key # None

Shapes ==
    /\ DOMAIN row = Notifications /\ DOMAIN attempt = Notifications
    /\ inApp \in [Notifications -> Nat]
    /\ DOMAIN worker = Workers
    /\ \A n \in Notifications : DOMAIN row[n] = {"status", "lease", "body"}
    /\ \A w \in Workers : DOMAIN worker[w] = {"stage", "of", "loaded", "picked"}

BusyKnown ==
    \A w \in Workers :
        worker[w].stage # "idle"
            => worker[w].of \in Notifications /\ row[worker[w].of].status # "absent"

(* A row never comes without its attempt. *)
RowsHaveAttempts ==
    \A n \in Notifications :
        inApp[n] > 0 => inApp[n] = 1 /\ attempt[n] # None /\ row[n].status # "absent"

OneCarrier ==
    \A w \in Workers :
        Carrier(w) => /\ Keyed(Body(w).key) = {}
                      /\ \A v \in Workers : Carrier(v) /\ Body(v).key = Body(w).key => v = w

KeysApart ==
    \A m, n \in Notifications :
        /\ inApp[m] > 0 /\ inApp[n] > 0
        /\ row[m].body.key # None /\ row[m].body.key = row[n].body.key
        => m = n

RowInv == Shapes /\ BusyKnown /\ RowsHaveAttempts /\ OneCarrier /\ KeysApart

LEMMA RowStarts == Init => RowInv
<1> SUFFICES ASSUME Init PROVE RowInv
  OBVIOUS
<1>1. Shapes
  BY DEF Init, StoreInit, DeliveryInit, Shapes, AbsentRow, IdleWorker
<1>2. \A w \in Workers : worker[w].stage = "idle"
  BY DEF Init, DeliveryInit, IdleWorker
<1>3. \A n \in Notifications : inApp[n] = 0
  BY DEF Init, StoreInit
<1>4. \A w \in Workers : ~Carrier(w)
  BY <1>2 DEF Carrier, Inserting
<1>5. BusyKnown /\ OneCarrier
  BY <1>2, <1>4 DEF BusyKnown, OneCarrier
<1>6. RowsHaveAttempts /\ KeysApart
  BY <1>3 DEF RowsHaveAttempts, KeysApart
<1> QED BY <1>1, <1>5, <1>6 DEF RowInv

-----------------------------------------------------------------------------
(* The submitted bodies of known notifications stay, and known ones stay   *)
(* known.                                                                  *)
RowsKept ==
    \A n \in Notifications :
        row[n].status # "absent" => row'[n].status # "absent" /\ row'[n].body = row[n].body

AttemptsKept == \A n \in Notifications : attempt[n] # None => attempt'[n] # None

WorkersKept ==
    \A w \in Workers :
        worker'[w].stage # "idle"
            => /\ worker'[w].of \in Notifications
               /\ row[worker'[w].of].status # "absent"
               /\ worker'[w].stage \in Inserting
                      => worker[w].stage \in Inserting /\ worker[w].of = worker'[w].of

(* A step that inserts no inbox row keeps the invariant. *)
LEMMA QuietKeeps ==
    ASSUME RowInv, Shapes', RowsKept, AttemptsKept, WorkersKept, UNCHANGED inApp
    PROVE  RowInv' /\ RowsKept
<1>1. BusyKnown'
  BY DEF BusyKnown, WorkersKept, RowsKept
<1>2. RowsHaveAttempts'
  BY DEF RowInv, RowsHaveAttempts, RowsKept, AttemptsKept
<1>3. \A n \in Notifications : inApp'[n] > 0 => row'[n].body = row[n].body
  BY DEF RowInv, RowsHaveAttempts, RowsKept
<1>4. KeysApart'
  BY <1>3 DEF RowInv, KeysApart
<1>5. \A w \in Workers : Carrier(w)' => Carrier(w) /\ Body(w)' = Body(w)
  BY DEF Carrier, Body, Inserting, WorkersKept, RowsKept, RowInv
<1>6. \A key : Keyed(key)' = Keyed(key)
  BY <1>3 DEF Keyed
<1>7. OneCarrier'
  BY <1>5, <1>6 DEF RowInv, OneCarrier
<1> QED BY <1>1, <1>2, <1>4, <1>7 DEF RowInv

LEMMA AcceptQuiet ==
    ASSUME RowInv, NEW n \in Notifications, Accepting(n)
    PROVE  RowInv' /\ RowsKept
<1>1. PICK body : row' = [row EXCEPT ![n] = [status |-> "queued", lease |-> "none", body |-> body]]
  BY DEF Accepting, Accept
<1>2. UNCHANGED <<attempt, inApp, worker>> /\ row[n].status = "absent"
  BY DEF Accepting, Accept
<1>3. Shapes'
  BY <1>1, <1>2 DEF RowInv, Shapes
<1>4. RowsKept /\ AttemptsKept
  BY <1>1, <1>2 DEF RowInv, Shapes, RowsKept, AttemptsKept
<1>5. WorkersKept
  BY <1>2 DEF RowInv, BusyKnown, WorkersKept
<1> QED BY <1>2, <1>3, <1>4, <1>5, QuietKeeps

LEMMA DrivingQuiet ==
    ASSUME RowInv, NEW n \in Notifications, Driving(n)
    PROVE  RowInv' /\ RowsKept
<1>1. UNCHANGED <<attempt, inApp, worker>>
  BY DEF Driving, Reconcile, Repeat, RetryNotification
<1>2. \/ UNCHANGED row
      \/ row' = [row EXCEPT ![n].status = "queued", ![n].lease = "none"]
         /\ row[n].status \in {"processing", "failed"}
  BY DEF Driving, Reconcile, Repeat, RetryNotification, Requeue, IsStuck
<1>3. Shapes'
  BY <1>1, <1>2 DEF RowInv, Shapes
<1>4. RowsKept /\ AttemptsKept
  BY <1>1, <1>2 DEF RowInv, Shapes, RowsKept, AttemptsKept
<1>5. WorkersKept
  BY <1>1 DEF RowInv, BusyKnown, WorkersKept
<1> QED BY <1>1, <1>3, <1>4, <1>5, QuietKeeps

-----------------------------------------------------------------------------
(* Steps of a worker that leave the rows alone. *)
LEMMA WorkerQuiet ==
    ASSUME RowInv, UNCHANGED <<row, attempt, inApp>>, Shapes', WorkersKept
    PROVE  RowInv' /\ RowsKept
<1>1. RowsKept /\ AttemptsKept
  BY DEF RowsKept, AttemptsKept
<1> QED BY <1>1, QuietKeeps

LEMMA FinishQuiet ==
    ASSUME RowInv, NEW w \in Workers, Finish(w)
    PROVE  /\ WorkersKept
           /\ DOMAIN worker' = Workers
           /\ \A v \in Workers : DOMAIN worker'[v] = {"stage", "of", "loaded", "picked"}
<1>1. WorkersKept
  BY DEF Finish, IdleWorker, RowInv, Shapes, BusyKnown, WorkersKept, Inserting
<1> QED BY <1>1 DEF Finish, IdleWorker, RowInv, Shapes

LEMMA AdvanceQuiet ==
    ASSUME RowInv, NEW w \in Workers, NEW stage, Advance(w, stage),
           worker[w].stage # "idle",
           stage \in Inserting => worker[w].stage \in Inserting
    PROVE  /\ WorkersKept
           /\ DOMAIN worker' = Workers
           /\ \A v \in Workers : DOMAIN worker'[v] = {"stage", "of", "loaded", "picked"}
<1>1. WorkersKept
  BY DEF Advance, RowInv, Shapes, BusyKnown, WorkersKept, Inserting
<1> QED BY <1>1 DEF Advance, RowInv, Shapes

LEMMA LookUpQuiet ==
    ASSUME RowInv, NEW w \in Workers, NEW stage \in {"rejected", "absent", "duplicate"},
           LookUp(w, stage)
    PROVE  RowInv' /\ RowsKept
<1>1. /\ WorkersKept /\ DOMAIN worker' = Workers
      /\ \A v \in Workers : DOMAIN worker'[v] = {"stage", "of", "loaded", "picked"}
  BY AdvanceQuiet DEF LookUp, Inserting
<1>2. UNCHANGED <<row, attempt, inApp>>
  BY DEF LookUp, storeVars, deliveryRows
<1>3. Shapes'
  BY <1>1, <1>2 DEF RowInv, Shapes
<1> QED BY <1>1, <1>2, <1>3, WorkerQuiet

LEMMA ClaimKeeps ==
    ASSUME RowInv, NEW w \in Workers, Claim(w)
    PROVE  RowInv' /\ RowsKept
<1> DEFINE n == worker[w].of
<1>1. n \in Notifications /\ row[n].status # "absent"
  BY DEF Claim, RowInv, BusyKnown
<1>2. /\ WorkersKept /\ DOMAIN worker' = Workers
      /\ \A v \in Workers : DOMAIN worker'[v] = {"stage", "of", "loaded", "picked"}
  BY AdvanceQuiet DEF Claim, Inserting
<1>3. PICK status : /\ row' = [row EXCEPT ![n].status = status, ![n].lease = "live"]
                    /\ status # "absent"
  <2>1. CASE worker[w].loaded = "processing"
    <3>1. row' = [row EXCEPT ![n].status = row[n].status, ![n].lease = "live"]
      BY <2>1 DEF Claim
    <3> QED BY <3>1, <1>1
  <2>2. CASE worker[w].loaded # "processing"
    <3>1. row' = [row EXCEPT ![n].status = "processing", ![n].lease = "live"]
      BY <2>2 DEF Claim
    <3> WITNESS "processing"
    <3> QED BY <3>1
  <2> QED BY <2>1, <2>2
<1>4. UNCHANGED <<attempt, inApp>>
  BY DEF Claim
<1>5. Shapes'
  BY <1>1, <1>2, <1>3, <1>4 DEF RowInv, Shapes
<1>6. RowsKept /\ AttemptsKept
  BY <1>1, <1>3, <1>4 DEF RowInv, Shapes, RowsKept, AttemptsKept
<1> QED BY <1>2, <1>4, <1>5, <1>6, QuietKeeps

(* The insert takes a key that no row has and no other transaction holds.  *)
LEMMA InsertKeeps ==
    ASSUME RowInv, NEW w \in Workers, Insert(w)
    PROVE  RowInv' /\ RowsKept
<1>1. UNCHANGED <<row, attempt, inApp>>
  BY DEF Insert, Abort, RecipientRefused, CreateInAppDelivery, storeVars, deliveryRows
<1>2. CASE Finish(w)
  <2>1. Shapes'
    BY <1>1, <1>2, FinishQuiet DEF RowInv, Shapes
  <2> QED BY <1>1, <1>2, <2>1, FinishQuiet, WorkerQuiet
<1>3. CASE ~Finish(w)
  <2>1. /\ worker[w].stage = "absent" /\ Existing(w) = {} /\ ~KeyHeld(w)
    BY <1>3 DEF Insert, KeyTaken, Abort
  <2>2. PICK stage, picked :
            /\ stage \in Inserting
            /\ worker' = [worker EXCEPT ![w].stage = stage, ![w].picked = picked]
    <3>1. CASE RecipientRefused(w)
      <4>1. worker' = [worker EXCEPT ![w].stage = "rejected with row",
                                     ![w].picked = worker[w].picked]
        BY <3>1 DEF RecipientRefused, Advance, RowInv, Shapes
      <4>2. "rejected with row" \in Inserting
        BY DEF Inserting
      <4> WITNESS "rejected with row", worker[w].picked
      <4> QED BY <4>1, <4>2
    <3>2. CASE \E picked : CreateInAppDelivery(w, picked)
      <4> PICK picked : CreateInAppDelivery(w, picked)
        BY <3>2
      <4>1. "inserted" \in Inserting
        BY DEF Inserting
      <4> WITNESS "inserted", picked
      <4> QED BY <4>1 DEF CreateInAppDelivery
    <3> QED BY <1>3, <3>1, <3>2 DEF Insert, Abort
  <2>3. Shapes'
    BY <1>1, <2>2 DEF RowInv, Shapes
  <2>4. /\ worker'[w].stage = stage /\ worker'[w].of = worker[w].of
        /\ \A v \in Workers \ {w} : worker'[v] = worker[v]
    BY <2>2 DEF RowInv, Shapes
  <2>5. BusyKnown'
    BY <1>1, <2>1, <2>4 DEF RowInv, BusyKnown
  <2>6. RowsHaveAttempts' /\ KeysApart'
    BY <1>1 DEF RowInv, RowsHaveAttempts, KeysApart
  <2>7. \A key : Keyed(key)' = Keyed(key)
    BY <1>1 DEF Keyed
  <2>8. \A v \in Workers : Body(v)' = Body(v)
    BY <1>1, <2>4 DEF Body
  <2>9. \A v \in Workers \ {w} : Carrier(v)' = Carrier(v)
    BY <2>4, <2>8 DEF Carrier
  <2>10. Body(w).key # None
             => /\ Keyed(Body(w).key) = {}
                /\ \A v \in Workers : Carrier(v) => Body(v).key # Body(w).key
    BY <2>1 DEF Existing, KeyHeld, Carrier, Inserting
  <2>11. OneCarrier'
    <3>1. ASSUME NEW x \in Workers, Carrier(x)'
          PROVE  /\ Keyed(Body(x).key)' = {}
                 /\ \A v \in Workers : Carrier(v)' /\ Body(v)'.key = Body(x)'.key => v = x
      <4>1. CASE x = w
        <5>1. Body(w).key # None
          BY <3>1, <4>1, <2>8 DEF Carrier
        <5> QED BY <4>1, <5>1, <2>7, <2>8, <2>9, <2>10
      <4>2. CASE x # w
        <5>1. Carrier(x)
          BY <3>1, <4>2, <2>9
        <5>2. Body(x).key # None /\ Keyed(Body(x).key) = {}
          BY <5>1 DEF Carrier, RowInv, OneCarrier
        <5>3. Body(w).key # Body(x).key
          BY <5>1, <5>2, <2>10
        <5> QED BY <5>1, <5>2, <5>3, <2>7, <2>8, <2>9 DEF RowInv, OneCarrier
      <4> QED BY <4>1, <4>2
    <3> QED BY <3>1 DEF OneCarrier
  <2> QED BY <1>1, <2>3, <2>5, <2>6, <2>11 DEF RowInv, RowsKept
<1> QED BY <1>2, <1>3

-----------------------------------------------------------------------------
(* The second transaction commits a row: its notification had none, since  *)
(* it had no attempt, and nor had its key.                                 *)
LEMMA StoredKeeps ==
    ASSUME RowInv, NEW w \in Workers, worker[w].stage \in Inserting,
           ~AttemptTaken(worker[w].of), NEW status \in {"delivered", "failed"},
           row' = Ending(w, status),
           attempt' = [attempt EXCEPT ![worker[w].of] = status],
           inApp' = [inApp EXCEPT ![worker[w].of] = @ + 1],
           Finish(w)
    PROVE  RowInv' /\ RowsKept
<1> DEFINE n == worker[w].of
<1>1. n \in Notifications /\ row[n].status # "absent"
  BY DEF RowInv, BusyKnown, Inserting
<1>2. inApp[n] = 0
  BY <1>1 DEF RowInv, Shapes, RowsHaveAttempts, AttemptTaken
<1>3. Shapes'
  BY <1>1, FinishQuiet DEF RowInv, Shapes, Ending
<1>4. RowsKept
  BY <1>1 DEF RowInv, Shapes, RowsKept, Ending
<1>5. AttemptsKept /\ attempt'[n] # None
  BY <1>1, NoneAssumption DEF RowInv, Shapes, AttemptsKept
<1>6. WorkersKept
  BY FinishQuiet
<1>7. BusyKnown'
  BY <1>4, <1>6 DEF BusyKnown, WorkersKept, RowsKept
<1>8. /\ inApp'[n] = 1
      /\ \A m \in Notifications \ {n} : inApp'[m] = inApp[m]
  BY <1>1, <1>2 DEF RowInv, Shapes
<1>9. RowsHaveAttempts'
  <2>1. row'[n].status # "absent"
    BY <1>1, <1>4 DEF RowsKept
  <2>2. ASSUME NEW m \in Notifications, m # n, inApp'[m] > 0
        PROVE  inApp'[m] = 1 /\ attempt'[m] # None /\ row'[m].status # "absent"
    BY <2>2, <1>4, <1>5, <1>8 DEF RowInv, RowsHaveAttempts, RowsKept, AttemptsKept
  <2> QED BY <2>1, <2>2, <1>5, <1>8 DEF RowsHaveAttempts
<1>10. \A m \in Notifications :
           inApp'[m] > 0 => row'[m].body = row[m].body /\ (m = n \/ inApp[m] > 0)
  BY <1>1, <1>4, <1>8 DEF RowInv, RowsHaveAttempts, RowsKept
<1>11. row[n].body.key # None
           => /\ \A m \in Notifications : inApp[m] > 0 => row[m].body.key # row[n].body.key
              /\ \A v \in Workers : Carrier(v) /\ v # w => Body(v).key # row[n].body.key
  <2> SUFFICES ASSUME row[n].body.key # None
               PROVE  /\ \A m \in Notifications : inApp[m] > 0 => row[m].body.key # row[n].body.key
                      /\ \A v \in Workers : Carrier(v) /\ v # w => Body(v).key # row[n].body.key
    OBVIOUS
  <2>1. Carrier(w) /\ Body(w) = row[n].body
    BY DEF Carrier, Body
  <2>2. /\ Keyed(row[n].body.key) = {}
        /\ \A v \in Workers : Carrier(v) /\ Body(v).key = row[n].body.key => v = w
    BY <2>1 DEF RowInv, OneCarrier
  <2> QED BY <2>2 DEF Keyed
<1>12. KeysApart'
  BY <1>10, <1>11 DEF RowInv, KeysApart
<1>13. \A v \in Workers : Carrier(v)' => Carrier(v) /\ v # w /\ Body(v)' = Body(v)
  <2>1. worker'[w].stage = "idle"
    BY DEF Finish, IdleWorker, RowInv, Shapes
  <2> QED BY <2>1, <1>4, <1>6 DEF Carrier, Body, Inserting, WorkersKept, RowsKept, RowInv
<1>14. ASSUME NEW v \in Workers, Carrier(v)' PROVE Keyed(Body(v).key)' = {}
  <2>1. /\ Carrier(v) /\ v # w /\ Body(v)' = Body(v) /\ Body(v).key # None
        /\ Keyed(Body(v).key) = {}
    BY <1>13, <1>14 DEF Carrier, RowInv, OneCarrier
  <2>2. ASSUME NEW m \in Notifications, inApp'[m] > 0, row'[m].body.key = Body(v).key
        PROVE  FALSE
    <3>1. CASE m = n
      BY <3>1, <2>1, <2>2, <1>10, <1>11
    <3>2. CASE m # n
      BY <3>2, <2>1, <2>2, <1>10 DEF Keyed
    <3> QED BY <3>1, <3>2
  <2> QED BY <2>1, <2>2 DEF Keyed
<1>15. OneCarrier'
  BY <1>13, <1>14 DEF RowInv, OneCarrier
<1> QED BY <1>3, <1>4, <1>7, <1>9, <1>12, <1>15 DEF RowInv

LEMMA OutcomeKeeps ==
    ASSUME RowInv, NEW w \in Workers,
           Deliver(w) \/ ConfirmDuplicate(w) \/ RecordFailure(w)
    PROVE  RowInv' /\ RowsKept
<1> DEFINE n == worker[w].of
<1>1. n \in Notifications /\ row[n].status # "absent"
  BY DEF Deliver, ConfirmDuplicate, RecordFailure, RowInv, BusyKnown
<1>2. Finish(w)
  BY DEF Deliver, ConfirmDuplicate, RecordFailure
<1>3. CASE Deliver(w)
  BY <1>3, StoredKeeps DEF Deliver, Inserting
<1>4. CASE RecordFailure(w) /\ worker[w].stage # "rejected"
  BY <1>4, StoredKeeps DEF RecordFailure, Inserting
<1>5. ASSUME UNCHANGED inApp, NEW status \in {"delivered", "failed"},
             attempt' = [attempt EXCEPT ![n] = status],
             row' = Ending(w, status) \/ row' = Released(n)
      PROVE  RowInv' /\ RowsKept
  <2>1. Shapes'
    BY <1>1, <1>2, <1>5, FinishQuiet DEF RowInv, Shapes, Ending, Released
  <2>2. RowsKept
    BY <1>1, <1>5 DEF RowInv, Shapes, RowsKept, Ending, Released
  <2>3. AttemptsKept
    BY <1>1, <1>5, NoneAssumption DEF RowInv, Shapes, AttemptsKept
  <2> QED BY <2>1, <2>2, <2>3, <1>2, <1>5, FinishQuiet, QuietKeeps
<1>6. CASE ConfirmDuplicate(w)
  BY <1>6, <1>5 DEF ConfirmDuplicate
<1>7. CASE RecordFailure(w) /\ worker[w].stage = "rejected"
  BY <1>7, <1>5 DEF RecordFailure
<1> QED BY <1>3, <1>4, <1>6, <1>7

LEMMA ProcessingKeeps ==
    ASSUME RowInv, NEW w \in Workers, Processing(w)
    PROVE  RowInv' /\ RowsKept
<1>1. CASE ContentRefused(w) \/ FindNone(w) \/ FindDuplicate(w) \/ FindConflict(w)
  BY <1>1, LookUpQuiet DEF ContentRefused, FindNone, FindDuplicate, FindConflict
<1>2. CASE AttemptConflict(w)
  <2>1. Finish(w) /\ UNCHANGED <<row, attempt, inApp>>
    BY <1>2 DEF AttemptConflict, Abort, storeVars, deliveryRows
  <2>2. Shapes'
    BY <2>1, FinishQuiet DEF RowInv, Shapes
  <2> QED BY <2>1, <2>2, FinishQuiet, WorkerQuiet
<1> QED BY <1>1, <1>2, ClaimKeeps, InsertKeeps, OutcomeKeeps DEF Processing

(* A message is about a notification that was submitted. *)
MessagesKnown ==
    /\ messages \in [Notifications -> Nat]
    /\ \A n \in Notifications : messages[n] > 0 => row[n].status # "absent"

LEMMA TakingKeeps ==
    ASSUME RowInv, MessagesKnown, NEW w \in Workers, NEW n \in Notifications,
           Discard(w, n) \/ Load(w, n)
    PROVE  RowInv' /\ RowsKept
<1>1. UNCHANGED <<row, attempt, inApp>> /\ row[n].status # "absent"
  BY DEF Discard, Load, Take, MessagesKnown
<1>2. CASE Discard(w, n)
  <2>1. UNCHANGED worker
    BY <1>2 DEF Discard
  <2>2. Shapes' /\ WorkersKept
    BY <1>1, <2>1 DEF RowInv, Shapes, BusyKnown, WorkersKept
  <2> QED BY <1>1, <2>2, WorkerQuiet
<1>3. CASE Load(w, n)
  <2>1. worker' = [worker EXCEPT ![w] =
                      [@ EXCEPT !.stage = "loaded", !.of = n, !.loaded = row[n].status]]
    BY <1>3 DEF Load
  <2>2. Shapes'
    BY <1>1, <2>1 DEF RowInv, Shapes
  <2>3. WorkersKept
    BY <1>1, <2>1 DEF RowInv, Shapes, BusyKnown, WorkersKept, Inserting
  <2> QED BY <1>1, <2>2, <2>3, WorkerQuiet
<1> QED BY <1>2, <1>3

LEMMA FaultsKeep ==
    ASSUME RowInv, \/ \E w \in Workers : Crash(w)
                   \/ \E n \in Notifications : ExpireLease(n)
    PROVE  RowInv' /\ RowsKept
<1>1. ASSUME NEW w \in Workers, Crash(w) PROVE RowInv' /\ RowsKept
  <2>1. Finish(w) /\ UNCHANGED <<row, attempt, inApp>>
    BY <1>1 DEF Crash
  <2>2. Shapes'
    BY <2>1, FinishQuiet DEF RowInv, Shapes
  <2> QED BY <2>1, <2>2, FinishQuiet, WorkerQuiet
<1>2. ASSUME NEW n \in Notifications, ExpireLease(n) PROVE RowInv' /\ RowsKept
  <2>1. UNCHANGED <<attempt, inApp, worker>> /\ row' = [row EXCEPT ![n].lease = "past"]
    BY <1>2 DEF ExpireLease
  <2>2. Shapes' /\ RowsKept /\ AttemptsKept
    BY <2>1 DEF RowInv, Shapes, RowsKept, AttemptsKept
  <2>3. WorkersKept
    BY <2>1 DEF RowInv, BusyKnown, WorkersKept
  <2> QED BY <2>1, <2>2, <2>3, QuietKeeps
<1> QED BY <1>1, <1>2

(* Streams and inbox requests write none of these rows. *)
LEMMA OthersKeep ==
    ASSUME RowInv, UNCHANGED <<row, attempt, inApp, worker>>
    PROVE  RowInv' /\ RowsKept
<1>1. Shapes' /\ WorkersKept
  BY DEF RowInv, Shapes, BusyKnown, WorkersKept
<1> QED BY <1>1, WorkerQuiet

LEMMA RowsStep ==
    ASSUME RowInv, MessagesKnown, [Next]_vars
    PROVE  RowInv' /\ RowsKept
<1>1. CASE DeliveryNext
  BY <1>1, TakingKeeps, ProcessingKeeps, FaultsKeep DEF DeliveryNext
<1>2. CASE \/ \E u \in Users : Connecting(u)
           \/ StreamNext /\ UNCHANGED <<worker, session>>
  <2>1. UNCHANGED <<row, attempt, inApp, worker>>
    BY <1>2 DEF Connecting, Connect, StreamNext, Replay, Show, Heartbeat, Disconnect,
                storeVars, deliveryRows
  <2> QED BY <2>1, OthersKeep
<1>3. CASE InboxNext /\ UNCHANGED worker
  <2>1. UNCHANGED <<row, attempt, inApp, worker>>
    BY <1>3 DEF InboxNext, BeginRequest, BeginReadAll, Start, Commit, UpdatePreference,
                deliveryRows
  <2> QED BY <2>1, OthersKeep
<1>4. CASE UNCHANGED vars
  BY <1>4, OthersKeep DEF vars, storeVars, deliveryRows
<1> QED BY <1>1, <1>2, <1>3, <1>4, AcceptQuiet, DrivingQuiet DEF Next

(* What a step does to the messages. *)
LEMMA MessagesStep ==
    ASSUME RowInv, MessagesKnown, [Next]_vars
    PROVE  MessagesKnown'
<1>1. RowsKept /\ RowInv'
  BY RowsStep
<1>2. ASSUME UNCHANGED messages PROVE MessagesKnown'
  BY <1>1, <1>2 DEF MessagesKnown, RowsKept
<1>3. ASSUME NEW n \in Notifications, messages[n] > 0,
             messages' = [messages EXCEPT ![n] = @ - 1]
      PROVE  MessagesKnown'
  BY <1>1, <1>3 DEF MessagesKnown, RowsKept
<1>4. ASSUME NEW n \in Notifications, row'[n].status # "absent",
             messages' = [messages EXCEPT ![n] = @ + 1]
      PROVE  MessagesKnown'
  BY <1>1, <1>4 DEF MessagesKnown, RowsKept
<1>5. CASE \E n \in Notifications : Accepting(n)
  <2> PICK n \in Notifications : Accept(n)
    BY <1>5 DEF Accepting
  <2>1. row'[n].status # "absent"
    BY DEF Accept, RowInv, Shapes
  <2> QED BY <2>1, <1>4 DEF Accept
<1>6. CASE \E n \in Notifications : Driving(n)
  <2> PICK n \in Notifications : Reconcile(n) \/ Repeat(n) \/ RetryNotification(n)
    BY <1>6 DEF Driving
  <2>1. row[n].status # "absent" /\ messages' = [messages EXCEPT ![n] = @ + 1]
    BY DEF Reconcile, IsStuck, Repeat, RetryNotification, Requeue
  <2> QED BY <2>1, <1>1, <1>4 DEF RowsKept
<1>7. CASE \E w \in Workers, n \in Notifications : Discard(w, n) \/ Load(w, n)
  BY <1>7, <1>3 DEF Discard, Load, Take
<1>8. CASE \E w \in Workers : Crash(w)
  <2> PICK w \in Workers : Crash(w)
    BY <1>8
  <2>1. worker[w].of \in Notifications /\ row[worker[w].of].status # "absent"
    BY DEF Crash, RowInv, BusyKnown
  <2> QED BY <2>1, <1>1, <1>4 DEF Crash, RowsKept
<1>9. CASE (\E w \in Workers : Processing(w)) \/ (\E n \in Notifications : ExpireLease(n))
  <2>1. UNCHANGED messages
    BY <1>9 DEF Processing, Claim, ContentRefused, FindNone, FindDuplicate, FindConflict,
                LookUp, Insert, Abort, RecipientRefused, CreateInAppDelivery, Deliver,
                ConfirmDuplicate, RecordFailure, AttemptConflict, ExpireLease,
                storeVars, deliveryRows
  <2> QED BY <2>1, <1>2
<1>10. CASE \/ \E u \in Users : Connecting(u)
            \/ StreamNext /\ UNCHANGED <<worker, session>>
            \/ InboxNext /\ UNCHANGED worker
            \/ UNCHANGED vars
  <2>1. UNCHANGED messages
    BY <1>10 DEF Connecting, Connect, StreamNext, Replay, Show, Heartbeat, Disconnect,
                 InboxNext, BeginRequest, BeginReadAll, Start, Commit, UpdatePreference,
                 vars, storeVars, deliveryRows
  <2> QED BY <2>1, <1>2
<1> QED BY <1>5, <1>6, <1>7, <1>8, <1>9, <1>10 DEF Next, DeliveryNext

(* What keeps inbox rows apart is inductive: an attempt for each row, and  *)
(* one transaction at most for a deduplication key that no row has yet.    *)
THEOREM RowInvariant == Spec => [](RowInv /\ MessagesKnown)
<1>1. Init => RowInv /\ MessagesKnown
  BY RowStarts DEF Init, StoreInit, MessagesKnown
<1>2. RowInv /\ MessagesKnown /\ [Next]_vars => (RowInv /\ MessagesKnown)'
  BY RowsStep, MessagesStep
<1> QED BY <1>1, <1>2, PTL DEF Spec

(* However many workers process a notification, how often, and with which  *)
(* others that carry its deduplication key: one row comes of it, and one   *)
(* of the key (the unique constraints behind create_in_app_delivery).      *)
THEOREM InAppRowIsUnique == Spec => []OneInAppRow
<1>1. RowInv => OneInAppRow
  <2> SUFFICES ASSUME RowInv PROVE OneInAppRow
    OBVIOUS
  <2>1. \A n \in Notifications : inApp[n] <= 1
    BY DEF RowInv, Shapes, RowsHaveAttempts
  <2>2. ASSUME NEW key, key # None PROVE Cardinality(Keyed(key)) <= 1
    <3>1. CASE Keyed(key) = {}
      BY <3>1, FS_EmptySet
    <3>2. CASE Keyed(key) # {}
      <4>1. PICK m : m \in Keyed(key)
        BY <3>2
      <4>2. Keyed(key) = {m}
        BY <4>1, <2>2 DEF Keyed, RowInv, KeysApart
      <4>3. Cardinality({m}) = 1
        BY FS_Singleton
      <4> QED BY <4>2, <4>3
    <3> QED BY <3>1, <3>2
  <2> QED BY <2>1, <2>2 DEF OneInAppRow
<1> QED BY <1>1, RowInvariant, PTL
=============================================================================
