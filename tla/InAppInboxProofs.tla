--------------------------- MODULE InAppInboxProofs ---------------------------
(***************************************************************************)
(* What the in-app inbox and the live stream promise, for every value of   *)
(* the constants: the record of every attempt tells what became of it, the *)
(* acknowledgements of a user carry the numbers 1, 2, ... without a gap, a *)
(* connected client misses no notice, and, as long as no fault disturbs    *)
(* the system, a client is shown nothing that is not stored for its user.  *)
(*                                                                         *)
(* The first part says once which steps write which variable (...Writers)  *)
(* and what becomes of a row, a task or a stream in a step (...Fate); the  *)
(* invariants that follow are preserved by these few cases instead of      *)
(* every action of the system.                                             *)
(***************************************************************************)
EXTENDS InAppProofs, SequenceTheorems

BudgetOK == "bodies" \in DOMAIN budget /\ budget.bodies \subseteq Bodies

BodiesKnown == \A n \in Notifications : row[n].status # "absent" => row[n].body \in Bodies

(* What a request loaded is there, and visible to its user. *)
SessionsReal ==
    \A s \in Sessions :
        session[s].request # "none"
            => /\ session[s].user \in Users
               /\ \A n \in Notifications, t \in Recipients :
                     <<n, t>> \in session[s].of
                         => t \in {session[s].user, Everyone} /\ recipient[n][t] \in RecipientRows

TypeInv ==
    /\ RowInv /\ MessagesKnown
    /\ InAppTypeOK /\ BudgetOK /\ BodiesKnown /\ SessionsReal

-----------------------------------------------------------------------------
(* Who writes what. *)
LEMMA RowWriters ==
    ASSUME TypeInv, [Next]_vars
    PROVE  \/ UNCHANGED row
           \/ \E n \in Notifications : Accept(n)
           \/ \E n \in Notifications, status \in Statuses, lease \in {"none", "live", "past"} :
                 /\ row' = [row EXCEPT ![n].status = status, ![n].lease = lease]
                 /\ row[n].status = "absent" => status = "absent"
<1> DEFINE Edited(n, status, lease) ==
        row' = [row EXCEPT ![n].status = status, ![n].lease = lease]
<1> DEFINE Goal ==
        \E n \in Notifications, status \in Statuses, lease \in {"none", "live", "past"} :
            Edited(n, status, lease) /\ (row[n].status = "absent" => status = "absent")
<1>1. ASSUME NEW n \in Notifications, NEW status \in Statuses \ {"absent"},
             NEW lease \in {"none", "live", "past"}, Edited(n, status, lease),
             row[n].status # "absent"
      PROVE  Goal
  BY <1>1
<1>2. ASSUME NEW n \in Notifications, NEW lease \in {"none", "live", "past"},
             row' = [row EXCEPT ![n].lease = lease]
      PROVE  Goal
  <2>1. row[n].status \in Statuses
    BY DEF TypeInv, InAppTypeOK, StoreTypeOK, Rows
  <2>2. Edited(n, row[n].status, lease)
    BY <1>2 DEF TypeInv, InAppTypeOK, StoreTypeOK, Rows
  <2> QED BY <2>1, <2>2
<1>3. \A w \in Workers : worker[w].stage # "idle"
          => worker[w].of \in Notifications /\ row[worker[w].of].status # "absent"
  BY DEF TypeInv, RowInv, BusyKnown
<1> HIDE DEF Edited, Goal
<1>4. ASSUME NEW n \in Notifications, Driving(n) PROVE UNCHANGED row \/ Goal
  <2>1. \/ UNCHANGED row
        \/ Edited(n, "queued", "none") /\ row[n].status \in {"processing", "failed"}
    BY <1>4 DEF Driving, Reconcile, Repeat, RetryNotification, Requeue, IsStuck, Edited
  <2> QED BY <2>1, <1>1 DEF Statuses
<1>5. ASSUME NEW w \in Workers, Processing(w) PROVE UNCHANGED row \/ Goal
  <2> DEFINE n == worker[w].of
  <2>1. CASE Claim(w)
    <3>1. n \in Notifications /\ row[n].status # "absent"
      BY <2>1, <1>3 DEF Claim
    <3>2. CASE worker[w].loaded = "processing"
      <4>1. row' = [row EXCEPT ![n].lease = "live"]
        BY <2>1, <3>1, <3>2 DEF Claim, TypeInv, InAppTypeOK, StoreTypeOK, Rows
      <4> QED BY <3>1, <4>1, <1>2
    <3>3. CASE worker[w].loaded # "processing"
      <4>1. Edited(n, "processing", "live")
        BY <2>1, <3>3 DEF Claim, Edited
      <4> QED BY <3>1, <4>1, <1>1 DEF Statuses
    <3> QED BY <3>2, <3>3
  <2>2. CASE Deliver(w)
    <3>1. n \in Notifications /\ row[n].status # "absent" /\ Edited(n, "delivered", "none")
      BY <2>2, <1>3 DEF Deliver, Ending, Edited
    <3> QED BY <3>1, <1>1 DEF Statuses
  <2>3. CASE RecordFailure(w)
    <3>1. n \in Notifications /\ row[n].status # "absent" /\ Edited(n, "failed", "none")
      BY <2>3, <1>3 DEF RecordFailure, Ending, Edited
    <3> QED BY <3>1, <1>1 DEF Statuses
  <2>4. CASE ConfirmDuplicate(w)
    <3>1. n \in Notifications /\ row' = [row EXCEPT ![n].lease = "none"]
      BY <2>4, <1>3 DEF ConfirmDuplicate, Released
    <3> QED BY <3>1, <1>2
  <2>5. CASE \/ ContentRefused(w) \/ FindNone(w) \/ FindDuplicate(w) \/ FindConflict(w)
             \/ Insert(w) \/ AttemptConflict(w)
    BY <2>5 DEF ContentRefused, FindNone, FindDuplicate, FindConflict, LookUp, Insert, Abort,
                RecipientRefused, CreateInAppDelivery, AttemptConflict, storeVars, deliveryRows
  <2> QED BY <1>5, <2>1, <2>2, <2>3, <2>4, <2>5 DEF Processing
<1>6. ASSUME NEW n \in Notifications, ExpireLease(n) PROVE Goal
  BY <1>6, <1>2 DEF ExpireLease
<1>7. CASE \/ \E w \in Workers, n \in Notifications : Discard(w, n) \/ Load(w, n)
           \/ \E w \in Workers : Crash(w)
           \/ \E u \in Users : Connecting(u)
           \/ StreamNext /\ UNCHANGED <<worker, session>>
           \/ InboxNext /\ UNCHANGED worker
           \/ UNCHANGED vars
  BY <1>7 DEF Discard, Load, Take, Crash, Connecting, Connect, StreamNext, Replay, Show,
              Heartbeat, Disconnect, InboxNext, BeginRequest, BeginReadAll, Start, Commit,
              UpdatePreference, vars, storeVars, deliveryRows
<1> QED BY <1>4, <1>5, <1>6, <1>7 DEF Next, DeliveryNext, Accepting, Goal, Edited

LEMMA RecipientWriters ==
    ASSUME [Next]_vars
    PROVE  \/ UNCHANGED <<recipient, acks>>
           \/ \E w \in Workers : Deliver(w) /\ UNCHANGED session
           \/ \E s \in Sessions : Commit(s) /\ UNCHANGED worker
<1>1. CASE \E n \in Notifications : Accepting(n) \/ Driving(n)
  BY <1>1 DEF Accepting, Accept, Driving, Reconcile, Repeat, RetryNotification, inboxRows
<1>2. CASE DeliveryNext /\ UNCHANGED session
  BY <1>2 DEF DeliveryNext, Processing, Claim, ContentRefused, FindNone, FindDuplicate,
              FindConflict, LookUp, Insert, Abort, RecipientRefused, CreateInAppDelivery,
              ConfirmDuplicate, RecordFailure, AttemptConflict, Discard, Load, Take, Crash,
              ExpireLease, storeVars, inboxRows
<1>3. CASE \/ \E u \in Users : Connecting(u)
           \/ StreamNext /\ UNCHANGED <<worker, session>>
  BY <1>3 DEF Connecting, Connect, StreamNext, Replay, Show, Heartbeat, Disconnect,
              storeVars, inboxRows
<1>4. CASE InboxNext /\ UNCHANGED worker
  BY <1>4 DEF InboxNext, BeginRequest, BeginReadAll, Start, UpdatePreference, inboxRows
<1>5. CASE UNCHANGED vars
  BY <1>5 DEF vars, storeVars, inboxRows
<1> QED BY <1>1, <1>2, <1>3, <1>4, <1>5 DEF Next

LEMMA SessionWriters ==
    ASSUME [Next]_vars
    PROVE  \/ UNCHANGED session
           \/ /\ UNCHANGED <<row, attempt, inApp, recipient, acks, worker, stream, disturbed>>
              /\ \E s \in Sessions, u \in Users :
                    \/ \E n \in Notifications, request \in Requests : BeginRequest(s, request, u, n)
                    \/ BeginReadAll(s, u)
           \/ \E s \in Sessions : Commit(s) /\ UNCHANGED worker
<1>1. CASE InboxNext /\ UNCHANGED worker
  BY <1>1 DEF InboxNext, BeginRequest, BeginReadAll, Start, UpdatePreference,
              deliveryRows, inboxRows
<1>2. CASE ~(InboxNext /\ UNCHANGED worker)
  BY <1>2 DEF Next, Accepting, Driving, Connecting, vars
<1> QED BY <1>1, <1>2

LEMMA WorkerWriters ==
    ASSUME [Next]_vars
    PROVE  \/ UNCHANGED worker
           \/ \E w \in Workers :
                 \/ \E n \in Notifications : Load(w, n)
                 \/ \E stage \in {"claimed", "absent", "duplicate", "rejected", "rejected with row"} :
                       Advance(w, stage)
                 \/ Insert(w) /\ \E picked \in Picks(Body(w).targets) : CreateInAppDelivery(w, picked)
                 \/ Finish(w)
<1>1. ASSUME NEW w \in Workers, Processing(w)
      PROVE  \/ \E stage \in {"claimed", "absent", "duplicate", "rejected", "rejected with row"} :
                   Advance(w, stage)
             \/ Insert(w) /\ \E picked \in Picks(Body(w).targets) : CreateInAppDelivery(w, picked)
             \/ Finish(w)
  <2>1. CASE Insert(w)
    BY <2>1 DEF Insert, Abort, RecipientRefused
  <2>2. CASE ~Insert(w)
    BY <1>1, <2>2 DEF Processing, Claim, ContentRefused, FindNone, FindDuplicate, FindConflict,
                 LookUp, Deliver, ConfirmDuplicate, RecordFailure, AttemptConflict, Abort
  <2> QED BY <2>1, <2>2
<1>2. CASE DeliveryNext
  BY <1>1, <1>2 DEF DeliveryNext, Discard, Crash, ExpireLease
<1>3. CASE ~DeliveryNext
  BY <1>3 DEF Next, Accepting, Driving, Connecting, vars
<1> QED BY <1>2, <1>3

LEMMA StreamWriters ==
    ASSUME [Next]_vars
    PROVE  \/ UNCHANGED stream
           \/ \E u \in Users : Connecting(u)
           \/ StreamNext /\ UNCHANGED <<worker, session>>
           \/ \E w \in Workers : \E picked \in Picks(Body(w).targets) :
                 Insert(w) /\ CreateInAppDelivery(w, picked) /\ UNCHANGED session
           \/ \E s \in Sessions : Commit(s) /\ UNCHANGED worker
<1>1. CASE \E n \in Notifications : Accepting(n) \/ Driving(n)
  BY <1>1 DEF Accepting, Driving
<1>2. CASE DeliveryNext /\ UNCHANGED session
  <2>1. CASE \E w \in Workers : Insert(w)
    BY <1>2, <2>1 DEF Insert, Abort, RecipientRefused
  <2>2. CASE ~ \E w \in Workers : Insert(w)
    BY <1>2, <2>2 DEF DeliveryNext, Processing, Claim, ContentRefused, FindNone, FindDuplicate,
              FindConflict, LookUp, Abort, Deliver,
              ConfirmDuplicate, RecordFailure, AttemptConflict, Discard, Load, Take, Crash,
              ExpireLease
  <2> QED BY <2>1, <2>2
<1>3. CASE InboxNext /\ UNCHANGED worker
  BY <1>3 DEF InboxNext, BeginRequest, BeginReadAll, Start, UpdatePreference
<1>4. CASE UNCHANGED vars
  BY <1>4 DEF vars
<1> QED BY <1>1, <1>2, <1>3, <1>4 DEF Next

LEMMA BudgetWriters ==
    ASSUME [Next]_vars
    PROVE  \/ UNCHANGED budget
           \/ \E what \in {"submissions", "disturbances", "connects", "requests"} : Spend(what)
<1>1. CASE \E n \in Notifications : Accepting(n) \/ Driving(n)
  BY <1>1 DEF Accepting, Accept, Driving, Reconcile, Repeat, RetryNotification, Disturb
<1>2. CASE DeliveryNext /\ UNCHANGED session
  BY <1>2 DEF DeliveryNext, Processing, Claim, ContentRefused, FindNone, FindDuplicate,
              FindConflict, LookUp, Insert, Abort, RecipientRefused, CreateInAppDelivery,
              Deliver, ConfirmDuplicate, RecordFailure, AttemptConflict, Discard, Load, Take,
              Crash, ExpireLease, Disturb, storeVars
<1>3. CASE \/ \E u \in Users : Connecting(u)
           \/ StreamNext /\ UNCHANGED <<worker, session>>
  BY <1>3 DEF Connecting, Connect, StreamNext, Replay, Show, Heartbeat, Disconnect, storeVars
<1>4. CASE InboxNext /\ UNCHANGED worker
  BY <1>4 DEF InboxNext, BeginRequest, BeginReadAll, Start, Commit, UpdatePreference
<1>5. CASE UNCHANGED vars
  BY <1>5 DEF vars, storeVars
<1> QED BY <1>1, <1>2, <1>3, <1>4, <1>5 DEF Next

(* An attempt is recorded once, by the task that ends with it. *)
LEMMA AttemptWriters ==
    ASSUME [Next]_vars
    PROVE  \/ UNCHANGED <<attempt, inApp>>
           \/ \E w \in Workers : Deliver(w) \/ ConfirmDuplicate(w) \/ RecordFailure(w)
<1>1. CASE \E n \in Notifications : Accepting(n) \/ Driving(n)
  BY <1>1 DEF Accepting, Accept, Driving, Reconcile, Repeat, RetryNotification
<1>2. CASE DeliveryNext /\ UNCHANGED session
  BY <1>2 DEF DeliveryNext, Processing, Claim, ContentRefused, FindNone, FindDuplicate,
              FindConflict, LookUp, Insert, Abort, RecipientRefused, CreateInAppDelivery,
              AttemptConflict, Discard, Load, Take, Crash, ExpireLease, storeVars, deliveryRows
<1>3. CASE \/ \E u \in Users : Connecting(u)
           \/ StreamNext /\ UNCHANGED <<worker, session>>
           \/ InboxNext /\ UNCHANGED worker
           \/ UNCHANGED vars
  BY <1>3 DEF Connecting, Connect, StreamNext, Replay, Show, Heartbeat, Disconnect,
              InboxNext, BeginRequest, BeginReadAll, Start, Commit, UpdatePreference,
              vars, storeVars, deliveryRows
<1> QED BY <1>1, <1>2, <1>3 DEF Next

-----------------------------------------------------------------------------
(* Every column keeps its type. *)
LEMMA BudgetStep == ASSUME TypeInv, [Next]_vars PROVE BudgetOK'
<1>1. BudgetOK
  BY DEF TypeInv
<1>2. ASSUME NEW what \in {"submissions", "disturbances", "connects", "requests"}, Spend(what)
      PROVE  BudgetOK'
  BY <1>1, <1>2 DEF Spend, BudgetOK
<1> QED BY <1>1, <1>2, BudgetWriters DEF BudgetOK

LEMMA RowTypeStep ==
    ASSUME TypeInv, [Next]_vars
    PROVE  row' \in [Notifications -> Rows] /\ BodiesKnown'
<1>1. row \in [Notifications -> Rows] /\ BodiesKnown
  BY DEF TypeInv, InAppTypeOK, StoreTypeOK
<1>2. ASSUME NEW n \in Notifications, Accept(n)
      PROVE  row' \in [Notifications -> Rows] /\ BodiesKnown'
  <2>1. PICK body \in budget.bodies :
            row' = [row EXCEPT ![n] = [status |-> "queued", lease |-> "none", body |-> body]]
    BY <1>2 DEF Accept
  <2>2. body \in Bodies
    BY <2>1 DEF TypeInv, BudgetOK
  <2> HIDE DEF Bodies
  <2> QED BY <1>1, <2>1, <2>2 DEF BodiesKnown, Rows, Statuses
<1>3. ASSUME NEW n \in Notifications, NEW status \in Statuses, NEW lease \in {"none", "live", "past"},
             row' = [row EXCEPT ![n].status = status, ![n].lease = lease],
             row[n].status = "absent" => status = "absent"
      PROVE  row' \in [Notifications -> Rows] /\ BodiesKnown'
  BY <1>1, <1>3 DEF BodiesKnown, Rows
<1> QED BY <1>1, <1>2, <1>3, RowWriters DEF BodiesKnown

LEMMA AttemptTypeStep ==
    ASSUME TypeInv, [Next]_vars
    PROVE  attempt' \in [Notifications -> {None, "delivered", "failed"}]
<1>1. attempt \in [Notifications -> {None, "delivered", "failed"}]
  BY DEF TypeInv, InAppTypeOK, StoreTypeOK
<1> QED BY <1>1, AttemptWriters DEF Deliver, ConfirmDuplicate, RecordFailure

LEMMA PicksAreTargets ==
    ASSUME TypeInv, NEW w \in Workers, worker[w].stage # "idle",
           NEW picked \in Picks(Body(w).targets)
    PROVE  picked \subseteq Recipients
<1>1. Body(w) \in Bodies
  BY DEF TypeInv, BodiesKnown, RowInv, BusyKnown, Body
<1>2. Body(w).targets \subseteq Recipients
  BY <1>1 DEF Bodies
<1> QED BY <1>2 DEF Picks

LEMMA WorkerTypeStep == ASSUME TypeInv, [Next]_vars PROVE DeliveryTypeOK'
<1>1. worker \in [Workers -> WorkerStates]
  BY DEF TypeInv, InAppTypeOK, DeliveryTypeOK
<1>2. ASSUME NEW w \in Workers, NEW n \in Notifications, Load(w, n) PROVE DeliveryTypeOK'
  <2>1. worker' = [worker EXCEPT ![w] =
           [@ EXCEPT !.stage = "loaded", !.of = n, !.loaded = row[n].status]]
    BY <1>2 DEF Load
  <2>2. row[n].status \in Statuses
    BY DEF TypeInv, InAppTypeOK, StoreTypeOK, Rows
  <2> QED BY <1>1, <2>1, <2>2 DEF DeliveryTypeOK, WorkerStates
<1>3. ASSUME NEW w \in Workers,
             NEW stage \in {"claimed", "absent", "duplicate", "rejected", "rejected with row"},
             Advance(w, stage)
      PROVE  DeliveryTypeOK'
  BY <1>1, <1>3 DEF Advance, DeliveryTypeOK, WorkerStates
<1>4. ASSUME NEW w \in Workers, Finish(w) PROVE DeliveryTypeOK'
  BY <1>1, <1>4 DEF Finish, IdleWorker, DeliveryTypeOK, WorkerStates, Statuses
<1>5. ASSUME NEW w \in Workers, NEW picked \in Picks(Body(w).targets), Insert(w),
             CreateInAppDelivery(w, picked)
      PROVE  DeliveryTypeOK'
  <2>1. picked \subseteq Recipients
    BY <1>5, PicksAreTargets DEF Insert
  <2>2. worker' = [worker EXCEPT ![w].stage = "inserted", ![w].picked = picked]
    BY <1>5 DEF CreateInAppDelivery
  <2> QED BY <1>1, <2>1, <2>2 DEF DeliveryTypeOK, WorkerStates
<1> QED BY <1>1, <1>2, <1>3, <1>4, <1>5, WorkerWriters DEF DeliveryTypeOK

LEMMA ChangedRow ==
    ASSUME NEW r \in RecipientRows, NEW request \in Requests \cup {"read-all"},
           NEW loaded \in RecipientRows
    PROVE  /\ Changed(r, request, loaded) \in RecipientRows
           /\ request \in AckStatuses => Changed(r, request, loaded).count = loaded.count + 1
           /\ request \notin AckStatuses => Changed(r, request, loaded).count = r.count
           /\ r.dismissed => Changed(r, request, loaded).dismissed
<1>1. CASE request \in AckStatuses
  <2> DEFINE read == r.read \/ (request = "opened" /\ ~loaded.read)
             status == IF loaded.status = request THEN r.status ELSE request
             reached == r.reached \cup {request}
             count == loaded.count + 1
  <2>1. Changed(r, request, loaded) =
            [r EXCEPT !.reached = reached, !.read = read, !.status = status, !.count = count]
    BY <1>1 DEF Changed, AckStatuses
  <2>2. reached \subseteq AckStatuses /\ status \in AckStatuses \cup {"queued"} /\ count \in Nat
    BY <1>1 DEF RecipientRows
  <2>3. read \in BOOLEAN
    OBVIOUS
  <2> HIDE DEF read, status, reached, count
  <2>4. [r EXCEPT !.reached = reached, !.read = read, !.status = status, !.count = count]
            \in RecipientRows
    BY <2>2, <2>3 DEF RecipientRows
  <2>5. /\ Changed(r, request, loaded).count = count
        /\ Changed(r, request, loaded).dismissed = r.dismissed
    BY <2>1 DEF RecipientRows
  <2> QED BY <1>1, <2>1, <2>4, <2>5 DEF count
<1>2. CASE request \in {"read", "read-all"}
  <2>1. Changed(r, request, loaded) = [r EXCEPT !.read = TRUE]
    BY <1>2 DEF Changed, AckStatuses
  <2> QED BY <1>2, <2>1 DEF RecipientRows, AckStatuses
<1>3. CASE request = "unread"
  <2> DEFINE read == r.read /\ ~loaded.read
  <2>1. Changed(r, request, loaded) = [r EXCEPT !.read = read] /\ read \in BOOLEAN
    BY <1>3 DEF Changed, AckStatuses
  <2> HIDE DEF read
  <2> QED BY <1>3, <2>1 DEF RecipientRows, AckStatuses
<1>4. CASE request = "dismiss"
  <2>1. Changed(r, request, loaded) = [r EXCEPT !.dismissed = TRUE]
    BY <1>4 DEF Changed, AckStatuses
  <2> QED BY <1>4, <2>1 DEF RecipientRows, AckStatuses
<1> QED BY <1>1, <1>2, <1>3, <1>4 DEF Requests

(* What a request commits, row by row. *)
LEMMA CommitRows ==
    ASSUME TypeInv, NEW s \in Sessions, Commit(s)
    PROVE  /\ session[s].request \in Requests \cup {"read-all"}
           /\ session[s].loaded \in RecipientRows
           /\ session[s].user \in Users
           /\ recipient' \in [Notifications -> [Recipients -> RecipientRows \cup {None}]]
           /\ \A n \in Notifications, t \in Recipients :
                 IF <<n, t>> \in session[s].of
                 THEN /\ recipient[n][t] \in RecipientRows
                      /\ recipient'[n][t] \in RecipientRows
                      /\ recipient'[n][t] =
                            Changed(recipient[n][t], session[s].request, session[s].loaded)
                 ELSE recipient'[n][t] = recipient[n][t]
<1>1. /\ session[s].request \in Requests \cup {"read-all"}
      /\ session[s].loaded \in RecipientRows
      /\ session[s].user \in Users
  BY DEF Commit, TypeInv, InAppTypeOK, InboxTypeOK, SessionStates, SessionsReal
<1>2. recipient \in [Notifications -> [Recipients -> RecipientRows \cup {None}]]
  BY DEF TypeInv, InAppTypeOK, StoreTypeOK
<1>3. \A n \in Notifications, t \in Recipients :
          <<n, t>> \in session[s].of => recipient[n][t] \in RecipientRows
  BY DEF Commit, TypeInv, SessionsReal
<1>4. recipient' = [n \in Notifications |-> [t \in Recipients |->
               IF <<n, t>> \in session[s].of
               THEN Changed(recipient[n][t], session[s].request, session[s].loaded)
               ELSE recipient[n][t]]]
  BY DEF Commit
<1>5. ASSUME NEW n \in Notifications, NEW t \in Recipients
      PROVE  /\ recipient'[n][t] \in RecipientRows \cup {None}
             /\ IF <<n, t>> \in session[s].of
                THEN /\ recipient[n][t] \in RecipientRows
                     /\ recipient'[n][t] \in RecipientRows
                     /\ recipient'[n][t] =
                           Changed(recipient[n][t], session[s].request, session[s].loaded)
                ELSE recipient'[n][t] = recipient[n][t]
  <2> HIDE DEF RecipientRows
  <2>1. CASE <<n, t>> \in session[s].of
    <3>1. recipient'[n][t] = Changed(recipient[n][t], session[s].request, session[s].loaded)
      BY <1>4, <2>1
    <3> QED BY <2>1, <3>1, <1>1, <1>3, ChangedRow
  <2>2. CASE <<n, t>> \notin session[s].of
    BY <2>2, <1>2, <1>4
  <2> QED BY <2>1, <2>2
<1>6. recipient' \in [Notifications -> [Recipients -> RecipientRows \cup {None}]]
  BY <1>4, <1>5
<1> QED BY <1>1, <1>5, <1>6

(* The attempt is the first, so no recipient had a row before. *)
LEMMA DeliverRows ==
    ASSUME TypeInv, NEW w \in Workers, Deliver(w)
    PROVE  /\ worker[w].of \in Notifications /\ worker[w].picked \subseteq Recipients
           /\ attempt[worker[w].of] = None /\ inApp[worker[w].of] = 0
           /\ recipient' \in [Notifications -> [Recipients -> RecipientRows \cup {None}]]
           /\ \A n \in Notifications, t \in Recipients :
                 recipient'[n][t] = IF n = worker[w].of /\ t \in worker[w].picked
                                    THEN NewRecipient ELSE recipient[n][t]
<1>1. /\ worker[w].of \in Notifications /\ worker[w].picked \subseteq Recipients
      /\ attempt[worker[w].of] = None
  BY DEF Deliver, TypeInv, RowInv, BusyKnown, InAppTypeOK, DeliveryTypeOK, WorkerStates,
         AttemptTaken
<1>2. inApp[worker[w].of] = 0
  BY <1>1 DEF TypeInv, RowInv, Shapes, RowsHaveAttempts
<1>3. recipient \in [Notifications -> [Recipients -> RecipientRows \cup {None}]]
  BY DEF TypeInv, InAppTypeOK, StoreTypeOK
<1>4. NewRecipient \in RecipientRows
  BY DEF NewRecipient, RecipientRows, AckStatuses
<1> HIDE DEF RecipientRows, NewRecipient
<1>5. recipient' = [recipient EXCEPT ![worker[w].of] =
           [t \in Recipients |-> IF t \in worker[w].picked THEN NewRecipient
                                 ELSE recipient[worker[w].of][t]]]
  BY DEF Deliver
<1>6. \A n \in Notifications, t \in Recipients :
                 recipient'[n][t] = IF n = worker[w].of /\ t \in worker[w].picked
                                    THEN NewRecipient ELSE recipient[n][t]
  BY <1>1, <1>3, <1>5
<1>7. recipient' \in [Notifications -> [Recipients -> RecipientRows \cup {None}]]
  <2> DEFINE new == [t \in Recipients |-> IF t \in worker[w].picked THEN NewRecipient
                                          ELSE recipient[worker[w].of][t]]
  <2>1. new \in [Recipients -> RecipientRows \cup {None}]
    BY <1>1, <1>3, <1>4
  <2>2. recipient' = [recipient EXCEPT ![worker[w].of] = new]
    BY <1>5
  <2> HIDE DEF new
  <2> QED BY <1>3, <2>1, <2>2
<1> QED BY <1>1, <1>2, <1>6, <1>7

LEMMA InboxTypeStep ==
    ASSUME TypeInv, [Next]_vars
    PROVE  /\ recipient' \in [Notifications -> [Recipients -> RecipientRows \cup {None}]]
           /\ acks' \in [Notifications -> [Recipients -> SUBSET Nat]]
<1>1. /\ recipient \in [Notifications -> [Recipients -> RecipientRows \cup {None}]]
      /\ acks \in [Notifications -> [Recipients -> SUBSET Nat]]
  BY DEF TypeInv, InAppTypeOK, StoreTypeOK
<1>2. ASSUME NEW w \in Workers, Deliver(w)
      PROVE  /\ recipient' \in [Notifications -> [Recipients -> RecipientRows \cup {None}]]
             /\ acks' = acks
  BY <1>2, DeliverRows DEF Deliver
<1>3. ASSUME NEW s \in Sessions, Commit(s)
      PROVE  /\ recipient' \in [Notifications -> [Recipients -> RecipientRows \cup {None}]]
             /\ acks' \in [Notifications -> [Recipients -> SUBSET Nat]]
  <2>1. session[s].loaded.count \in Nat
    BY <1>3, CommitRows DEF RecipientRows
  <2>2. AckNumber(session[s].loaded) \in Nat
    BY <2>1 DEF AckNumber
  <2>3. acks' = [n \in Notifications |-> [t \in Recipients |->
               IF <<n, t>> \in session[s].of /\ session[s].request \in AckStatuses
               THEN acks[n][t] \cup {AckNumber(session[s].loaded)}
               ELSE acks[n][t]]]
    BY <1>3 DEF Commit
  <2> HIDE DEF AckNumber
  <2>4. acks' \in [Notifications -> [Recipients -> SUBSET Nat]]
    BY <1>1, <2>2, <2>3
  <2> QED BY <1>3, <2>4, CommitRows
<1> QED BY <1>1, <1>2, <1>3, RecipientWriters

LEMMA PreferenceStep ==
    ASSUME TypeInv, [Next]_vars
    PROVE  /\ preference' \in [Users -> [EventKeys -> {None, "allow", "deny"}]]
           /\ disturbed' \in BOOLEAN
<1>1. /\ preference \in [Users -> [EventKeys -> {None, "allow", "deny"}]]
      /\ disturbed \in BOOLEAN
  BY DEF TypeInv, InAppTypeOK, StoreTypeOK
<1>2. CASE \E n \in Notifications : Accepting(n) \/ Driving(n)
  BY <1>1, <1>2 DEF Accepting, Accept, Driving, Reconcile, Repeat, RetryNotification, Disturb,
                    inboxRows
<1>3. CASE DeliveryNext /\ UNCHANGED session
  BY <1>1, <1>3 DEF DeliveryNext, Processing, Claim, ContentRefused, FindNone, FindDuplicate,
              FindConflict, LookUp, Insert, Abort, RecipientRefused, CreateInAppDelivery,
              Deliver, ConfirmDuplicate, RecordFailure, AttemptConflict, Discard, Load, Take,
              Crash, ExpireLease, Disturb, storeVars, inboxRows
<1>4. CASE \/ \E u \in Users : Connecting(u)
           \/ StreamNext /\ UNCHANGED <<worker, session>>
           \/ UNCHANGED vars
  BY <1>1, <1>4 DEF Connecting, Connect, StreamNext, Replay, Show, Heartbeat, Disconnect,
              vars, storeVars, inboxRows
<1>5. CASE InboxNext /\ UNCHANGED worker
  <2>1. UNCHANGED disturbed
    BY <1>5 DEF InboxNext, BeginRequest, BeginReadAll, Start, Commit, UpdatePreference
  <2>2. \/ UNCHANGED preference
        \/ \E u \in Users, key \in EventKeys, enabled \in {"allow", "deny"} :
              preference' = [preference EXCEPT ![u][key] = enabled]
    BY <1>5 DEF InboxNext, BeginRequest, BeginReadAll, Start, Commit, UpdatePreference, inboxRows
  <2> HIDE DEF EventKeys
  <2>3. ASSUME NEW u \in Users, NEW key \in EventKeys, NEW enabled \in {"allow", "deny"},
               preference' = [preference EXCEPT ![u][key] = enabled]
        PROVE  preference' \in [Users -> [EventKeys -> {None, "allow", "deny"}]]
    BY <1>1, <2>3
  <2> QED BY <1>1, <2>1, <2>2, <2>3
<1> QED BY <1>2, <1>3, <1>4, <1>5 DEF Next

LEMMA SessionTypeStep == ASSUME TypeInv, [Next]_vars PROVE InboxTypeOK' /\ SessionsReal'
<1>1. session \in [Sessions -> SessionStates]
  BY DEF TypeInv, InAppTypeOK, InboxTypeOK
<1>2. recipient \in [Notifications -> [Recipients -> RecipientRows \cup {None}]]
  BY DEF TypeInv, InAppTypeOK, StoreTypeOK
(* A row that is there stays there. *)
<1>3. \A n \in Notifications, t \in Recipients :
          recipient[n][t] \in RecipientRows => recipient'[n][t] \in RecipientRows
  <2>1. NewRecipient \in RecipientRows
    BY DEF NewRecipient, RecipientRows, AckStatuses
  <2> HIDE DEF RecipientRows
  <2>2. ASSUME NEW w \in Workers, Deliver(w), NEW n \in Notifications, NEW t \in Recipients,
               recipient[n][t] \in RecipientRows
        PROVE  recipient'[n][t] \in RecipientRows
    BY <2>1, <2>2, DeliverRows
  <2>3. ASSUME NEW s \in Sessions, Commit(s), NEW n \in Notifications, NEW t \in Recipients,
               recipient[n][t] \in RecipientRows
        PROVE  recipient'[n][t] \in RecipientRows
    BY <2>3, CommitRows
  <2> QED BY <2>2, <2>3, RecipientWriters
<1>4. SessionsReal
  BY DEF TypeInv
<1>5. CASE UNCHANGED session
  BY <1>1, <1>3, <1>4, <1>5 DEF InboxTypeOK, SessionsReal
<1>6. ASSUME NEW s \in Sessions, session' = [session EXCEPT ![s] = IdleSession]
      PROVE  InboxTypeOK' /\ SessionsReal'
  <2>1. IdleSession \in SessionStates
    BY DEF IdleSession, SessionStates, NewRecipient, RecipientRows, AckStatuses
  <2>2. /\ session'[s].request = "none"
        /\ \A x \in Sessions \ {s} : session'[x] = session[x]
    BY <1>1, <1>6 DEF IdleSession
  <2> HIDE DEF IdleSession
  <2> QED BY <1>1, <1>3, <1>4, <1>6, <2>1, <2>2 DEF InboxTypeOK, SessionsReal
<1>7. ASSUME NEW s \in Sessions, NEW u \in Users, NEW request \in Requests \cup {"read-all"},
             NEW of \in SUBSET (Notifications \X Recipients), NEW loaded \in RecipientRows,
             \A n \in Notifications, t \in Recipients :
                 <<n, t>> \in of => t \in Visible(n, u),
             Start(s, request, u, of, loaded)
      PROVE  InboxTypeOK' /\ SessionsReal'
  <2> DEFINE new == [request |-> request, user |-> u, of |-> of, loaded |-> loaded]
  <2>1. session' = [session EXCEPT ![s] = new]
    BY <1>7 DEF Start
  <2>2. new \in SessionStates /\ new.user = u /\ new.of = of
    BY DEF SessionStates
  <2>3. UNCHANGED recipient
    BY <1>7 DEF Start, inboxRows
  <2>4. \A n \in Notifications, t \in Recipients :
            <<n, t>> \in of => t \in {u, Everyone} /\ recipient[n][t] \in RecipientRows
    BY <1>2, <1>7 DEF Visible
  <2> HIDE DEF new
  <2> QED BY <1>1, <1>4, <2>1, <2>2, <2>3, <2>4 DEF InboxTypeOK, SessionsReal
<1>8. ASSUME NEW s \in Sessions, NEW u \in Users,
             \/ \E n \in Notifications, request \in Requests : BeginRequest(s, request, u, n)
             \/ BeginReadAll(s, u)
      PROVE  InboxTypeOK' /\ SessionsReal'
  <2>1. ASSUME NEW n \in Notifications, NEW request \in Requests, BeginRequest(s, request, u, n)
        PROVE  InboxTypeOK' /\ SessionsReal'
    <3>1. PICK t \in Visible(n, u) : Start(s, request, u, {<<n, t>>}, recipient[n][t])
      BY <2>1 DEF BeginRequest
    <3>2. t \in Recipients /\ recipient[n][t] \in RecipientRows
      BY <1>2, <3>1 DEF Visible, Recipients
    <3> QED BY <1>7, <3>1, <3>2
  <2>2. CASE BeginReadAll(s, u)
    <3> DEFINE of == {r \in Notifications \X {u, Everyone} :
              /\ r[2] \in Visible(r[1], u)
              /\ ~recipient[r[1]][r[2]].dismissed /\ ~recipient[r[1]][r[2]].read}
    <3>1. Start(s, "read-all", u, of, NewRecipient)
      BY <2>2 DEF BeginReadAll
    <3>2. of \in SUBSET (Notifications \X Recipients)
      BY DEF Recipients
    <3>3. \A n \in Notifications, t \in Recipients : <<n, t>> \in of => t \in Visible(n, u)
      OBVIOUS
    <3>4. NewRecipient \in RecipientRows
      BY DEF NewRecipient, RecipientRows, AckStatuses
    <3> HIDE DEF of
    <3> QED BY <1>7, <3>1, <3>2, <3>3, <3>4
  <2> QED BY <1>8, <2>1, <2>2
<1>9. \A s \in Sessions : Commit(s) => session' = [session EXCEPT ![s] = IdleSession]
  BY DEF Commit
<1> QED BY <1>5, <1>6, <1>8, <1>9, SessionWriters

(* A bounded queue of a listener, and what is offered to it. *)
OneStream(x) == x \in Streams /\ Len(x.queue) <= QueueSize

LEMMA OfferKeeps ==
    ASSUME StreamTypeOK, NEW u \in Users, NEW n \in Notifications
    PROVE  /\ OneStream(Offer(u, n))
           /\ Offer(u, n).stage = stream[u].stage
           /\ Offer(u, n).shown = stream[u].shown
           /\ stream[u].waived \subseteq Offer(u, n).waived
           /\ \A i \in DOMAIN stream[u].queue :
                 i \in DOMAIN Offer(u, n).queue /\ Offer(u, n).queue[i] = stream[u].queue[i]
           /\ \A i \in DOMAIN Offer(u, n).queue :
                 \/ i \in DOMAIN stream[u].queue
                 \/ Offer(u, n).queue[i] = n
           /\ Listening(u) => \/ n \in Offer(u, n).waived
                              \/ \E i \in DOMAIN Offer(u, n).queue : Offer(u, n).queue[i] = n
<1>1. stream[u] \in Streams /\ Len(stream[u].queue) \in 0 .. QueueSize
  BY QueueSizeAssumption DEF StreamTypeOK, Streams
<1>2. stream[u].queue \in Seq(Notifications)
  BY <1>1 DEF Streams
<1>3. CASE ~Listening(u)
  BY <1>1, <1>3, QueueSizeAssumption DEF Offer, OneStream
<1>4. CASE Listening(u) /\ Full(u)
  <2>1. Offer(u, n) = [stream[u] EXCEPT !.waived = stream[u].waived \cup {n}]
    BY <1>4 DEF Offer
  <2>2. Offer(u, n) \in Streams
    BY <1>1, <2>1 DEF Streams
  <2>3. /\ Offer(u, n).queue = stream[u].queue /\ Offer(u, n).stage = stream[u].stage
        /\ Offer(u, n).shown = stream[u].shown
        /\ Offer(u, n).waived = stream[u].waived \cup {n}
    BY <1>1, <2>1 DEF Streams
  <2> QED BY <1>1, <2>2, <2>3, QueueSizeAssumption DEF OneStream
<1>5. CASE Listening(u) /\ ~Full(u)
  <2> DEFINE longer == Append(stream[u].queue, n)
  <2>1. /\ longer \in Seq(Notifications) /\ Len(longer) = Len(stream[u].queue) + 1
        /\ \A i \in 1 .. Len(stream[u].queue) : longer[i] = stream[u].queue[i]
        /\ longer[Len(stream[u].queue) + 1] = n
    BY <1>2
  <2>2. DOMAIN longer = 1 .. Len(longer) /\ DOMAIN stream[u].queue = 1 .. Len(stream[u].queue)
    BY <1>2, <2>1
  <2>3. Offer(u, n) = [stream[u] EXCEPT !.queue = longer]
    BY <1>5 DEF Offer
  <2> HIDE DEF longer
  <2>4. Offer(u, n) \in Streams
    BY <1>1, <2>1, <2>3 DEF Streams
  <2>5. /\ Offer(u, n).queue = longer /\ Offer(u, n).stage = stream[u].stage
        /\ Offer(u, n).shown = stream[u].shown /\ Offer(u, n).waived = stream[u].waived
    BY <1>1, <2>3 DEF Streams
  <2>6. Len(longer) <= QueueSize
    BY <1>1, <1>5, <2>1, QueueSizeAssumption DEF Full
  <2>7. OneStream(Offer(u, n))
    BY <2>4, <2>5, <2>6 DEF OneStream
  <2>8. /\ \A i \in DOMAIN stream[u].queue : i \in DOMAIN longer /\ longer[i] = stream[u].queue[i]
        /\ \A i \in DOMAIN longer : i \in DOMAIN stream[u].queue \/ longer[i] = n
        /\ \E i \in DOMAIN longer : longer[i] = n
    BY <1>1, <2>1, <2>2
  <2> QED BY <2>5, <2>7, <2>8
<1> QED BY <1>3, <1>4, <1>5

(* Whatever page it reads, a replay sends active notifications, and waives *)
(* the other ones.                                                         *)
LEMMA ReplaySends ==
    ASSUME StreamTypeOK, NEW u \in Users, Replay(u)
    PROVE  \E replayed \in SUBSET Active(u), id \in {0} \cup Active(u) :
              stream' = [stream EXCEPT
                  ![u] = [stream[u] EXCEPT !.stage = "live", !.last = id,
                             !.shown = stream[u].shown \cup replayed,
                             !.waived = stream[u].waived \cup (Active(u) \ replayed)]]
<1>1. PICK page \in Pages(u) :
         LET replayed == Replayed(u, page)
         IN  \E id \in IF replayed = {} THEN {0} ELSE replayed :
                 stream' = [stream EXCEPT
                     ![u].stage = "live", ![u].last = id,
                     ![u].shown = @ \cup replayed,
                     ![u].waived = @ \cup (Active(u) \ replayed)]
  BY DEF Replay
<1>2. Replayed(u, page) \in SUBSET Active(u)
  BY DEF Pages, Replayed
<1>3. PICK replayed : replayed = Replayed(u, page)
  OBVIOUS
<1>4. PICK id \in {0} \cup replayed :
         stream' = [stream EXCEPT
             ![u].stage = "live", ![u].last = id,
             ![u].shown = stream[u].shown \cup replayed,
             ![u].waived = stream[u].waived \cup (Active(u) \ replayed)]
  BY <1>1, <1>3 DEF StreamTypeOK, Streams
<1>5. stream' = [stream EXCEPT
         ![u] = [stream[u] EXCEPT !.stage = "live", !.last = id,
                    !.shown = stream[u].shown \cup replayed,
                    !.waived = stream[u].waived \cup (Active(u) \ replayed)]]
  BY <1>4 DEF StreamTypeOK, Streams
<1> QED BY <1>2, <1>3, <1>5

LEMMA ReplayedStream ==
    ASSUME StreamTypeOK, NEW u \in Users, Replay(u)
    PROVE  /\ stream'[u].queue = stream[u].queue
           /\ stream[u].shown \subseteq stream'[u].shown
           /\ stream'[u].shown \subseteq stream[u].shown \cup Active(u)
           /\ stream[u].waived \subseteq stream'[u].waived
           /\ Active(u) \subseteq stream'[u].shown \cup stream'[u].waived
<1>1. PICK replayed \in SUBSET Active(u), id \in {0} \cup Active(u) :
         stream' = [stream EXCEPT
             ![u] = [stream[u] EXCEPT !.stage = "live", !.last = id,
                        !.shown = stream[u].shown \cup replayed,
                        !.waived = stream[u].waived \cup (Active(u) \ replayed)]]
  BY ReplaySends
<1> DEFINE shown == stream[u].shown \cup replayed
           waived == stream[u].waived \cup (Active(u) \ replayed)
<1>2. stream[u] \in Streams /\ stream \in [Users -> Streams]
  BY DEF StreamTypeOK
<1>3. stream'[u] = [stream[u] EXCEPT !.stage = "live", !.last = id,
                      !.shown = shown, !.waived = waived]
  BY <1>1, <1>2
<1> HIDE DEF shown, waived
<1>4. /\ stream'[u].queue = stream[u].queue /\ stream'[u].shown = shown
      /\ stream'[u].waived = waived
  BY <1>2, <1>3 DEF Streams
<1> QED BY <1>4 DEF shown, waived

LEMMA StreamTypeStep == ASSUME TypeInv, [Next]_vars PROVE StreamTypeOK'
<1>1. stream \in [Users -> Streams] /\ \A u \in Users : OneStream(stream[u])
  BY DEF TypeInv, InAppTypeOK, StreamTypeOK, OneStream
<1>2. ASSUME NEW f, stream' = [u \in Users |-> f[u]], \A u \in Users : OneStream(f[u])
      PROVE  StreamTypeOK'
  BY <1>2 DEF StreamTypeOK, OneStream
<1>3. ASSUME NEW u \in Users, NEW x, OneStream(x), stream' = [stream EXCEPT ![u] = x]
      PROVE  StreamTypeOK'
  BY <1>1, <1>3 DEF StreamTypeOK, OneStream
<1>4. ASSUME NEW users, NEW n \in Notifications, Publish(users, n) PROVE StreamTypeOK'
  <2> DEFINE f == [u \in Users |-> IF u \in users THEN Offer(u, n) ELSE stream[u]]
  <2>1. \A u \in Users : OneStream(f[u])
    BY <1>1, OfferKeeps DEF TypeInv, InAppTypeOK
  <2>2. stream' = [u \in Users |-> f[u]]
    BY <1>4 DEF Publish
  <2> HIDE DEF f
  <2> QED BY <1>2, <2>1, <2>2
<1>5. ASSUME NEW n \in Notifications, PublishElsewhere(n) PROVE StreamTypeOK'
  <2> DEFINE f == [u \in Users |-> [stream[u] EXCEPT
                  !.waived = IF Listening(u) THEN stream[u].waived \cup {n} ELSE stream[u].waived]]
  <2>1. ASSUME NEW u \in Users PROVE OneStream(f[u])
    <3> DEFINE waived == IF Listening(u) THEN stream[u].waived \cup {n} ELSE stream[u].waived
    <3>1. waived \subseteq Notifications
      BY <1>1 DEF Streams
    <3>2. f[u] = [stream[u] EXCEPT !.waived = waived]
      OBVIOUS
    <3> HIDE DEF waived, f
    <3> QED BY <1>1, <3>1, <3>2 DEF OneStream, Streams
  <2>2. stream' = f
    BY <1>5 DEF PublishElsewhere
  <2>3. stream' = [u \in Users |-> f[u]]
    BY <2>2
  <2> HIDE DEF f
  <2> QED BY <1>2, <2>1, <2>3
<1>6. ASSUME NEW u \in Users, Connecting(u) PROVE StreamTypeOK'
  <2> DEFINE waived == {n \in Notifications : Uncommitted(n)}
             none == <<>>
             stage == "subscribed"
             x == [stream[u] EXCEPT !.stage = stage, !.queue = none, !.waived = waived]
  <2>1. stream' = [stream EXCEPT ![u] = x]
    BY <1>1, <1>6 DEF Connecting, Connect
  <2>2. waived \subseteq Notifications /\ none \in Seq(Notifications) /\ Len(none) = 0
    OBVIOUS
  <2>s. stage \in {"closed", "subscribed", "live"}
    OBVIOUS
  <2> HIDE DEF waived, none, stage
  <2>3. x \in Streams
    BY <1>1, <2>s, <2>2 DEF Streams
  <2>4. x.queue = none
    BY <1>1 DEF Streams
  <2>5. OneStream(x)
    BY <2>2, <2>3, <2>4, QueueSizeAssumption DEF OneStream
  <2> HIDE DEF x
  <2> QED BY <1>3, <2>1, <2>5
<1>7. ASSUME NEW u \in Users, Replay(u) PROVE StreamTypeOK'
  <2>1. PICK replayed \in SUBSET Active(u), id \in {0} \cup Active(u) :
            stream' = [stream EXCEPT ![u] =
                [stream[u] EXCEPT !.stage = "live", !.last = id,
                          !.shown = stream[u].shown \cup replayed,
                          !.waived = stream[u].waived \cup (Active(u) \ replayed)]]
    BY <1>1, <1>7, ReplaySends DEF TypeInv, InAppTypeOK
  <2>2. id \in Nat /\ replayed \subseteq Notifications /\ Active(u) \subseteq Notifications
    BY <2>1, NotificationsAssumption DEF Active
  <2> DEFINE shown == stream[u].shown \cup replayed
             waived == stream[u].waived \cup (Active(u) \ replayed)
             x == [stream[u] EXCEPT !.stage = "live", !.last = id, !.shown = shown, !.waived = waived]
  <2>3. shown \subseteq Notifications /\ waived \subseteq Notifications
    BY <1>1, <2>2 DEF Streams
  <2>4. stream' = [stream EXCEPT ![u] = x]
    BY <1>1, <2>1 DEF Streams
  <2> HIDE DEF shown, waived
  <2>5. OneStream(x)
    BY <1>1, <2>2, <2>3 DEF OneStream, Streams
  <2> HIDE DEF x
  <2> QED BY <1>3, <2>4, <2>5
<1>8. ASSUME NEW u \in Users, Show(u) PROVE StreamTypeOK'
  <2> DEFINE rest == Tail(stream[u].queue)
             n == Head(stream[u].queue)
             shown == stream[u].shown \cup {n}
             x == [stream[u] EXCEPT !.queue = rest, !.last = n, !.shown = shown]
  <2>1. stream[u].queue \in Seq(Notifications) /\ stream[u].queue # <<>>
    BY <1>1, <1>8 DEF Show, Streams
  <2>2. rest \in Seq(Notifications) /\ Len(rest) = Len(stream[u].queue) - 1 /\ n \in Notifications
    BY <2>1
  <2>3. shown \subseteq Notifications /\ n \in Nat
    BY <1>1, <2>2, NotificationsAssumption DEF Streams
  <2>4. Len(rest) <= QueueSize
    BY <1>1, <2>1, <2>2, QueueSizeAssumption DEF OneStream
  <2>5. stream' = [stream EXCEPT ![u] = x]
    BY <1>1, <1>8 DEF Show, Streams
  <2> HIDE DEF rest, n, shown
  <2>6. OneStream(x)
    BY <1>1, <2>2, <2>3, <2>4 DEF OneStream, Streams
  <2> HIDE DEF x
  <2> QED BY <1>3, <2>5, <2>6
<1>9. ASSUME NEW u \in Users, Heartbeat(u) PROVE StreamTypeOK'
  <2>1. stream' = [stream EXCEPT ![u] = [stream[u] EXCEPT !.last = 0]]
    BY <1>1, <1>9 DEF Heartbeat
  <2>2. OneStream([stream[u] EXCEPT !.last = 0])
    BY <1>1 DEF OneStream, Streams
  <2> QED BY <1>3, <2>1, <2>2
<1>10. ASSUME NEW u \in Users, Disconnect(u) PROVE StreamTypeOK'
  <2> DEFINE none == <<>>
             stage == "closed"
             x == [stream[u] EXCEPT !.stage = stage, !.queue = none, !.waived = {}]
  <2>1. stream' = [stream EXCEPT ![u] = x]
    BY <1>1, <1>10 DEF Disconnect
  <2>2. none \in Seq(Notifications) /\ Len(none) = 0
    OBVIOUS
  <2>s. stage \in {"closed", "subscribed", "live"}
    OBVIOUS
  <2> HIDE DEF none, stage
  <2>3. x \in Streams
    BY <1>1, <2>s, <2>2 DEF Streams
  <2>4. x.queue = none
    BY <1>1 DEF Streams
  <2>5. OneStream(x)
    BY <2>2, <2>3, <2>4, QueueSizeAssumption DEF OneStream
  <2> HIDE DEF x
  <2> QED BY <1>3, <2>1, <2>5
<1>11. ASSUME NEW w \in Workers, NEW picked, Insert(w), CreateInAppDelivery(w, picked)
       PROVE  StreamTypeOK'
  <2>1. worker[w].of \in Notifications
    BY <1>11 DEF Insert, TypeInv, RowInv, BusyKnown
  <2> QED BY <1>4, <1>5, <1>11, <2>1 DEF CreateInAppDelivery
<1>12. ASSUME NEW s \in Sessions, Commit(s) PROVE StreamTypeOK'
  <2>1. \A r \in session[s].of : r[1] \in Notifications
    BY DEF TypeInv, InAppTypeOK, InboxTypeOK, SessionStates
  <2>2. CASE UNCHANGED stream
    BY <1>1, <2>2 DEF StreamTypeOK, OneStream
  <2>3. CASE \E r \in session[s].of : Publish({session[s].user}, r[1])
    BY <1>4, <2>1, <2>3
  <2> QED BY <1>12, <2>2, <2>3 DEF Commit
<1>13. CASE UNCHANGED stream
  BY <1>1, <1>13 DEF StreamTypeOK, OneStream
<1>14. CASE StreamNext /\ UNCHANGED <<worker, session>>
  BY <1>7, <1>8, <1>9, <1>10, <1>14 DEF StreamNext
<1> QED BY <1>6, <1>11, <1>12, <1>13, <1>14, StreamWriters

LEMMA TypeStarts == Init => TypeInv
<1>1. Init => BudgetOK /\ BodiesKnown /\ SessionsReal
  BY ScenariosAssumption DEF Init, StoreInit, InboxInit, BudgetOK, BodiesKnown, AbsentRow,
         SessionsReal, IdleSession
<1>2. Init => StoreTypeOK
  <2> SUFFICES ASSUME Init PROVE StoreTypeOK
    OBVIOUS
  <2>1. AbsentRow \in Rows
    BY DEF AbsentRow, Rows, Statuses
  <2> HIDE DEF Rows, AbsentRow, RecipientRows
  <2> QED BY <2>1 DEF Init, StoreInit, StoreTypeOK
<1>3. Init => StreamTypeOK
  <2> DEFINE x == [stage |-> "closed", queue |-> <<>>, last |-> 0, shown |-> {}, waived |-> {}]
  <2>1. x \in Streams /\ Len(x.queue) = 0
    BY DEF Streams
  <2> HIDE DEF x
  <2>2. Init => stream = [u \in Users |-> x]
    BY DEF Init, StreamInit, x
  <2> QED BY <2>1, <2>2, QueueSizeAssumption DEF StreamTypeOK
<1>4. Init => DeliveryTypeOK
  BY DEF Init, DeliveryInit, DeliveryTypeOK, IdleWorker, WorkerStates, Statuses
<1>5. Init => InboxTypeOK
  <2>1. NewRecipient \in RecipientRows
    BY DEF NewRecipient, RecipientRows, AckStatuses
  <2>2. IdleSession \in SessionStates
    BY <2>1 DEF IdleSession, SessionStates
  <2> QED BY <2>2 DEF Init, InboxInit, InboxTypeOK
<1> QED BY <1>1, <1>2, <1>3, <1>4, <1>5, RowStarts
       DEF TypeInv, InAppTypeOK, MessagesKnown, Init, StoreInit

LEMMA TypeStep == ASSUME TypeInv, [Next]_vars PROVE TypeInv'
<1>1. RowInv' /\ MessagesKnown'
  BY RowsStep, MessagesStep DEF TypeInv
<1>2. StoreTypeOK'
  BY <1>1, RowTypeStep, AttemptTypeStep, InboxTypeStep, PreferenceStep
     DEF StoreTypeOK, RowInv, Shapes, MessagesKnown
<1> QED BY <1>1, <1>2, RowTypeStep, BudgetStep, WorkerTypeStep, SessionTypeStep, StreamTypeStep
        DEF TypeInv, InAppTypeOK

LEMMA TypeInvariant == Spec => []TypeInv
<1>1. TypeInv /\ [Next]_vars => TypeInv'
  BY TypeStep
<1> QED BY <1>1, TypeStarts, PTL DEF Spec

(* What in-app delivery keeps in its tables, in its tasks and in the       *)
(* streams of clients stays well-typed.                                    *)
THEOREM InAppTypes == Spec => []InAppTypeOK
<1>1. TypeInv => InAppTypeOK
  BY DEF TypeInv
<1> QED BY <1>1, TypeInvariant, PTL

-----------------------------------------------------------------------------
(* What becomes of one notification in a step. *)
Kept(n) == row'[n] = row[n]
Queued(n) == row'[n].status = "queued"
Leased(n) == row'[n].lease = "live" /\ \E w \in Workers : Claim(w) /\ worker[w].of = n
Lapsed(n) == row'[n].status = row[n].status /\ ExpireLease(n) /\ row'[n].lease = "past"
Arrived(n) == row'[n].status = "delivered" /\ \E w \in Workers : Deliver(w) /\ worker[w].of = n
Failed(n) == row'[n].status = "failed" /\ \E w \in Workers : RecordFailure(w) /\ worker[w].of = n
Confirmed(n) ==
    /\ row'[n].status = row[n].status
    /\ \E w \in Workers : ConfirmDuplicate(w) /\ worker[w].of = n

LEMMA RowFate ==
    ASSUME TypeInv, [Next]_vars, NEW n \in Notifications
    PROVE  \/ Kept(n) \/ Queued(n) \/ Leased(n) \/ Lapsed(n)
           \/ Arrived(n) \/ Failed(n) \/ Confirmed(n)
<1> DEFINE Fate == \/ Kept(n) \/ Queued(n) \/ Leased(n) \/ Lapsed(n)
                   \/ Arrived(n) \/ Failed(n) \/ Confirmed(n)
<1>1. row \in [Notifications -> Rows]
  BY DEF TypeInv, InAppTypeOK, StoreTypeOK
<1>2. DOMAIN row = Notifications /\ \A m \in Notifications : DOMAIN row[m] = {"status", "lease", "body"}
  BY DEF TypeInv, RowInv, Shapes
<1>3. ASSUME NEW w \in Workers, worker[w].stage # "idle" PROVE worker[w].of \in Notifications
  BY <1>3 DEF TypeInv, RowInv, BusyKnown
<1>4. CASE UNCHANGED row
  BY <1>4 DEF Kept
<1>5. ASSUME NEW m \in Notifications, Accept(m) \/ Driving(m) PROVE Fate
  <2>1. CASE Accept(m)
    BY <1>2, <2>1 DEF Accept, Kept, Queued
  <2>2. CASE Driving(m)
    BY <1>2, <2>2 DEF Driving, Reconcile, Repeat, RetryNotification, Requeue, Kept, Queued
  <2> QED BY <1>5, <2>1, <2>2
<1>6. ASSUME NEW w \in Workers, Claim(w) PROVE Fate
  BY <1>2, <1>3, <1>6 DEF Claim, Kept, Leased
<1>7. ASSUME NEW w \in Workers, Deliver(w) PROVE Fate
  BY <1>2, <1>3, <1>7 DEF Deliver, Ending, Kept, Arrived
<1>8. ASSUME NEW w \in Workers, RecordFailure(w) PROVE Fate
  BY <1>2, <1>3, <1>8 DEF RecordFailure, Ending, Kept, Failed
<1>9. ASSUME NEW w \in Workers, ConfirmDuplicate(w) PROVE Fate
  BY <1>2, <1>3, <1>9 DEF ConfirmDuplicate, Released, Kept, Confirmed
<1>10. ASSUME NEW m \in Notifications, ExpireLease(m) PROVE Fate
  BY <1>2, <1>10 DEF ExpireLease, Kept, Lapsed
<1>11. ASSUME NEW w \in Workers, Processing(w) PROVE Fate
  <2>1. CASE \/ ContentRefused(w) \/ FindNone(w) \/ FindDuplicate(w) \/ FindConflict(w)
             \/ Insert(w) \/ AttemptConflict(w)
    <3>1. UNCHANGED row
      BY <2>1 DEF ContentRefused, FindNone, FindDuplicate, FindConflict, LookUp, Insert, Abort,
                RecipientRefused, CreateInAppDelivery, AttemptConflict, storeVars, deliveryRows
    <3> QED BY <1>4, <3>1
  <2> QED BY <1>6, <1>7, <1>8, <1>9, <1>11, <2>1 DEF Processing
<1>12. CASE \/ \E w \in Workers, m \in Notifications : Discard(w, m) \/ Load(w, m)
            \/ \E w \in Workers : Crash(w)
            \/ \E u \in Users : Connecting(u)
            \/ StreamNext /\ UNCHANGED <<worker, session>>
            \/ InboxNext /\ UNCHANGED worker
            \/ UNCHANGED vars
  <2>1. UNCHANGED row
    BY <1>12 DEF Discard, Load, Take, Crash, Connecting, Connect, StreamNext, Replay, Show,
              Heartbeat, Disconnect, InboxNext, BeginRequest, BeginReadAll, Start, Commit,
              UpdatePreference, vars, storeVars, deliveryRows
  <2> QED BY <1>4, <2>1
<1> HIDE DEF Fate
<1> QED BY <1>5, <1>10, <1>11, <1>12 DEF Next, DeliveryNext, Accepting, Fate

(* An attempt that is recorded is never rewritten, nor is an inbox row     *)
(* deleted.                                                                *)
LEMMA AttemptsAreFinal ==
    ASSUME TypeInv, [Next]_vars, NEW n \in Notifications
    PROVE  /\ attempt[n] # None => attempt'[n] = attempt[n]
           /\ inApp'[n] >= inApp[n]
<1>1. DOMAIN attempt = Notifications /\ inApp \in [Notifications -> Nat]
  BY DEF TypeInv, RowInv, Shapes
<1>2. ASSUME NEW w \in Workers, Deliver(w) \/ ConfirmDuplicate(w) \/ RecordFailure(w)
      PROVE  /\ attempt[n] # None => attempt'[n] = attempt[n]
             /\ inApp'[n] >= inApp[n]
  <2>1. worker[w].of \in Notifications /\ attempt[worker[w].of] = None
    BY <1>2 DEF Deliver, ConfirmDuplicate, RecordFailure, AttemptTaken, TypeInv, RowInv, BusyKnown
  <2>2. attempt[n] # None => attempt'[n] = attempt[n]
    BY <1>1, <1>2, <2>1 DEF Deliver, ConfirmDuplicate, RecordFailure
  <2>3. \/ inApp' = inApp
        \/ inApp' = [inApp EXCEPT ![worker[w].of] = @ + 1]
    BY <1>2 DEF Deliver, ConfirmDuplicate, RecordFailure
  <2>4. inApp'[n] >= inApp[n]
    BY <1>1, <2>1, <2>3
  <2> QED BY <2>2, <2>4
<1> QED BY <1>1, <1>2, AttemptWriters

-----------------------------------------------------------------------------
(* Only a delivered attempt has recipient rows, and DELIVERED is written   *)
(* with the attempt and the inbox row in one transaction.                  *)
ReachedWasDelivered ==
    \A n \in Notifications, t \in Recipients :
        recipient[n][t] # None => attempt[n] = "delivered"

DeliveredIsStored ==
    \A n \in Notifications :
        row[n].status = "delivered" => attempt[n] = "delivered" /\ inApp[n] = 1

OutcomeInv == TypeInv /\ ReachedWasDelivered /\ DeliveredIsStored

LEMMA OutcomeStep == ASSUME OutcomeInv, [Next]_vars PROVE OutcomeInv'
<1>1. TypeInv /\ TypeInv'
  BY TypeStep DEF OutcomeInv
<1>2. \A n \in Notifications : attempt[n] = "delivered" => attempt'[n] = "delivered"
  BY <1>1, NoneAssumption, AttemptsAreFinal
<1>3. ReachedWasDelivered'
  <2>1. ASSUME NEW w \in Workers, Deliver(w) PROVE ReachedWasDelivered'
    <3>1. attempt'[worker[w].of] = "delivered"
      BY <1>1, <2>1, DeliverRows DEF Deliver, TypeInv, RowInv, Shapes
    <3> HIDE DEF NewRecipient
    <3> QED BY <1>1, <1>2, <2>1, <3>1, DeliverRows DEF OutcomeInv, ReachedWasDelivered
  <2>2. ASSUME NEW s \in Sessions, Commit(s) PROVE ReachedWasDelivered'
    <3>1. ASSUME NEW n \in Notifications, NEW t \in Recipients, recipient'[n][t] # None
          PROVE  recipient[n][t] # None
      BY <1>1, <2>2, <3>1, CommitRows, NoRowAssumption
    <3> QED BY <1>2, <3>1 DEF OutcomeInv, ReachedWasDelivered
  <2> QED BY <1>2, <2>1, <2>2, RecipientWriters DEF OutcomeInv, ReachedWasDelivered
<1>4. ASSUME NEW n \in Notifications, row'[n].status = "delivered"
      PROVE  attempt'[n] = "delivered" /\ inApp'[n] = 1
  <2>1. CASE row[n].status = "delivered"
    <3>1. attempt'[n] = "delivered" /\ inApp'[n] >= 1
      BY <1>1, <1>2, <2>1, AttemptsAreFinal DEF OutcomeInv, DeliveredIsStored
    <3>2. inApp'[n] \in Nat /\ (inApp'[n] > 0 => inApp'[n] = 1)
      BY <1>1 DEF TypeInv, RowInv, Shapes, RowsHaveAttempts
    <3> QED BY <3>1, <3>2
  <2>2. CASE Arrived(n)
    <3>1. PICK w \in Workers : Deliver(w) /\ worker[w].of = n
      BY <2>2 DEF Arrived
    <3>2. inApp[n] = 0
      BY <1>1, <3>1, DeliverRows
    <3> QED BY <1>1, <3>1, <3>2 DEF Deliver, TypeInv, RowInv, Shapes
  <2>3. CASE Leased(n)
    <3>1. PICK w \in Workers : Claim(w) /\ worker[w].of = n
      BY <2>3 DEF Leased
    <3>2. row[n].status = "delivered"
      BY <1>1, <1>4, <3>1 DEF Claim, TypeInv, RowInv, Shapes
    <3> QED BY <2>1, <3>2
  <2> QED BY <1>1, <1>4, <2>1, <2>2, <2>3, RowFate
          DEF Kept, Queued, Lapsed, Failed, Confirmed
<1> QED BY <1>1, <1>3, <1>4 DEF OutcomeInv, DeliveredIsStored

LEMMA OutcomeInvariant == Spec => []OutcomeInv
<1>1. Init => ReachedWasDelivered /\ DeliveredIsStored
  BY DEF Init, StoreInit, AbsentRow, ReachedWasDelivered, DeliveredIsStored
<1>2. OutcomeInv /\ [Next]_vars => OutcomeInv'
  BY OutcomeStep
<1> QED BY <1>1, <1>2, TypeStarts, PTL DEF Spec, OutcomeInv

(* One attempt for good: a failed one keeps the notification from every    *)
(* inbox whatever operators retry, and DELIVERED stands on a stored row.   *)
THEOREM OneOutcome == Spec => []AttemptTellsOutcome
<1>1. OutcomeInv => AttemptTellsOutcome
  BY DEF OutcomeInv, ReachedWasDelivered, DeliveredIsStored, AttemptTellsOutcome
<1> QED BY <1>1, OutcomeInvariant, PTL

-----------------------------------------------------------------------------
(* The acknowledgements of a recipient are numbered 1 to k; its counter,   *)
(* and the counters that acknowledgements under way have read, are among   *)
(* the numbers given, or 0 before the first.                               *)
Numbered(n, t, k) ==
    /\ acks[n][t] = 1 .. k
    /\ recipient[n][t] \in RecipientRows
           => recipient[n][t].count \in 0 .. k /\ (k > 0 => recipient[n][t].count > 0)
    /\ \A s \in Sessions :
          session[s].request \in AckStatuses /\ <<n, t>> \in session[s].of
              => session[s].loaded.count \in 0 .. k
    /\ attempt[n] # "delivered" => k = 0

AcksNumbered == \A n \in Notifications, t \in Recipients : \E k \in Nat : Numbered(n, t, k)

AckInv == OutcomeInv /\ AcksNumbered

LEMMA AckCommits ==
    ASSUME AckInv, TypeInv', [Next]_vars, NEW s \in Sessions, Commit(s), UNCHANGED worker
    PROVE  AcksNumbered'
<1>1. TypeInv /\ OutcomeInv
  BY DEF AckInv, OutcomeInv
<1>2. session' = [session EXCEPT ![s] = IdleSession] /\ DOMAIN session = Sessions
  BY <1>1 DEF Commit, TypeInv, InAppTypeOK, InboxTypeOK
<1>3. \A x \in Sessions : x = s \/ session'[x] = session[x]
  BY <1>2
<1>4. session'[s].of = {}
  BY <1>2 DEF IdleSession
<1>5. attempt' = attempt
  BY DEF Commit, deliveryRows
<1>6. ASSUME NEW n \in Notifications, NEW t \in Recipients
      PROVE  \E k \in Nat : Numbered(n, t, k)'
  <2>1. PICK k \in Nat : Numbered(n, t, k)
    BY DEF AckInv, AcksNumbered
  <2>2. acks'[n][t] = IF <<n, t>> \in session[s].of /\ session[s].request \in AckStatuses
                      THEN acks[n][t] \cup {AckNumber(session[s].loaded)}
                      ELSE acks[n][t]
    BY DEF Commit
  <2>3. CASE <<n, t>> \in session[s].of /\ session[s].request \in AckStatuses
    <3>0. session[s].loaded.count \in 0 .. k
      BY <2>1, <2>3 DEF Numbered
    <3>c. PICK c \in 1 .. k + 1 : c = session[s].loaded.count + 1
      BY <2>1, <3>0
    <3>m. PICK m \in Nat : m = IF c > k THEN c ELSE k
      BY <2>1, <3>c
    <3>1. m >= k /\ c \in 1 .. m
      BY <2>1, <3>c, <3>m
    <3>2. acks'[n][t] = (1 .. k) \cup {c}
      BY <2>1, <2>2, <2>3, <3>c DEF Numbered, AckNumber
    <3>3. (1 .. k) \cup {c} = 1 .. m
      BY <2>1, <3>c, <3>m
    <3>4. recipient'[n][t].count = c
      <4> HIDE DEF RecipientRows
      <4> QED BY <1>1, <2>3, <3>c, CommitRows, ChangedRow
    <3>5. attempt[n] = "delivered"
      <4>1. recipient[n][t] \in RecipientRows
        BY <1>1, <2>3, CommitRows
      <4> QED BY <1>1, <4>1, NoRowAssumption DEF OutcomeInv, ReachedWasDelivered
    <3>6. \A x \in Sessions :
              session'[x].request \in AckStatuses /\ <<n, t>> \in session'[x].of
                  => session'[x].loaded.count \in 0 .. k
      BY <1>3, <1>4, <2>1 DEF Numbered
    <3>7. \A x \in Sessions :
              session'[x].request \in AckStatuses /\ <<n, t>> \in session'[x].of
                  => session'[x].loaded.count \in 0 .. m
      BY <2>1, <3>1, <3>6
    <3>8. recipient'[n][t].count \in 0 .. m /\ recipient'[n][t].count > 0
      BY <3>1, <3>4
    <3>9. acks'[n][t] = 1 .. m
      BY <3>2, <3>3
    <3>10. Numbered(n, t, m)'
      BY <1>5, <3>5, <3>7, <3>8, <3>9 DEF Numbered
    <3> QED BY <3>10
  <2>4. CASE ~(<<n, t>> \in session[s].of /\ session[s].request \in AckStatuses)
    <3>1. recipient'[n][t] \in RecipientRows
              => recipient[n][t] \in RecipientRows /\ recipient'[n][t].count = recipient[n][t].count
      <4> HIDE DEF RecipientRows
      <4> QED BY <1>1, <2>4, CommitRows, ChangedRow
    <3>2. \A x \in Sessions :
              session'[x].request \in AckStatuses /\ <<n, t>> \in session'[x].of
                  => session'[x].loaded.count \in 0 .. k
      BY <1>3, <1>4, <2>1 DEF Numbered
    <3>3. acks'[n][t] = acks[n][t]
      BY <2>2, <2>4
    <3> QED BY <1>5, <2>1, <3>1, <3>2, <3>3 DEF Numbered
  <2> QED BY <2>3, <2>4
<1> QED BY <1>6 DEF AcksNumbered

LEMMA AckStep == ASSUME AckInv, [Next]_vars PROVE AckInv'
<1>1. OutcomeInv /\ OutcomeInv' /\ TypeInv /\ TypeInv'
  BY OutcomeStep DEF AckInv, OutcomeInv
<1>2. CASE \E s \in Sessions : Commit(s) /\ UNCHANGED worker
  BY <1>1, <1>2, AckCommits DEF AckInv
<1>3. \A n \in Notifications : attempt[n] = "delivered" => attempt'[n] = "delivered"
  BY <1>1, NoneAssumption, AttemptsAreFinal
<1>4. CASE UNCHANGED <<recipient, acks>> /\ ~(\E s \in Sessions : Commit(s) /\ UNCHANGED worker)
  <2>1. ASSUME NEW n \in Notifications, NEW t \in Recipients, NEW k \in Nat, Numbered(n, t, k),
               NEW s \in Sessions,
               session'[s].request \in AckStatuses, <<n, t>> \in session'[s].of
        PROVE  session'[s].loaded.count \in 0 .. k
    <3>1. CASE session'[s] = session[s]
      BY <2>1, <3>1 DEF Numbered
    <3>2. CASE session'[s] # session[s]
      <4>1. PICK x \in Sessions, u \in Users :
               \/ \E m \in Notifications, request \in Requests : BeginRequest(x, request, u, m)
               \/ BeginReadAll(x, u)
        BY <1>4, <3>2, SessionWriters
      <4>2. DOMAIN session = Sessions
        BY <1>1 DEF TypeInv, InAppTypeOK, InboxTypeOK
      <4>3. CASE BeginReadAll(x, u)
        <5>1. x = s /\ session'[s].request = "read-all"
          BY <3>2, <4>2, <4>3 DEF BeginReadAll, Start
        <5> QED BY <2>1, <5>1 DEF AckStatuses
      <4>4. CASE \E m \in Notifications, request \in Requests : BeginRequest(x, request, u, m)
        <5>1. PICK m, request, v :
                  /\ m \in Notifications /\ request \in Requests
                  /\ v \in Visible(m, u)
                  /\ Start(x, request, u, {<<m, v>>}, recipient[m][v])
          BY <4>4 DEF BeginRequest
        <5>2. x = s /\ session'[s].of = {<<m, v>>} /\ session'[s].loaded = recipient[m][v]
          BY <3>2, <4>2, <5>1 DEF Start
        <5>3. m = n /\ v = t
          BY <2>1, <5>2
        <5>4. recipient[n][t] \in RecipientRows
          BY <1>1, <5>1, <5>3 DEF Visible, TypeInv, InAppTypeOK, StoreTypeOK
        <5> QED BY <2>1, <5>2, <5>3, <5>4 DEF Numbered
      <4> QED BY <4>1, <4>3, <4>4
    <3> QED BY <3>1, <3>2
  <2>2. ASSUME NEW n \in Notifications, NEW t \in Recipients
        PROVE  \E k \in Nat : Numbered(n, t, k)'
    <3>1. PICK k \in Nat : Numbered(n, t, k)
      BY DEF AckInv, AcksNumbered
    <3>2. \A s \in Sessions :
              session'[s].request \in AckStatuses /\ <<n, t>> \in session'[s].of
                  => session'[s].loaded.count \in 0 .. k
      BY <2>1, <3>1
    <3>3. attempt'[n] # "delivered" => k = 0
      BY <1>3, <3>1 DEF Numbered
    <3>4. acks'[n][t] = acks[n][t] /\ recipient'[n][t] = recipient[n][t]
      BY <1>4
    <3>5. Numbered(n, t, k)'
      BY <3>1, <3>2, <3>3, <3>4 DEF Numbered
    <3> QED BY <3>5
  <2>3. AcksNumbered'
    BY <2>2 DEF AcksNumbered
  <2> QED BY <1>1, <2>3 DEF AckInv
<1>5. ASSUME NEW w \in Workers, Deliver(w), UNCHANGED session PROVE AcksNumbered'
  <2>1. ASSUME NEW n \in Notifications, NEW t \in Recipients
        PROVE  \E k \in Nat : Numbered(n, t, k)'
    <3>1. PICK k \in Nat : Numbered(n, t, k)
      BY DEF AckInv, AcksNumbered
    <3>2. UNCHANGED acks
      BY <1>5 DEF Deliver
    <3>3. CASE n = worker[w].of /\ t \in worker[w].picked
      <4>1. k = 0
        BY <1>1, <1>5, <3>1, <3>3, DeliverRows, NoneAssumption DEF Numbered
      <4>2. recipient'[n][t].count = 0
        BY <1>1, <1>5, <3>3, DeliverRows DEF NewRecipient
      <4>3. acks'[n][t] = acks[n][t] /\ session' = session
        BY <1>5, <3>2
      <4>4. Numbered(n, t, k)'
        BY <3>1, <4>1, <4>2, <4>3 DEF Numbered
      <4> QED BY <4>4
    <3>4. CASE ~(n = worker[w].of /\ t \in worker[w].picked)
      <4>1. recipient'[n][t] = recipient[n][t]
        BY <1>1, <1>5, <3>4, DeliverRows
      <4>2. acks'[n][t] = acks[n][t] /\ session' = session
        BY <1>5, <3>2
      <4>3. Numbered(n, t, k)'
        BY <1>3, <3>1, <4>1, <4>2 DEF Numbered
      <4> QED BY <4>3
    <3> QED BY <3>3, <3>4
  <2> QED BY <2>1 DEF AcksNumbered
<1> QED BY <1>1, <1>2, <1>4, <1>5, RecipientWriters DEF AckInv

LEMMA AckInvariant == Spec => []AckInv
<1>1. Init => AcksNumbered
  <2> SUFFICES ASSUME Init, NEW n \in Notifications, NEW t \in Recipients
               PROVE  \E k \in Nat : Numbered(n, t, k)
    BY DEF AcksNumbered
  <2>1. acks[n][t] = 1 .. 0 /\ recipient[n][t] = None
    BY DEF Init, StoreInit
  <2>2. \A s \in Sessions : session[s].of = {}
    BY DEF Init, InboxInit, IdleSession
  <2>3. Numbered(n, t, 0)
    BY <2>1, <2>2, NoRowAssumption DEF Numbered
  <2> QED BY <2>3
<1>2. Init => OutcomeInv
  BY TypeStarts DEF Init, StoreInit, AbsentRow, OutcomeInv, ReachedWasDelivered, DeliveredIsStored
<1>3. AckInv /\ [Next]_vars => AckInv'
  BY AckStep
<1> QED BY <1>1, <1>2, <1>3, PTL DEF Spec, AckInv

(* However many acknowledgements of a recipient read the same counter, the *)
(* numbers given have no gap and the counter never leaves them.            *)
THEOREM AcksHaveNoGap == Spec => []AckNumbersGapless
<1>1. AckInv => AckNumbersGapless
  <2> SUFFICES ASSUME AckInv, NEW n \in Notifications, NEW t \in Recipients
               PROVE  /\ acks[n][t] = 1 .. Cardinality(acks[n][t])
                      /\ recipient[n][t] # None /\ acks[n][t] # {}
                             => recipient[n][t].count \in acks[n][t]
    BY DEF AckNumbersGapless
  <2>1. PICK k \in Nat : Numbered(n, t, k)
    BY DEF AckInv, AcksNumbered
  <2>2. Cardinality(1 .. k) = k
    BY <2>1, FS_Interval
  <2>3. recipient[n][t] # None => recipient[n][t] \in RecipientRows
    BY DEF AckInv, OutcomeInv, TypeInv, InAppTypeOK, StoreTypeOK
  <2> QED BY <2>1, <2>2, <2>3 DEF Numbered
<1> QED BY <1>1, AckInvariant, PTL

-----------------------------------------------------------------------------
(* What becomes of one task in a step. *)
LEMMA TaskFate ==
    ASSUME TypeInv, [Next]_vars, NEW w \in Workers
    PROVE  \/ worker'[w] = worker[w]
           \/ \E n \in Notifications : Load(w, n)
           \/ Claim(w) \/ ContentRefused(w) \/ FindNone(w) \/ FindDuplicate(w) \/ FindConflict(w)
           \/ Insert(w) /\ RecipientRefused(w)
           \/ Insert(w) /\ \E picked : CreateInAppDelivery(w, picked)
           \/ worker'[w] = IdleWorker
<1>1. DOMAIN worker = Workers
  BY DEF TypeInv, RowInv, Shapes
<1>2. ASSUME NEW v \in Workers, Finish(v) PROVE worker'[w] = worker[w] \/ worker'[w] = IdleWorker
  BY <1>1, <1>2 DEF Finish
<1>3. ASSUME NEW v \in Workers, NEW stage, Advance(v, stage) PROVE worker'[w] = worker[w] \/ v = w
  BY <1>1, <1>3 DEF Advance
<1>4. ASSUME NEW v \in Workers, Insert(v)
      PROVE  \/ worker'[w] = worker[w] \/ worker'[w] = IdleWorker
             \/ Insert(w) /\ RecipientRefused(w)
             \/ Insert(w) /\ \E picked : CreateInAppDelivery(w, picked)
  <2>1. CASE Abort(v)
    BY <1>2, <2>1 DEF Abort
  <2>2. CASE RecipientRefused(v)
    BY <1>3, <1>4, <2>2 DEF RecipientRefused
  <2>3. ASSUME NEW picked, CreateInAppDelivery(v, picked)
        PROVE  \/ worker'[w] = worker[w]
               \/ Insert(w) /\ CreateInAppDelivery(w, picked)
    <3>1. worker' = [worker EXCEPT ![v].stage = "inserted", ![v].picked = picked]
      BY <2>3 DEF CreateInAppDelivery
    <3>2. v # w => worker'[w] = worker[w]
      BY <1>1, <3>1
    <3> QED BY <1>4, <2>3, <3>2
  <2> QED BY <1>4, <2>1, <2>2, <2>3 DEF Insert
<1>5. ASSUME NEW v \in Workers, Processing(v), v # w, ~Insert(v)
      PROVE  worker'[w] = worker[w]
  <2>1. (\E stage : Advance(v, stage)) \/ Finish(v)
    BY <1>5 DEF Processing, Claim, ContentRefused, FindNone, FindDuplicate, FindConflict, LookUp,
                Deliver, ConfirmDuplicate, RecordFailure, AttemptConflict, Abort
  <2> QED BY <1>1, <1>5, <2>1 DEF Advance, Finish
<1>6. ASSUME Processing(w), ~Insert(w)
      PROVE  \/ Claim(w) \/ ContentRefused(w) \/ FindNone(w) \/ FindDuplicate(w) \/ FindConflict(w)
             \/ worker'[w] = worker[w] \/ worker'[w] = IdleWorker
  BY <1>2, <1>6 DEF Processing, Deliver, ConfirmDuplicate, RecordFailure, AttemptConflict, Abort
<1>7. ASSUME NEW v \in Workers, NEW n \in Notifications, Load(v, n)
      PROVE  worker'[w] = worker[w] \/ Load(w, n)
  BY <1>1, <1>7 DEF Load
<1>8. CASE DeliveryNext
  BY <1>2, <1>4, <1>5, <1>6, <1>7, <1>8 DEF DeliveryNext, Discard, Crash, ExpireLease
<1>9. CASE ~DeliveryNext
  BY <1>9 DEF Next, Accepting, Driving, Connecting, vars
<1> QED BY <1>8, <1>9

-----------------------------------------------------------------------------
(* Another notification with the key and the content of n is in the inbox. *)
Twin(m, n) ==
    /\ inApp[m] > 0
    /\ row[m].body.key = row[n].body.key
    /\ Fingerprint(row[m].body) = Fingerprint(row[n].body)

DuplicateFound ==
    \A w \in Workers :
        worker[w].stage = "duplicate" => \E m \in Notifications : Twin(m, worker[w].of)

TwinInv == TypeInv /\ DuplicateFound /\ UnleasedProcessingIsDuplicate

LEMMA TwinsStay ==
    ASSUME TypeInv, [Next]_vars, NEW m \in Notifications, NEW n \in Notifications,
           row[n].status # "absent", Twin(m, n)
    PROVE  Twin(m, n)'
<1>1. RowsKept
  BY RowsStep DEF TypeInv
<1>2. row[m].status # "absent"
  BY DEF Twin, TypeInv, RowInv, RowsHaveAttempts
<1>3. row'[m].body = row[m].body /\ row'[n].body = row[n].body
  BY <1>1, <1>2 DEF RowsKept
<1>4. inApp'[m] > 0
  <2>1. inApp \in [Notifications -> Nat] /\ inApp' \in [Notifications -> Nat]
    BY RowsStep DEF TypeInv, RowInv, Shapes
  <2> QED BY <2>1, AttemptsAreFinal DEF Twin
<1> QED BY <1>3, <1>4 DEF Twin, Fingerprint

LEMMA TwinStep == ASSUME TwinInv, [Next]_vars PROVE TwinInv'
<1>1. TypeInv /\ TypeInv'
  BY TypeStep DEF TwinInv
<1>2. ASSUME NEW w \in Workers, worker'[w].stage = "duplicate"
      PROVE  \E m \in Notifications : Twin(m, worker[w].of)' /\ worker'[w].of = worker[w].of
  <2>0. DOMAIN worker = Workers /\ DOMAIN worker[w] = {"stage", "of", "loaded", "picked"}
    BY <1>1 DEF TypeInv, RowInv, Shapes
  <2>1. /\ worker[w].stage # "idle" /\ worker'[w].of = worker[w].of
        /\ \E m \in Notifications : Twin(m, worker[w].of)
    <3>1. CASE worker'[w] = worker[w]
      BY <1>2, <3>1 DEF TwinInv, DuplicateFound
    <3>2. CASE FindDuplicate(w)
      <4>1. worker[w].stage # "idle" /\ worker'[w].of = worker[w].of
        BY <2>0, <3>2 DEF FindDuplicate, LookUp, Advance
      <4>2. PICK m \in Existing(w) : Fingerprint(row[m].body) = Fingerprint(Body(w))
        BY <3>2 DEF FindDuplicate
      <4>3. m \in Notifications /\ inApp[m] > 0 /\ row[m].body.key = Body(w).key
        BY <4>2 DEF Existing, Keyed
      <4>4. Twin(m, worker[w].of)
        BY <4>2, <4>3 DEF Twin, Body
      <4> QED BY <4>1, <4>3, <4>4
    <3>3. ASSUME NEW stage, stage # "duplicate", Advance(w, stage) PROVE FALSE
      BY <1>2, <2>0, <3>3 DEF Advance
    <3>4. ASSUME NEW n \in Notifications, Load(w, n) PROVE FALSE
      BY <1>2, <2>0, <3>4 DEF Load
    <3>5. ASSUME NEW picked, CreateInAppDelivery(w, picked) PROVE FALSE
      BY <1>2, <2>0, <3>5 DEF CreateInAppDelivery
    <3>6. worker'[w] # IdleWorker
      BY <1>2 DEF IdleWorker
    <3>7. ~Claim(w) /\ ~ContentRefused(w) /\ ~FindNone(w) /\ ~FindConflict(w)
      BY <3>3 DEF Claim, ContentRefused, FindNone, FindConflict, LookUp
    <3>8. ~RecipientRefused(w)
      BY <3>3 DEF RecipientRefused
    <3> QED BY <1>1, <3>1, <3>2, <3>4, <3>5, <3>6, <3>7, <3>8, TaskFate
  <2>2. worker[w].of \in Notifications /\ row[worker[w].of].status # "absent"
    BY <1>1, <2>1 DEF TypeInv, RowInv, BusyKnown
  <2> QED BY <1>1, <2>1, <2>2, TwinsStay
<1>3. DuplicateFound'
  BY <1>2 DEF DuplicateFound, Twin
<1>4. ASSUME NEW n \in Notifications, row'[n].status = "processing", row'[n].lease = "none"
      PROVE  \E m \in Notifications \ {n} : Twin(m, n)'
  <2>1. CASE Kept(n)
    <3>1. PICK m \in Notifications \ {n} : Twin(m, n)
      BY <1>4, <2>1 DEF Kept, TwinInv, UnleasedProcessingIsDuplicate, Twin
    <3> QED BY <1>1, <1>4, <2>1, <3>1, TwinsStay DEF Kept
  <2>2. CASE Confirmed(n)
    <3>1. PICK w \in Workers : ConfirmDuplicate(w) /\ worker[w].of = n
      BY <2>2 DEF Confirmed
    <3>2. PICK m \in Notifications : Twin(m, n)
      BY <3>1 DEF ConfirmDuplicate, TwinInv, DuplicateFound
    <3>3. inApp[n] = 0
      BY <1>1, <3>1 DEF ConfirmDuplicate, AttemptTaken, TypeInv, RowInv, Shapes, RowsHaveAttempts
    <3>4. m # n
      BY <3>2, <3>3 DEF Twin
    <3>5. row[n].status # "absent"
      BY <1>1, <3>1 DEF ConfirmDuplicate, TypeInv, RowInv, BusyKnown
    <3> QED BY <1>1, <3>2, <3>4, <3>5, TwinsStay
  <2> QED BY <1>1, <1>4, <2>1, <2>2, RowFate DEF Queued, Leased, Lapsed, Arrived, Failed
<1>5. UnleasedProcessingIsDuplicate'
  BY <1>4 DEF UnleasedProcessingIsDuplicate, Twin
<1> QED BY <1>1, <1>3, <1>5 DEF TwinInv

(* PROCESSING without a lease, which nobody recovers, is nothing lost: the *)
(* same content is in the inbox under the same deduplication key.          *)
THEOREM StuckIsConfirmed == Spec => []UnleasedProcessingIsDuplicate
<1>1. Init => DuplicateFound /\ UnleasedProcessingIsDuplicate
  BY DEF Init, StoreInit, DeliveryInit, AbsentRow, IdleWorker, DuplicateFound,
         UnleasedProcessingIsDuplicate
<1>2. TwinInv /\ [Next]_vars => TwinInv'
  BY TwinStep
<1>3. Spec => []TwinInv
  BY <1>1, <1>2, TypeStarts, PTL DEF Spec, TwinInv
<1> QED BY <1>3, PTL DEF TwinInv

-----------------------------------------------------------------------------
(* Without a crash, a repeat, an overrun or a retry, a notification is in  *)
(* one place: its message, one task, or an outcome.                        *)
Busy(w, n) == worker[w].stage # "idle" /\ worker[w].of = n

Waiting(n) == row[n].status = "queued" /\ row[n].lease = "none"

MessageWaits ==
    \A n \in Notifications :
        messages[n] > 0
            => messages[n] = 1 /\ Waiting(n) /\ attempt[n] = None /\ \A w \in Workers : ~Busy(w, n)

(* A task has the notification to itself, and the lease once it claimed. *)
TaskAlone ==
    \A w \in Workers :
        worker[w].stage # "idle"
            => /\ attempt[worker[w].of] = None
               /\ \A v \in Workers \ {w} : ~Busy(v, worker[w].of)
               /\ worker[w].stage = "loaded"
                      => worker[w].loaded = "queued" /\ Waiting(worker[w].of)
               /\ worker[w].stage # "loaded"
                      => row[worker[w].of].status = "processing" /\ row[worker[w].of].lease = "live"

LeaseIsOpen ==
    \A n \in Notifications :
        row[n].lease # "none" \/ row[n].status = "absent" => attempt[n] = None

Lone == MessageWaits /\ TaskAlone /\ LeaseIsOpen

LoneInv == TypeInv /\ (~disturbed => Lone)

(* A step of a task before its outcome. *)
LEMMA LoneTaskStep ==
    ASSUME Lone, UNCHANGED <<row, messages, attempt>>,
           \A v \in Workers :
               worker'[v].stage # "idle"
                   => /\ worker[v].stage # "idle" /\ worker'[v].of = worker[v].of
                      /\ worker'[v].loaded = worker[v].loaded
                      /\ (worker'[v].stage = "loaded") = (worker[v].stage = "loaded")
    PROVE  Lone'
<1>1. \A v \in Workers : \A n : Busy(v, n)' => Busy(v, n)
  BY DEF Busy
<1>2. MessageWaits' /\ LeaseIsOpen'
  BY <1>1 DEF Lone, MessageWaits, LeaseIsOpen, Waiting
<1>3. TaskAlone'
  BY <1>1 DEF Lone, TaskAlone, Waiting
<1> QED BY <1>2, <1>3 DEF Lone

(* A step that queues a notification which no task holds. *)
LEMMA LoneQueueing ==
    ASSUME TypeInv, Lone, NEW n \in Notifications,
           messages[n] = 0, attempt[n] = None, \A w \in Workers : ~Busy(w, n),
           messages' = [messages EXCEPT ![n] = @ + 1], Waiting(n)',
           \A m \in Notifications \ {n} : row'[m] = row[m],
           UNCHANGED <<attempt, worker>>
    PROVE  Lone'
<1>1. messages'[n] = 1 /\ \A m \in Notifications \ {n} : messages'[m] = messages[m]
  BY DEF TypeInv, MessagesKnown
<1>2. \A w \in Workers : \A m : Busy(w, m)' = Busy(w, m)
  BY DEF Busy
<1>3. MessageWaits'
  BY <1>1, <1>2 DEF Lone, MessageWaits, Waiting
<1>4. LeaseIsOpen'
  BY DEF Lone, LeaseIsOpen
<1>5. \A w \in Workers : worker[w].stage # "idle" => worker[w].of \in Notifications \ {n}
  BY DEF TypeInv, RowInv, BusyKnown, Busy
<1>6. TaskAlone'
  BY <1>2, <1>5 DEF Lone, TaskAlone, Waiting
<1> QED BY <1>3, <1>4, <1>6 DEF Lone

LEMMA LoneTaking ==
    ASSUME TypeInv, Lone, NEW w \in Workers, NEW n \in Notifications, Discard(w, n) \/ Load(w, n)
    PROVE  Lone'
<1>1. /\ worker[w].stage = "idle" /\ messages[n] = 1 /\ Waiting(n) /\ attempt[n] = None
      /\ \A v \in Workers : ~Busy(v, n)
  BY DEF Discard, Load, Take, Lone, MessageWaits
<1>2. Load(w, n)
  BY <1>1 DEF Discard, Settled, Waiting
<1>3. /\ UNCHANGED <<row, attempt>> /\ messages'[n] = 0
      /\ \A m \in Notifications \ {n} : messages'[m] = messages[m]
  BY <1>1, <1>2 DEF Load, Take, TypeInv, MessagesKnown
<1>4. /\ worker'[w].stage = "loaded" /\ worker'[w].of = n /\ worker'[w].loaded = row[n].status
      /\ \A v \in Workers \ {w} : worker'[v] = worker[v]
  BY <1>2 DEF Load, TypeInv, RowInv, Shapes
<1>5. \A v \in Workers : \A m : Busy(v, m)' = (Busy(v, m) \/ (v = w /\ m = n))
  BY <1>1, <1>4 DEF Busy
<1>6. MessageWaits'
  <2>1. ASSUME NEW m \in Notifications, messages'[m] > 0
        PROVE  m # n /\ messages'[m] = messages[m]
    BY <1>3, <2>1
  <2> QED BY <1>3, <1>5, <2>1 DEF Lone, MessageWaits, Waiting
<1>7. LeaseIsOpen'
  BY <1>3 DEF Lone, LeaseIsOpen
<1>8. ASSUME NEW x \in Workers, worker'[x].stage # "idle"
      PROVE  /\ attempt'[worker'[x].of] = None
             /\ \A v \in Workers \ {x} : ~Busy(v, worker[x].of)'
             /\ worker'[x].stage = "loaded"
                    => worker'[x].loaded = "queued" /\ Waiting(worker[x].of)'
             /\ worker'[x].stage # "loaded"
                    => row'[worker'[x].of].status = "processing" /\ row'[worker'[x].of].lease = "live"
  <2>1. CASE x = w
    BY <1>1, <1>3, <1>4, <1>5, <2>1 DEF Waiting
  <2>2. CASE x # w
    <3>1. worker'[x] = worker[x] /\ Busy(x, worker[x].of)
      BY <1>4, <1>8, <2>2 DEF Busy
    <3>2. worker[x].of # n
      BY <1>1, <3>1
    <3> QED BY <1>3, <1>5, <1>8, <2>2, <3>1, <3>2 DEF Lone, TaskAlone, Waiting
  <2> QED BY <2>1, <2>2
<1>9. TaskAlone'
  BY <1>8 DEF TaskAlone
<1> QED BY <1>6, <1>7, <1>9 DEF Lone

LEMMA LoneClaiming ==
    ASSUME TypeInv, Lone, NEW w \in Workers, Claim(w)
    PROVE  Lone'
<1> DEFINE n == worker[w].of
<1>1. n \in Notifications /\ worker[w].stage = "loaded"
  BY DEF Claim, TypeInv, RowInv, BusyKnown
<1>2. worker[w].loaded = "queued" /\ attempt[n] = None /\ \A v \in Workers \ {w} : ~Busy(v, n)
  BY <1>1 DEF Lone, TaskAlone
<1>3. messages[n] = 0
  BY <1>1 DEF Lone, MessageWaits, Busy, TypeInv, MessagesKnown
<1>4. /\ row'[n].status = "processing" /\ row'[n].lease = "live"
      /\ \A m \in Notifications \ {n} : row'[m] = row[m]
  BY <1>1, <1>2 DEF Claim, TypeInv, RowInv, Shapes
<1>5. /\ worker'[w].stage = "claimed" /\ worker'[w].of = n
      /\ \A v \in Workers \ {w} : worker'[v] = worker[v]
  BY DEF Claim, Advance, TypeInv, RowInv, Shapes
<1>6. UNCHANGED <<messages, attempt>>
  BY DEF Claim
<1>7. \A v \in Workers : \A m : Busy(v, m)' = Busy(v, m)
  BY <1>1, <1>5 DEF Busy
<1>8. MessageWaits'
  BY <1>3, <1>4, <1>6, <1>7 DEF Lone, MessageWaits, Waiting
<1>9. LeaseIsOpen'
  BY <1>2, <1>4, <1>6 DEF Lone, LeaseIsOpen
<1>10. \A v \in Workers \ {w} : worker[v].stage # "idle" => worker[v].of \in Notifications \ {n}
  BY <1>2 DEF Busy, TypeInv, RowInv, BusyKnown
<1>11. TaskAlone'
  BY <1>2, <1>4, <1>5, <1>6, <1>7, <1>10 DEF Lone, TaskAlone, Waiting
<1> QED BY <1>8, <1>9, <1>11 DEF Lone

LEMMA LoneOutcome ==
    ASSUME TypeInv, Lone, NEW w \in Workers,
           Deliver(w) \/ ConfirmDuplicate(w) \/ RecordFailure(w)
    PROVE  Lone'
<1> DEFINE n == worker[w].of
<1>1. n \in Notifications /\ worker[w].stage \notin {"idle", "loaded"}
  BY DEF Deliver, ConfirmDuplicate, RecordFailure, TypeInv, RowInv, BusyKnown
<1>2. \A v \in Workers \ {w} : ~Busy(v, n)
  BY <1>1 DEF Lone, TaskAlone
<1>3. messages[n] = 0 /\ row[n].status = "processing"
  BY <1>1 DEF Lone, MessageWaits, TaskAlone, Busy, TypeInv, MessagesKnown
<1>4. /\ row'[n].lease = "none" /\ row'[n].status # "absent"
      /\ \A m \in Notifications \ {n} : row'[m] = row[m]
  <2>1. row' = Ending(w, "delivered") \/ row' = Ending(w, "failed") \/ row' = Released(n)
    BY DEF Deliver, ConfirmDuplicate, RecordFailure
  <2> QED BY <1>1, <1>3, <2>1 DEF Ending, Released, TypeInv, RowInv, Shapes
<1>5. worker'[w].stage = "idle" /\ \A v \in Workers \ {w} : worker'[v] = worker[v]
  <2>1. Finish(w)
    BY DEF Deliver, ConfirmDuplicate, RecordFailure
  <2> QED BY <2>1 DEF Finish, IdleWorker, TypeInv, RowInv, Shapes
<1>6. UNCHANGED messages /\ \A m \in Notifications \ {n} : attempt'[m] = attempt[m]
  BY <1>1 DEF Deliver, ConfirmDuplicate, RecordFailure, TypeInv, RowInv, Shapes
<1>7. \A v \in Workers : \A m : Busy(v, m)' => Busy(v, m) /\ v # w
  BY <1>5 DEF Busy
<1>8. MessageWaits'
  BY <1>3, <1>4, <1>6, <1>7 DEF Lone, MessageWaits, Waiting
<1>9. LeaseIsOpen'
  BY <1>4, <1>6 DEF Lone, LeaseIsOpen
<1>10. \A v \in Workers \ {w} : worker[v].stage # "idle" => worker[v].of \in Notifications \ {n}
  BY <1>2 DEF Busy, TypeInv, RowInv, BusyKnown
<1>11. TaskAlone'
  BY <1>4, <1>5, <1>6, <1>7, <1>10 DEF Lone, TaskAlone, Waiting
<1> QED BY <1>8, <1>9, <1>11 DEF Lone

LEMMA LoneExpiry ==
    ASSUME TypeInv, Lone, NEW n \in Notifications, ExpireLease(n), ~disturbed'
    PROVE  Lone'
<1>1. row[n].lease = "live" /\ ~ \E w \in Workers : Holds(w, n)
  BY DEF ExpireLease, Disturb
<1>2. row' = [row EXCEPT ![n].lease = "past"] /\ UNCHANGED <<messages, attempt, worker>>
  BY DEF ExpireLease
<1>3. row'[n].lease = "past" /\ \A m \in Notifications \ {n} : row'[m] = row[m]
  BY <1>2 DEF TypeInv, RowInv, Shapes
<1>4. messages[n] = 0 /\ \A w \in Workers : ~Busy(w, n)
  BY <1>1 DEF Lone, MessageWaits, TaskAlone, Waiting, Holds, Busy, TypeInv, MessagesKnown
<1>5. \A w \in Workers : \A m : Busy(w, m)' = Busy(w, m)
  BY <1>2 DEF Busy
<1>6. MessageWaits'
  BY <1>2, <1>3, <1>4, <1>5 DEF Lone, MessageWaits, Waiting
<1>7. LeaseIsOpen'
  BY <1>1, <1>2, <1>3 DEF Lone, LeaseIsOpen
<1>8. \A w \in Workers : worker[w].stage # "idle" => worker[w].of \in Notifications \ {n}
  BY <1>4 DEF Busy, TypeInv, RowInv, BusyKnown
<1>9. TaskAlone'
  BY <1>2, <1>3, <1>5, <1>8 DEF Lone, TaskAlone, Waiting
<1> QED BY <1>6, <1>7, <1>9 DEF Lone

LEMMA LoneStep == ASSUME LoneInv, [Next]_vars PROVE LoneInv'
<1> USE DEF LoneInv
<1>1. TypeInv'
  BY TypeStep
<1> SUFFICES ASSUME ~disturbed' PROVE Lone'
  BY <1>1
<1>2. disturbed \in BOOLEAN /\ DOMAIN worker = Workers
      /\ \A v \in Workers : DOMAIN worker[v] = {"stage", "of", "loaded", "picked"}
  BY DEF TypeInv, InAppTypeOK, StoreTypeOK, RowInv, Shapes
<1>3. ASSUME ~disturbed, UNCHANGED <<row, messages, attempt, worker>> PROVE Lone'
  BY <1>3, LoneTaskStep
<1>4. ASSUME NEW n \in Notifications, Accepting(n) PROVE Lone'
  <2>1. row[n].status = "absent" /\ ~disturbed
    BY <1>4 DEF Accepting, Accept
  <2>2. messages[n] = 0 /\ attempt[n] = None /\ \A w \in Workers : ~Busy(w, n)
    BY <2>1 DEF TypeInv, MessagesKnown, RowInv, BusyKnown, Busy, Lone, LeaseIsOpen
  <2>3. Waiting(n)' /\ \A m \in Notifications \ {n} : row'[m] = row[m]
    BY <1>4 DEF Accepting, Accept, TypeInv, RowInv, Shapes, Waiting
  <2> QED BY <1>4, <2>1, <2>2, <2>3, LoneQueueing DEF Accepting, Accept
<1>5. ASSUME NEW n \in Notifications, Driving(n) PROVE Lone'
  <2>1. Reconcile(n) /\ UNCHANGED worker /\ ~disturbed
    BY <1>5 DEF Driving, Repeat, RetryNotification, Disturb, Reconcile
  <2>2. row[n].lease = "past"
    BY <2>1 DEF Reconcile, IsStuck
  <2>3. messages[n] = 0 /\ attempt[n] = None /\ \A w \in Workers : ~Busy(w, n)
    BY <2>1, <2>2 DEF Lone, MessageWaits, TaskAlone, LeaseIsOpen, Waiting, Busy, TypeInv, MessagesKnown
  <2>4. Waiting(n)' /\ \A m \in Notifications \ {n} : row'[m] = row[m]
    BY <2>1 DEF Reconcile, Requeue, TypeInv, RowInv, Shapes, Waiting
  <2> QED BY <2>1, <2>3, <2>4, LoneQueueing DEF Reconcile, Requeue
<1>6. ASSUME NEW w \in Workers, Processing(w) PROVE Lone'
  <2>1. ~disturbed
    BY <1>6 DEF Processing, Claim, ContentRefused, FindNone, FindDuplicate, FindConflict, LookUp,
                Insert, Abort, RecipientRefused, CreateInAppDelivery, Deliver, ConfirmDuplicate,
                RecordFailure, AttemptConflict, storeVars
  <2>2. ASSUME NEW stage, stage \notin {"idle", "loaded"}, Advance(w, stage),
               worker[w].stage \notin {"idle", "loaded"}, UNCHANGED storeVars
        PROVE  Lone'
    <3>1. \A v \in Workers :
               worker'[v].stage # "idle"
                   => /\ worker[v].stage # "idle" /\ worker'[v].of = worker[v].of
                      /\ worker'[v].loaded = worker[v].loaded
                      /\ (worker'[v].stage = "loaded") = (worker[v].stage = "loaded")
      BY <1>2, <2>2 DEF Advance
    <3> QED BY <2>1, <2>2, <3>1, LoneTaskStep DEF storeVars, deliveryRows
  <2>3. CASE Abort(w)
    <3>1. \A v \in Workers :
               worker'[v].stage # "idle" => worker'[v] = worker[v]
      BY <1>2, <2>3 DEF Abort, Finish, IdleWorker
    <3> QED BY <2>1, <2>3, <3>1, LoneTaskStep DEF Abort, storeVars, deliveryRows
  <2>4. ASSUME NEW picked, CreateInAppDelivery(w, picked), Insert(w) PROVE Lone'
    <3>1. /\ worker' = [worker EXCEPT ![w].stage = "inserted", ![w].picked = picked]
          /\ worker[w].stage = "absent" /\ UNCHANGED storeVars
      BY <2>4 DEF CreateInAppDelivery, Insert
    <3>2. \A v \in Workers :
               worker'[v].stage # "idle"
                   => /\ worker[v].stage # "idle" /\ worker'[v].of = worker[v].of
                      /\ worker'[v].loaded = worker[v].loaded
                      /\ (worker'[v].stage = "loaded") = (worker[v].stage = "loaded")
      BY <1>2, <3>1
    <3> QED BY <2>1, <3>1, <3>2, LoneTaskStep DEF storeVars, deliveryRows
  <2>5. CASE Insert(w)
    <3>1. CASE RecipientRefused(w)
      BY <2>2, <2>5, <3>1 DEF Insert, RecipientRefused
    <3> QED BY <2>3, <2>4, <2>5, <3>1 DEF Insert
  <2>6. CASE ContentRefused(w) \/ FindNone(w) \/ FindDuplicate(w) \/ FindConflict(w)
    BY <2>2, <2>6 DEF ContentRefused, FindNone, FindDuplicate, FindConflict, LookUp
  <2>7. CASE AttemptConflict(w)
    BY <2>3, <2>7 DEF AttemptConflict
  <2> QED BY <1>6, <2>1, <2>5, <2>6, <2>7, LoneClaiming, LoneOutcome DEF Processing
<1>7. ASSUME NEW w \in Workers, NEW n \in Notifications, Discard(w, n) \/ Load(w, n) PROVE Lone'
  BY <1>7, LoneTaking DEF Discard, Load, Take
<1>8. ASSUME NEW n \in Notifications, ExpireLease(n) PROVE Lone'
  BY <1>8, LoneExpiry DEF ExpireLease, Disturb
<1>9. \A w \in Workers : ~Crash(w)
  BY DEF Crash, Disturb
<1>10. CASE \/ \E u \in Users : Connecting(u)
            \/ StreamNext /\ UNCHANGED <<worker, session>>
            \/ InboxNext /\ UNCHANGED worker
            \/ UNCHANGED vars
  <2>1. UNCHANGED <<row, messages, attempt, worker, disturbed>>
    BY <1>10 DEF Connecting, Connect, StreamNext, Replay, Show, Heartbeat, Disconnect, InboxNext,
              BeginRequest, BeginReadAll, Start, Commit, UpdatePreference, vars, storeVars, deliveryRows
  <2> QED BY <1>3, <2>1
<1> QED BY <1>4, <1>5, <1>6, <1>7, <1>8, <1>9, <1>10 DEF Next, DeliveryNext

(* Without a fault a notification is in one place at a time: one message,  *)
(* one task, or an outcome.  Nothing else keeps two tasks from delivering  *)
(* one notification at once.                                               *)
THEOREM OneTaskAtATime == Spec => []LoneInv
<1>1. Init => Lone
  BY DEF Init, StoreInit, DeliveryInit, AbsentRow, IdleWorker, Lone, MessageWaits, TaskAlone,
         LeaseIsOpen, Busy
<1>2. LoneInv /\ [Next]_vars => LoneInv'
  BY LoneStep
<1> QED BY <1>1, <1>2, TypeStarts, PTL DEF Spec, LoneInv

-----------------------------------------------------------------------------
(* What becomes of one stream in a step. *)
InQueue(n, u) == \E i \in DOMAIN stream[u].queue : stream[u].queue[i] = n

Noticed(n, u) == n \in stream[u].shown \cup stream[u].waived \/ InQueue(n, u)

(* n is offered to the stream of u. *)
Offered(u, n) == stream'[u] = Offer(u, n)

Passed(u, n) ==
    /\ stream'[u] = [stream[u] EXCEPT
           !.waived = IF Listening(u) THEN stream[u].waived \cup {n} ELSE stream[u].waived]
    /\ \E w \in Workers : Insert(w) /\ worker[w].of = n /\ \E picked : CreateInAppDelivery(w, picked)

LEMMA StreamFate ==
    ASSUME TypeInv, [Next]_vars, NEW u \in Users
    PROVE  \/ stream'[u] = stream[u]
           \/ Connecting(u)
           \/ (Replay(u) \/ Show(u) \/ Heartbeat(u) \/ Disconnect(u)) /\ UNCHANGED worker
           \/ \E w \in Workers : \E picked :
                 /\ Insert(w) /\ CreateInAppDelivery(w, picked)
                 /\ \/ w \in HubWorkers /\ u \in picked /\ Offered(u, worker[w].of)
                    \/ w \notin HubWorkers /\ Passed(u, worker[w].of)
           \/ \E s \in Sessions : \E r \in session[s].of :
                 Commit(s) /\ u = session[s].user /\ Offered(u, r[1]) /\ UNCHANGED worker
<1>1. stream \in [Users -> Streams]
  BY DEF TypeInv, InAppTypeOK, StreamTypeOK
<1> DEFINE Others(v) == \A x \in Users \ {v} : stream'[x] = stream[x]
<1>2. ASSUME NEW v \in Users, Connecting(v) PROVE Others(v)
  BY <1>1, <1>2 DEF Connecting, Connect
<1>3. ASSUME NEW v \in Users, Replay(v) \/ Show(v) \/ Heartbeat(v) \/ Disconnect(v) PROVE Others(v)
  <2>1. CASE Replay(v)
    BY <1>1, <2>1 DEF Replay
  <2>2. CASE Show(v)
    BY <1>1, <2>2 DEF Show
  <2> QED BY <1>1, <1>3, <2>1, <2>2 DEF Heartbeat, Disconnect
<1>4. ASSUME NEW users, NEW n, Publish(users, n)
      PROVE  IF u \in users THEN Offered(u, n) ELSE stream'[u] = stream[u]
  BY <1>4 DEF Publish, Offered
<1>5. ASSUME NEW n, PublishElsewhere(n)
      PROVE  stream'[u] = [stream[u] EXCEPT
           !.waived = IF Listening(u) THEN stream[u].waived \cup {n} ELSE stream[u].waived]
  BY <1>1, <1>5 DEF PublishElsewhere
<1>6. ASSUME NEW w \in Workers, NEW picked, Insert(w), CreateInAppDelivery(w, picked)
      PROVE  \/ stream'[u] = stream[u]
             \/ w \in HubWorkers /\ u \in picked /\ Offered(u, worker[w].of)
             \/ w \notin HubWorkers /\ Passed(u, worker[w].of)
  <2>1. CASE w \in HubWorkers
    BY <1>4, <1>6, <2>1 DEF CreateInAppDelivery
  <2>2. CASE w \notin HubWorkers
    <3>1. PublishElsewhere(worker[w].of)
      BY <1>6, <2>2 DEF CreateInAppDelivery
    <3> QED BY <1>5, <1>6, <2>2, <3>1 DEF Passed
  <2> QED BY <2>1, <2>2
<1>7. ASSUME NEW s \in Sessions, Commit(s)
      PROVE  \/ stream'[u] = stream[u]
             \/ \E r \in session[s].of : u = session[s].user /\ Offered(u, r[1])
  BY <1>4, <1>7 DEF Commit
<1> HIDE DEF Others
<1>8. CASE \E v \in Users : Connecting(v)
  BY <1>2, <1>8 DEF Others
<1>9. CASE StreamNext /\ UNCHANGED <<worker, session>>
  BY <1>3, <1>9 DEF StreamNext, Others
<1>10. CASE \E w \in Workers : \E picked \in Picks(Body(w).targets) :
                 Insert(w) /\ CreateInAppDelivery(w, picked) /\ UNCHANGED session
  BY <1>6, <1>10
<1>11. CASE \E s \in Sessions : Commit(s) /\ UNCHANGED worker
  BY <1>7, <1>11
<1> QED BY <1>8, <1>9, <1>10, <1>11, StreamWriters

(* What a stream shows or has noticed, it goes on to while it listens. *)
LEMMA NoticesStay ==
    ASSUME TypeInv, [Next]_vars, NEW u \in Users, Listening(u), Listening(u)',
           NEW n \in Notifications, Noticed(n, u)
    PROVE  Noticed(n, u)'
<1>1. stream[u] \in Streams /\ StreamTypeOK
  BY DEF TypeInv, InAppTypeOK, StreamTypeOK
<1>2. CASE stream'[u] = stream[u]
  BY <1>2 DEF Noticed, InQueue
<1>3. CASE Connecting(u)
  BY <1>3 DEF Connecting, Connect, Listening
<1>4. CASE Replay(u)
  <2>1. /\ stream'[u].queue = stream[u].queue
        /\ stream[u].shown \subseteq stream'[u].shown /\ stream[u].waived \subseteq stream'[u].waived
    BY <1>1, <1>4, ReplayedStream
  <2> QED BY <2>1 DEF Noticed, InQueue
<1>5. CASE Show(u)
  <2>1. /\ stream'[u].queue = Tail(stream[u].queue)
        /\ stream'[u].shown = stream[u].shown \cup {Head(stream[u].queue)}
        /\ stream'[u].waived = stream[u].waived
    BY <1>1, <1>5 DEF Show, TypeInv, InAppTypeOK, StreamTypeOK, Streams
  <2>2. stream[u].queue \in Seq(Notifications) /\ stream[u].queue # <<>>
    BY <1>1, <1>5 DEF Show, Streams
  <2>3. ASSUME NEW i \in DOMAIN stream[u].queue, stream[u].queue[i] = n
        PROVE  n = Head(stream[u].queue) \/ InQueue(n, u)'
    <3>1. CASE i = 1
      BY <2>2, <2>3, <3>1
    <3>2. CASE i # 1
      <4>1. i - 1 \in DOMAIN Tail(stream[u].queue) /\ Tail(stream[u].queue)[i - 1] = n
        BY <2>2, <2>3, <3>2
      <4> QED BY <2>1, <4>1 DEF InQueue
    <3> QED BY <3>1, <3>2
  <2> QED BY <2>1, <2>3 DEF Noticed, InQueue
<1>6. CASE Heartbeat(u)
  <2>1. /\ stream'[u].queue = stream[u].queue /\ stream'[u].shown = stream[u].shown
        /\ stream'[u].waived = stream[u].waived
    BY <1>1, <1>6 DEF Heartbeat, TypeInv, InAppTypeOK, StreamTypeOK, Streams
  <2> QED BY <2>1 DEF Noticed, InQueue
<1>7. CASE Disconnect(u)
  BY <1>7 DEF Disconnect, Listening, TypeInv, InAppTypeOK, StreamTypeOK, Streams
<1>8. ASSUME NEW m \in Notifications, Offered(u, m) PROVE Noticed(n, u)'
  <2>1. /\ stream'[u].shown = stream[u].shown /\ stream[u].waived \subseteq stream'[u].waived
        /\ \A i \in DOMAIN stream[u].queue :
              i \in DOMAIN stream'[u].queue /\ stream'[u].queue[i] = stream[u].queue[i]
    BY <1>1, <1>8, OfferKeeps DEF Offered
  <2> QED BY <2>1 DEF Noticed, InQueue
<1>9. ASSUME NEW m, Passed(u, m) PROVE Noticed(n, u)'
  <2> DEFINE waived == stream[u].waived \cup {m}
  <2>1. stream'[u] = [stream[u] EXCEPT !.waived = waived]
    BY <1>9 DEF Passed
  <2> HIDE DEF waived
  <2>2. /\ stream'[u].queue = stream[u].queue /\ stream'[u].shown = stream[u].shown
        /\ stream'[u].waived = waived
    BY <1>1, <2>1 DEF Streams
  <2> QED BY <2>2 DEF Noticed, InQueue, waived
<1>10. \A w \in Workers : Insert(w) => worker[w].of \in Notifications
  BY DEF Insert, TypeInv, RowInv, BusyKnown
<1>11. \A s \in Sessions : \A r \in session[s].of : r[1] \in Notifications
  BY DEF TypeInv, InAppTypeOK, InboxTypeOK, SessionStates
<1> QED BY <1>2, <1>3, <1>4, <1>5, <1>6, <1>7, <1>8, <1>9, <1>10, <1>11, StreamFate

-----------------------------------------------------------------------------
(* What is published before its commit has been noticed by every listener. *)
Announced ==
    \A u \in Users, w \in Workers :
        Listening(u) /\ worker[w].stage = "inserted" /\ u \in worker[w].picked
            => Noticed(worker[w].of, u)

MissInv == OutcomeInv /\ Announced /\ NothingMissedWhileLive

LEMMA InsertedTask ==
    ASSUME TypeInv, [Next]_vars, NEW w \in Workers, worker'[w].stage = "inserted"
    PROVE  \/ worker'[w] = worker[w]
           \/ /\ Insert(w) /\ CreateInAppDelivery(w, worker'[w].picked)
              /\ worker'[w].of = worker[w].of
<1>1. DOMAIN worker = Workers /\ DOMAIN worker[w] = {"stage", "of", "loaded", "picked"}
  BY DEF TypeInv, RowInv, Shapes
<1>2. ASSUME NEW stage, stage # "inserted", Advance(w, stage) PROVE FALSE
  BY <1>1, <1>2 DEF Advance
<1>3. ASSUME NEW n \in Notifications, Load(w, n) PROVE FALSE
  BY <1>1, <1>3 DEF Load
<1>4. worker'[w] # IdleWorker
  BY DEF IdleWorker
<1>5. ASSUME NEW picked, CreateInAppDelivery(w, picked)
      PROVE  worker'[w].picked = picked /\ worker'[w].of = worker[w].of
  BY <1>1, <1>5 DEF CreateInAppDelivery
<1>6. /\ ~Claim(w) /\ ~ContentRefused(w) /\ ~FindNone(w) /\ ~FindDuplicate(w) /\ ~FindConflict(w)
      /\ ~RecipientRefused(w)
  BY <1>2 DEF Claim, ContentRefused, FindNone, FindDuplicate, FindConflict, LookUp, RecipientRefused
<1> QED BY <1>3, <1>4, <1>5, <1>6, TaskFate

LEMMA AnnouncedStep == ASSUME TypeInv, Announced, [Next]_vars PROVE Announced'
<1> SUFFICES ASSUME NEW u \in Users, NEW w \in Workers, Listening(u)',
                    worker'[w].stage = "inserted", u \in worker'[w].picked
             PROVE  Noticed(worker[w].of, u)'
  BY DEF Announced
<1> DEFINE n == worker'[w].of
<1>1. worker'[w].of = worker[w].of /\ worker[w].of \in Notifications
  BY InsertedTask DEF Insert, TypeInv, RowInv, BusyKnown
<1>2. CASE worker'[w] = worker[w]
  <2>1. CASE Listening(u)
    <3>1. Noticed(worker[w].of, u)
      BY <1>2, <2>1 DEF Announced
    <3> QED BY <1>1, <2>1, <3>1, NoticesStay DEF Noticed, InQueue
  <2>2. CASE ~Listening(u)
    <3>1. Connecting(u)
      <4>1. CASE stream'[u] = stream[u]
        BY <2>2, <4>1 DEF Listening
      <4>2. ASSUME NEW m \in Notifications, Offered(u, m) PROVE FALSE
        BY <2>2, <4>2 DEF Offered, Offer, Listening
      <4>3. ASSUME NEW m, Passed(u, m) PROVE FALSE
        BY <2>2, <4>3 DEF Passed, Listening, TypeInv, InAppTypeOK, StreamTypeOK, Streams
      <4>4. CASE Replay(u) \/ Show(u) \/ Heartbeat(u) \/ Disconnect(u)
        BY <2>2, <4>4 DEF Replay, Show, Heartbeat, Disconnect, Listening, TypeInv, InAppTypeOK,
                StreamTypeOK, Streams
      <4>5. \A v \in Workers : Insert(v) => worker[v].of \in Notifications
        BY DEF Insert, TypeInv, RowInv, BusyKnown
      <4>6. \A s \in Sessions : \A r \in session[s].of : r[1] \in Notifications
        BY DEF TypeInv, InAppTypeOK, InboxTypeOK, SessionStates
      <4> QED BY <4>1, <4>2, <4>3, <4>4, <4>5, <4>6, StreamFate
    <3>2. stream'[u].waived = {m \in Notifications : Uncommitted(m)}
      BY <3>1 DEF Connecting, Connect, TypeInv, InAppTypeOK, StreamTypeOK, Streams
    <3>3. Uncommitted(worker[w].of)
      BY <1>2 DEF Uncommitted
    <3> QED BY <1>1, <3>2, <3>3 DEF Noticed
  <2> QED BY <2>1, <2>2
<1>3. CASE Insert(w) /\ CreateInAppDelivery(w, worker'[w].picked)
  <2>1. StreamTypeOK /\ stream \in [Users -> Streams]
    BY DEF TypeInv, InAppTypeOK, StreamTypeOK
  <2>2. CASE w \in HubWorkers
    <3>1. Offered(u, worker[w].of)
      BY <1>3, <2>2 DEF CreateInAppDelivery, Publish, Offered
    <3>2. Listening(u)
      BY <1>1, <2>1, <3>1, OfferKeeps DEF Offered, Listening
    <3>3. /\ stream'[u] = Offer(u, worker[w].of)
          /\ \/ worker[w].of \in Offer(u, worker[w].of).waived
             \/ \E i \in DOMAIN Offer(u, worker[w].of).queue :
                    Offer(u, worker[w].of).queue[i] = worker[w].of
      BY <1>1, <2>1, <3>1, <3>2, OfferKeeps DEF Offered
    <3> HIDE DEF Offer
    <3> QED BY <1>1, <3>3 DEF Noticed, InQueue
  <2>3. CASE w \notin HubWorkers
    <3>1. PublishElsewhere(worker[w].of)
      BY <1>3, <2>3 DEF CreateInAppDelivery
    <3>2. /\ stream'[u].stage = stream[u].stage
          /\ Listening(u) => worker[w].of \in stream'[u].waived
      BY <2>1, <3>1 DEF PublishElsewhere, Streams
    <3> QED BY <1>1, <3>2 DEF Listening, Noticed
  <2> QED BY <2>2, <2>3
<1> QED BY <1>2, <1>3, InsertedTask

(* What is active for a user was so before, or is a row delivered now. *)
LEMMA ActiveBefore ==
    ASSUME TypeInv, [Next]_vars, NEW u \in Users, NEW n \in Active(u)'
    PROVE  \/ /\ n \in Active(u)
              /\ recipient'[n][u] # recipient[n][u] => recipient[n][u] # None
           \/ \E w \in Workers :
                 /\ Deliver(w) /\ worker[w].of = n
                 /\ u \notin worker[w].picked => recipient'[n][u] = recipient[n][u]
<1>1. n \in Notifications /\ u \in Recipients /\ Everyone \in Recipients
  BY DEF Active, Recipients
<1>2. PICK t \in {u, Everyone} : recipient'[n][t] # None /\ ~recipient'[n][t].dismissed
  BY DEF Active, Visible
<1>3. CASE UNCHANGED recipient
  BY <1>1, <1>3 DEF Active, Visible
<1>4. ASSUME NEW s \in Sessions, Commit(s)
      PROVE  n \in Active(u) /\ (recipient'[n][u] # recipient[n][u] => recipient[n][u] # None)
  <2>1. recipient[n][t] # None /\ ~recipient[n][t].dismissed
    <3> HIDE DEF RecipientRows
    <3>1. CASE <<n, t>> \in session[s].of
      <4> DEFINE request == session[s].request
                 loaded == session[s].loaded
      <4>1. /\ recipient[n][t] \in RecipientRows
            /\ recipient'[n][t] = Changed(recipient[n][t], request, loaded)
            /\ request \in Requests \cup {"read-all"} /\ loaded \in RecipientRows
        BY <1>1, <1>4, <3>1, CommitRows
      <4> HIDE DEF request, loaded
      <4>2. recipient[n][t].dismissed => Changed(recipient[n][t], request, loaded).dismissed
        BY <4>1, ChangedRow
      <4>3. ~Changed(recipient[n][t], request, loaded).dismissed
        BY <1>2, <4>1
      <4> QED BY <4>1, <4>2, <4>3, NoRowAssumption
    <3>2. CASE <<n, t>> \notin session[s].of
      BY <1>1, <1>2, <1>4, <3>2, CommitRows
    <3> QED BY <3>1, <3>2
  <2>2. n \in Active(u)
    BY <1>1, <2>1 DEF Active, Visible
  <2>3. recipient'[n][u] # recipient[n][u] => recipient[n][u] # None
    BY <1>1, <1>4, CommitRows, NoRowAssumption
  <2> QED BY <2>2, <2>3
<1>5. ASSUME NEW w \in Workers, Deliver(w), worker[w].of # n PROVE n \in Active(u) /\ recipient'[n] = recipient[n]
  <2>1. recipient'[n] = recipient[n]
    BY <1>1, <1>5 DEF Deliver, TypeInv, InAppTypeOK, StoreTypeOK
  <2> QED BY <1>1, <1>2, <2>1 DEF Active, Visible
<1>6. ASSUME NEW w \in Workers, Deliver(w), u \notin worker[w].picked
      PROVE  recipient'[n][u] = recipient[n][u]
  BY <1>1, <1>6, DeliverRows
<1> QED BY <1>3, <1>4, <1>5, <1>6, RecipientWriters

LEMMA MissStep == ASSUME MissInv, [Next]_vars PROVE MissInv'
<1>1. TypeInv /\ OutcomeInv /\ OutcomeInv' /\ Announced'
  BY OutcomeStep, AnnouncedStep DEF MissInv, OutcomeInv
<1>2. ASSUME NEW u \in Users, stream'[u].stage = "live", NEW n \in Active(u)'
      PROVE  Noticed(n, u)' \/ recipient'[n][u] = None
  <2>0. n \in Notifications /\ u \in Recipients
    BY <1>2 DEF Active, Recipients
  <2>1. CASE stream[u].stage = "closed"
    <3>1. CASE Connecting(u)
      BY <1>1, <1>2, <3>1 DEF Connecting, Connect, TypeInv, InAppTypeOK, StreamTypeOK, Streams
    <3>2. ASSUME NEW m \in Notifications, Offered(u, m) PROVE FALSE
      BY <1>2, <2>1, <3>2 DEF Offered, Offer, Listening
    <3>3. ASSUME NEW m, Passed(u, m) PROVE FALSE
      BY <1>1, <1>2, <2>1, <3>3 DEF Passed, Listening, TypeInv, InAppTypeOK, StreamTypeOK, Streams
    <3>4. CASE Replay(u) \/ Show(u) \/ Heartbeat(u) \/ Disconnect(u)
      BY <1>1, <1>2, <2>1, <3>4 DEF Replay, Show, Heartbeat, Disconnect, TypeInv, InAppTypeOK,
                StreamTypeOK, Streams
    <3>5. \A v \in Workers : Insert(v) => worker[v].of \in Notifications
      BY <1>1 DEF Insert, TypeInv, RowInv, BusyKnown
    <3>6. \A s \in Sessions : \A r \in session[s].of : r[1] \in Notifications
      BY <1>1 DEF TypeInv, InAppTypeOK, InboxTypeOK, SessionStates
    <3> QED BY <1>1, <1>2, <2>1, <3>1, <3>2, <3>3, <3>4, <3>5, <3>6, StreamFate
  <2>2. CASE stream[u].stage = "subscribed"
    <3>1. CASE Replay(u)
      <4>1. n \in Active(u)
        BY <1>2, <3>1 DEF Replay, storeVars, inboxRows, Active, Visible
      <4>2. Active(u) \subseteq stream'[u].shown \cup stream'[u].waived
        BY <1>1, <3>1, ReplayedStream DEF TypeInv, InAppTypeOK
      <4> QED BY <4>1, <4>2 DEF Noticed
    <3>2. stream'[u].stage # stream[u].stage
      BY <1>2, <2>2
    <3>3. ASSUME NEW m \in Notifications, Offered(u, m) PROVE FALSE
      BY <1>1, <3>2, <3>3, OfferKeeps DEF Offered, TypeInv, InAppTypeOK
    <3>4. ASSUME NEW m, Passed(u, m) PROVE FALSE
      BY <1>1, <3>2, <3>4 DEF Passed, TypeInv, InAppTypeOK, StreamTypeOK, Streams
    <3>5. CASE Connecting(u) \/ Show(u) \/ Heartbeat(u) \/ Disconnect(u)
      BY <1>1, <1>2, <2>2, <3>5 DEF Connecting, Connect, Show, Heartbeat, Disconnect, TypeInv,
                InAppTypeOK, StreamTypeOK, Streams
    <3>6. \A v \in Workers : Insert(v) => worker[v].of \in Notifications
      BY <1>1 DEF Insert, TypeInv, RowInv, BusyKnown
    <3>7. \A s \in Sessions : \A r \in session[s].of : r[1] \in Notifications
      BY <1>1 DEF TypeInv, InAppTypeOK, InboxTypeOK, SessionStates
    <3> QED BY <1>1, <3>1, <3>2, <3>3, <3>4, <3>5, <3>6, <3>7, StreamFate
  <2>3. CASE stream[u].stage = "live"
    <3>1. Listening(u) /\ Listening(u)'
      BY <1>2, <2>3 DEF Listening
    <3>2. \A m \in Notifications : Noticed(m, u) => Noticed(m, u)'
      BY <1>1, <3>1, NoticesStay
    <3>3. \A m \in Active(u) : Noticed(m, u) \/ recipient[m][u] = None
      BY <2>3 DEF MissInv, NothingMissedWhileLive, Noticed, InQueue
    <3>4. ASSUME NEW w \in Workers, Deliver(w), worker[w].of = n,
                 u \notin worker[w].picked => recipient'[n][u] = recipient[n][u]
          PROVE  Noticed(n, u)' \/ recipient'[n][u] = None
      <4>1. CASE u \in worker[w].picked
        <5>1. Noticed(n, u)
          BY <3>1, <3>4, <4>1 DEF Deliver, MissInv, Announced
        <5> QED BY <2>0, <3>2, <5>1
      <4>2. CASE u \notin worker[w].picked
        <5>1. recipient[n][u] = None
          BY <1>1, <2>0, <3>4, NoneAssumption DEF Deliver, AttemptTaken, OutcomeInv, ReachedWasDelivered
        <5> QED BY <3>4, <4>2, <5>1
      <4> QED BY <4>1, <4>2
    <3>5. CASE /\ n \in Active(u)
               /\ recipient'[n][u] # recipient[n][u] => recipient[n][u] # None
      BY <2>0, <3>2, <3>3, <3>5
    <3> QED BY <1>1, <1>2, <3>4, <3>5, ActiveBefore
  <2>4. stream[u].stage \in {"closed", "subscribed", "live"}
    BY <1>1 DEF TypeInv, InAppTypeOK, StreamTypeOK, Streams
  <2> QED BY <2>1, <2>2, <2>3, <2>4
<1>3. NothingMissedWhileLive'
  BY <1>2 DEF NothingMissedWhileLive, Noticed, InQueue
<1> QED BY <1>1, <1>3 DEF MissInv

(* Subscribing to the hub before the replay loses nothing: a live stream   *)
(* has, or will show, what is addressed to its user, with the exceptions   *)
(* that the property names.                                                *)
THEOREM NothingIsMissed == Spec => []NothingMissedWhileLive
<1>1. Init => Announced /\ NothingMissedWhileLive
  BY DEF Init, StreamInit, DeliveryInit, IdleWorker, Announced, NothingMissedWhileLive
<1>2. Init => OutcomeInv
  BY TypeStarts DEF Init, StoreInit, AbsentRow, OutcomeInv, ReachedWasDelivered, DeliveredIsStored
<1>3. MissInv /\ [Next]_vars => MissInv'
  BY MissStep
<1>4. Spec => []MissInv
  BY <1>1, <1>2, <1>3, PTL DEF Spec, MissInv
<1> QED BY <1>4, PTL DEF MissInv

-----------------------------------------------------------------------------
(* What a stream has received, or will, is stored for its user, or is      *)
(* about to be.                                                            *)
Supported(n, u) ==
    \/ Visible(n, u) # {}
    \/ \E w \in Workers :
          worker[w].of = n /\ worker[w].stage = "inserted" /\ u \in worker[w].picked

AllSupported ==
    \A u \in Users, n \in Notifications : n \in stream[u].shown \/ InQueue(n, u) => Supported(n, u)

ShownInv == LoneInv /\ (~disturbed => AllSupported)

LEMMA VisibleStays ==
    ASSUME TypeInv, [Next]_vars, NEW n \in Notifications, NEW u \in Users, Visible(n, u) # {}
    PROVE  Visible(n, u)' # {}
<1>1. PICK t \in {u, Everyone} : recipient[n][t] # None
  BY DEF Visible
<1>2. t \in Recipients
  BY DEF Recipients
<1>3. NewRecipient \in RecipientRows
  BY DEF NewRecipient, RecipientRows, AckStatuses
<1>4. recipient'[n][t] # None
  <2> HIDE DEF RecipientRows, NewRecipient
  <2>1. ASSUME NEW w \in Workers, Deliver(w) PROVE recipient'[n][t] # None
    BY <1>1, <1>2, <1>3, <2>1, DeliverRows, NoRowAssumption
  <2>2. ASSUME NEW s \in Sessions, Commit(s) PROVE recipient'[n][t] # None
    BY <1>1, <1>2, <2>2, CommitRows, NoRowAssumption
  <2> QED BY <1>1, <2>1, <2>2, RecipientWriters
<1> QED BY <1>4 DEF Visible

(* The transaction that was announced ends in the rows that support it:    *)
(* nobody else has recorded the attempt.                                   *)
LEMMA SupportStays ==
    ASSUME LoneInv, ~disturbed, ~disturbed', [Next]_vars,
           NEW n \in Notifications, NEW u \in Users, Supported(n, u)
    PROVE  Supported(n, u)'
<1>1. TypeInv /\ Lone
  BY DEF LoneInv
<1>2. CASE Visible(n, u) # {}
  BY <1>1, <1>2, VisibleStays DEF Supported
<1>3. ASSUME NEW w \in Workers, worker[w].of = n, worker[w].stage = "inserted", u \in worker[w].picked
      PROVE  Supported(n, u)'
  <2>1. CASE worker'[w] = worker[w]
    BY <1>3, <2>1 DEF Supported
  <2>2. CASE Deliver(w)
    <3>1. u \in Recipients
      BY DEF Recipients
    <3>2. NewRecipient \in RecipientRows
      BY DEF NewRecipient, RecipientRows, AckStatuses
    <3>3. recipient'[n][u] # None
      <4> HIDE DEF RecipientRows, NewRecipient
      <4> QED BY <1>1, <1>3, <2>2, <3>1, <3>2, DeliverRows, NoRowAssumption
    <3> QED BY <3>3 DEF Supported, Visible
  <2>3. ~AttemptConflict(w)
    BY <1>1, <1>3 DEF AttemptConflict, AttemptTaken, Lone, TaskAlone
  <2>4. \A v \in Workers : ~Crash(v)
    BY DEF Crash, Disturb
  <2>5. DOMAIN worker = Workers
    BY <1>1 DEF TypeInv, RowInv, Shapes
  <2>6. CASE DeliveryNext
    <3>1. ASSUME NEW v \in Workers, v # w,
                 Processing(v) \/ \E m \in Notifications : Discard(v, m) \/ Load(v, m)
          PROVE  worker'[w] = worker[w]
      <4>1. ASSUME NEW stage, Advance(v, stage) PROVE worker'[w] = worker[w]
        BY <2>5, <3>1, <4>1 DEF Advance
      <4>2. CASE Finish(v)
        BY <2>5, <3>1, <4>2 DEF Finish
      <4>3. CASE Insert(v)
        BY <2>5, <3>1, <4>1, <4>2, <4>3 DEF Insert, Abort, RecipientRefused, CreateInAppDelivery
      <4>4. CASE \E m \in Notifications : Discard(v, m) \/ Load(v, m)
        BY <2>5, <3>1, <4>4 DEF Discard, Load
      <4> QED BY <3>1, <4>1, <4>2, <4>3, <4>4 DEF Processing, Claim, ContentRefused, FindNone,
              FindDuplicate, FindConflict, LookUp, Deliver, ConfirmDuplicate, RecordFailure,
              AttemptConflict, Abort
    <3>2. ~ \E m \in Notifications : Discard(w, m) \/ Load(w, m)
      BY <1>3 DEF Discard, Load, Take
    <3>3. Processing(w) => Deliver(w)
      BY <1>3, <2>3 DEF Processing, Claim, ContentRefused, FindNone, FindDuplicate, FindConflict,
              LookUp, Insert, ConfirmDuplicate, RecordFailure
    <3>4. \A m \in Notifications : ExpireLease(m) => worker'[w] = worker[w]
      BY DEF ExpireLease
    <3> QED BY <2>1, <2>2, <2>4, <2>6, <3>1, <3>2, <3>3, <3>4 DEF DeliveryNext
  <2>7. CASE ~DeliveryNext
    BY <2>1, <2>7 DEF Next, Accepting, Driving, Connecting, vars
  <2> QED BY <2>6, <2>7
<1> QED BY <1>2, <1>3 DEF Supported

LEMMA ShownStep == ASSUME ShownInv, [Next]_vars PROVE ShownInv'
<1>1. LoneInv /\ LoneInv' /\ TypeInv
  BY LoneStep DEF ShownInv, LoneInv
<1> SUFFICES ASSUME ~disturbed' PROVE AllSupported'
  BY <1>1 DEF ShownInv
<1>2. ~disturbed
  <2>1. disturbed' \in {disturbed, TRUE}
    <3>1. disturbed \in BOOLEAN
      BY <1>1 DEF TypeInv, InAppTypeOK, StoreTypeOK
    <3>2. CASE \E n \in Notifications : Accepting(n) \/ Driving(n)
      BY <3>2 DEF Accepting, Accept, Driving, Reconcile, Repeat, RetryNotification, Disturb
    <3>3. CASE DeliveryNext /\ UNCHANGED session
      BY <3>3 DEF DeliveryNext, Processing, Claim, ContentRefused, FindNone, FindDuplicate,
              FindConflict, LookUp, Insert, Abort, RecipientRefused, CreateInAppDelivery,
              Deliver, ConfirmDuplicate, RecordFailure, AttemptConflict, Discard, Load, Take,
              Crash, ExpireLease, Disturb, storeVars
    <3>4. CASE \/ \E u \in Users : Connecting(u)
               \/ StreamNext /\ UNCHANGED <<worker, session>>
               \/ InboxNext /\ UNCHANGED worker
               \/ UNCHANGED vars
      BY <3>4 DEF Connecting, Connect, StreamNext, Replay, Show, Heartbeat, Disconnect, InboxNext,
              BeginRequest, BeginReadAll, Start, Commit, UpdatePreference, vars, storeVars
    <3> QED BY <3>2, <3>3, <3>4 DEF Next
  <2> QED BY <2>1
<1>3. AllSupported
  BY <1>2 DEF ShownInv
<1>4. ASSUME NEW u \in Users, NEW n \in Notifications, n \in stream'[u].shown \/ InQueue(n, u)'
      PROVE  n \in stream[u].shown \/ InQueue(n, u) \/ Supported(n, u)'
  <2>1. stream[u] \in Streams /\ StreamTypeOK /\ stream \in [Users -> Streams]
    BY <1>1 DEF TypeInv, InAppTypeOK, StreamTypeOK
  <2>2. CASE stream'[u] = stream[u]
    BY <1>4, <2>2 DEF InQueue
  <2>3. CASE Connecting(u) \/ Disconnect(u)
    <3>1. stream'[u].queue = <<>> /\ stream'[u].shown = stream[u].shown
      BY <2>1, <2>3 DEF Connecting, Connect, Disconnect, Streams
    <3> QED BY <1>4, <3>1 DEF InQueue
  <2>4. CASE Replay(u)
    <3>1. /\ stream'[u].queue = stream[u].queue
          /\ stream'[u].shown \subseteq stream[u].shown \cup Active(u)
      BY <2>1, <2>4, ReplayedStream
    <3>2. UNCHANGED recipient
      BY <2>4 DEF Replay, storeVars, inboxRows
    <3> QED BY <1>4, <3>1, <3>2 DEF InQueue, Active, Supported, Visible
  <2>5. CASE Show(u)
    <3>1. /\ stream'[u].queue = Tail(stream[u].queue)
          /\ stream'[u].shown = stream[u].shown \cup {Head(stream[u].queue)}
      BY <2>1, <2>5 DEF Show, Streams
    <3>2. stream[u].queue \in Seq(Notifications) /\ stream[u].queue # <<>>
      BY <2>1, <2>5 DEF Show, Streams
    <3>3. InQueue(Head(stream[u].queue), u)
      BY <3>2 DEF InQueue
    <3>4. ASSUME NEW i \in DOMAIN Tail(stream[u].queue), Tail(stream[u].queue)[i] = n
          PROVE  InQueue(n, u)
      <4>1. i + 1 \in DOMAIN stream[u].queue /\ stream[u].queue[i + 1] = n
        BY <3>2, <3>4
      <4> QED BY <4>1 DEF InQueue
    <3> QED BY <1>4, <3>1, <3>3, <3>4 DEF InQueue
  <2>6. CASE Heartbeat(u)
    <3>1. stream'[u].queue = stream[u].queue /\ stream'[u].shown = stream[u].shown
      BY <2>1, <2>6 DEF Heartbeat, Streams
    <3> QED BY <1>4, <3>1 DEF InQueue
  <2>7. ASSUME NEW m \in Notifications, Offered(u, m)
        PROVE  n \in stream[u].shown \/ InQueue(n, u) \/ n = m
    <3>1. /\ stream'[u].shown = stream[u].shown
          /\ \A i \in DOMAIN stream[u].queue : stream'[u].queue[i] = stream[u].queue[i]
          /\ \A i \in DOMAIN stream'[u].queue :
                i \in DOMAIN stream[u].queue \/ stream'[u].queue[i] = m
      BY <2>1, <2>7, OfferKeeps DEF Offered
    <3> QED BY <1>4, <3>1 DEF InQueue
  <2>8. ASSUME NEW m, Passed(u, m) PROVE n \in stream[u].shown \/ InQueue(n, u)
    <3> DEFINE waived == IF Listening(u) THEN stream[u].waived \cup {m} ELSE stream[u].waived
    <3>1. stream'[u] = [stream[u] EXCEPT !.waived = waived]
      BY <2>8 DEF Passed
    <3> HIDE DEF waived
    <3>2. stream'[u].queue = stream[u].queue /\ stream'[u].shown = stream[u].shown
      BY <2>1, <3>1 DEF Streams
    <3> QED BY <1>4, <3>2 DEF InQueue
  <2>9. ASSUME NEW w \in Workers, NEW picked, Insert(w), CreateInAppDelivery(w, picked), u \in picked
        PROVE  /\ worker[w].of \in Notifications /\ worker'[w].of = worker[w].of
               /\ Supported(worker[w].of, u)'
    <3>1. worker[w].of \in Notifications
      BY <1>1, <2>9 DEF Insert, TypeInv, RowInv, BusyKnown
    <3>2. /\ worker'[w].of = worker[w].of /\ worker'[w].stage = "inserted"
          /\ worker'[w].picked = picked
      BY <1>1, <2>9 DEF CreateInAppDelivery, TypeInv, RowInv, Shapes
    <3> QED BY <2>9, <3>1, <3>2 DEF Supported
  <2>10. ASSUME NEW s \in Sessions, NEW r \in session[s].of, Commit(s), u = session[s].user
         PROVE  r[1] \in Notifications /\ Supported(r[1], u)'
    <3>1. r \in Notifications \X Recipients
      BY <1>1 DEF TypeInv, InAppTypeOK, InboxTypeOK, SessionStates
    <3>2. r = <<r[1], r[2]>> /\ r[1] \in Notifications /\ r[2] \in Recipients
      BY <3>1
    <3>3. r[2] \in {u, Everyone}
      BY <1>1, <2>10, <3>2 DEF Commit, TypeInv, SessionsReal
    <3>4. recipient'[r[1]][r[2]] # None
      BY <1>1, <2>10, <3>2, CommitRows, NoRowAssumption
    <3> QED BY <3>2, <3>3, <3>4 DEF Supported, Visible
  <2>11. CASE \E w \in Workers : \E picked :
                 /\ Insert(w) /\ CreateInAppDelivery(w, picked)
                 /\ \/ w \in HubWorkers /\ u \in picked /\ Offered(u, worker[w].of)
                    \/ w \notin HubWorkers /\ Passed(u, worker[w].of)
    <3>1. PICK w, picked :
                 /\ w \in Workers /\ Insert(w) /\ CreateInAppDelivery(w, picked)
                 /\ \/ w \in HubWorkers /\ u \in picked /\ Offered(u, worker[w].of)
                    \/ w \notin HubWorkers /\ Passed(u, worker[w].of)
      BY <2>11
    <3>2. CASE u \in picked /\ Offered(u, worker[w].of)
      <4>1. CASE n = worker[w].of
        <5>1. /\ worker'[w].of = n
              /\ Supported(worker[w].of, u)'
          BY <2>9, <3>1, <3>2, <4>1
        <5> QED BY <5>1 DEF Supported, Visible
      <4>2. CASE n # worker[w].of
        BY <2>7, <2>9, <3>1, <3>2, <4>2
      <4> QED BY <4>1, <4>2
    <3> QED BY <2>8, <3>1, <3>2
  <2>12. CASE \E s \in Sessions : \E r \in session[s].of :
                 Commit(s) /\ u = session[s].user /\ Offered(u, r[1]) /\ UNCHANGED worker
    <3>1. PICK s \in Sessions : \E r \in session[s].of :
                 Commit(s) /\ u = session[s].user /\ Offered(u, r[1])
      BY <2>12
    <3>2. PICK r \in session[s].of : Commit(s) /\ u = session[s].user /\ Offered(u, r[1])
      BY <3>1
    <3>3. r[1] \in Notifications /\ Supported(r[1], u)'
      BY <2>10, <3>2
    <3>4. CASE n = r[1]
      BY <3>3, <3>4 DEF Supported, Visible
    <3>5. CASE n # r[1]
      BY <2>7, <3>2, <3>3, <3>5
    <3> QED BY <3>4, <3>5
  <2> QED BY <1>1, <2>2, <2>3, <2>4, <2>5, <2>6, <2>11, <2>12, StreamFate
<1>5. ASSUME NEW u \in Users, NEW n \in Notifications, n \in stream'[u].shown \/ InQueue(n, u)'
      PROVE  Supported(n, u)'
  BY <1>1, <1>2, <1>3, <1>4, <1>5, SupportStays DEF AllSupported
<1> QED BY <1>5 DEF AllSupported

(* Without a fault a client shows nothing that is not, or is not about to  *)
(* be, stored for its user, though events are published before the commit. *)
THEOREM ShownIsStored == Spec => []ShownBelongsToUser
<1>1. Init => Lone /\ AllSupported
  BY DEF Init, StoreInit, DeliveryInit, StreamInit, AbsentRow, IdleWorker, Lone, MessageWaits,
         TaskAlone, LeaseIsOpen, Busy, AllSupported, InQueue
<1>2. ShownInv /\ [Next]_vars => ShownInv'
  BY ShownStep
<1>3. Spec => []ShownInv
  BY <1>1, <1>2, TypeStarts, PTL DEF Spec, ShownInv, LoneInv
<1>4. ShownInv => ShownBelongsToUser
  <2> SUFFICES ASSUME ShownInv, ~disturbed, NEW u \in Users, NEW n \in stream[u].shown
               PROVE  Supported(n, u)
    BY DEF ShownBelongsToUser, Supported
  <2>1. n \in Notifications
    BY DEF ShownInv, LoneInv, TypeInv, InAppTypeOK, StreamTypeOK, Streams
  <2> QED BY <2>1 DEF ShownInv, AllSupported
<1> QED BY <1>3, <1>4, PTL
=============================================================================
