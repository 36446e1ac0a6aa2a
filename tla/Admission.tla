------------------------------- MODULE Admission -------------------------------
(***************************************************************************)
(* POST /notifications (create_notification in api.py, quotas.py) in       *)
(* concurrent sessions.  A request reads what decides about it in one      *)
(* transaction that locks nothing: the application, event, schema,         *)
(* template and provider, then the key's notification, then the quota      *)
(* buckets; it writes when it commits.                                     *)
(***************************************************************************)
EXTENDS TemplateLifecycle, ProviderConfig, Credentials

CONSTANTS
    Sessions,
    Keys,     \* idempotency keys
    Bodies,   \* requests: [data : Data, deliverable : BOOLEAN]
    Limit,    \* quota_per_minute
    DayLimit  \* quota_per_day

(* What a scenario bounds: requests of each kind, the editors at work, and *)
(* the schemas, keys and bodies that clients use.                          *)
Bounds ==
    [edits : Nat, transitions : Nat, configs : Nat, keys : Nat, submissions : Nat,
     editors : SUBSET Editors, schemas : SUBSET Candidates,
     requested : SUBSET Keys, bodies : SUBSET Bodies, running : BOOLEAN,
     paired : BOOLEAN]

ASSUME ScenariosAssumption == Scenarios \subseteq Bounds
ASSUME LimitsAssumption == Limit \in Nat \ {0} /\ DayLimit \in Nat \ {0}
ASSUME NoCountAssumption == None \notin Nat
ASSUME SessionsAssumption == IsFiniteSet(Sessions)

VARIABLES
    application,    \* applications.status is ACTIVE
    notifications,  \* rows in the order of their commits
    minute,         \* the number of the current minute
    bucket,         \* usage_buckets: count, or None where there is no row
    admitted,       \* history: the notifications accepted in each bucket
    session,
    answers         \* history: what clients were told

admissionVars ==
    <<application, notifications, minute, bucket, admitted, session, answers>>

(* Bound: a behaviour lasts two minutes of one day.                        *)
Buckets == {<<"minute", 1>>, <<"minute", 2>>, <<"day", 1>>}

BucketsNow == {<<"minute", minute>>, <<"day", 1>>}

LimitOf(b) == IF b[1] = "minute" THEN Limit ELSE DayLimit

NoSession == [stage |-> "idle"]

Stages == {"quota", "blocked", "insert"}

AdmissionTypeOK ==
    /\ application \in BOOLEAN
    /\ notifications \in Seq([key : Keys, body : Bodies])
    /\ minute \in 1 .. 2
    /\ \A b \in Buckets : bucket[b] \in Nat \cup {None} /\ admitted[b] \in Nat
    /\ \A s \in Sessions : session[s] = NoSession \/ session[s].stage \in Stages
    /\ \A a \in answers : a.of \in {None} \cup DOMAIN notifications

-----------------------------------------------------------------------------
Stored(key) == {n \in DOMAIN notifications : notifications[n].key = key}

(* The state of the platform admits the request: app, event, schema,       *)
(* template and provider are there, and the data is valid.                 *)
Resolvable(body) ==
    /\ application
    /\ eventActive
    /\ schemas # <<>>
    /\ body.deliverable
    /\ Accepts(schemas[Current].schema, body.data)
    /\ TemplateResolvable
    /\ Resolved # {}

(* stored: the key had a notification when the request came; of: the one   *)
(* the answer names, None for an error.                                    *)
Answer(key, body, of, stored) ==
    answers' = answers \cup {[key |-> key, body |-> body, of |-> of, stored |-> stored]}

(* Faulty: the key alone decides. *)
AnyStored(key, body) == IF Stored(key) = {} THEN None ELSE CHOOSE n \in Stored(key) : TRUE

(* The key's notification if it came from the same request, else an error. *)
Original(key, body) ==
    LET same == {n \in Stored(key) : notifications[n].body = body}
    IN  IF same = {} THEN None ELSE CHOOSE n \in same : TRUE

Entered(key, body) ==
    [stage |-> "quota", key |-> key, body |-> body, read |-> [b \in {} |-> 0], made |-> {}]

(* The request up to consume_quota. *)
Submit(s, key, body) ==
    /\ session[s] = NoSession
    /\ Spend("submissions")
    /\ \E c \in DOMAIN credentials : Usable(c)
    /\ IF Resolvable(body) /\ Stored(key) = {}
       THEN /\ session' = [session EXCEPT ![s] = Entered(key, body)]
            /\ UNCHANGED answers
       ELSE /\ Answer(key, body, IF Resolvable(body) THEN Original(key, body) ELSE None,
                      Stored(key) # {})
            /\ UNCHANGED session
    /\ UNCHANGED <<application, notifications, minute, bucket, admitted>>

Refuse(s) ==
    /\ Answer(session[s].key, session[s].body, None, FALSE)
    /\ session' = [session EXCEPT ![s] = NoSession]

(* The buckets that another session has inserted and not committed. *)
Contested(s) == UNION {session[t].made : t \in {u \in Sessions \ {s} : session[u] # NoSession}}

Count(b) == IF bucket[b] = None THEN 0 ELSE bucket[b]

(* Faulty: the limit itself is not yet too much. *)
WithinOrAt(read) == \A b \in DOMAIN read : read[b] <= LimitOf(b)

Within(read) == \A b \in DOMAIN read : read[b] < LimitOf(b)

(* consume_quota: reads the buckets and inserts those that are missing.    *)
(* The insert waits for the session that is inserting the same one.        *)
ReadQuota(s) ==
    LET read == [b \in BucketsNow |-> Count(b)]
        missing == {b \in BucketsNow : bucket[b] = None}
    IN  /\ session[s].stage = "quota"
        /\ IF ~Within(read) THEN Refuse(s)
           ELSE /\ session' = [session EXCEPT ![s] =
                      [@ EXCEPT !.stage = IF missing \cap Contested(s) = {}
                                          THEN "insert" ELSE "blocked",
                                !.read = read,
                                !.made = missing \ Contested(s)]]
                /\ UNCHANGED answers
        /\ UNCHANGED <<application, notifications, minute, bucket, admitted, budget>>

(* That session has ended: if it has committed, the insert fails and the   *)
(* request with it (500).                                                  *)
Unblock(s) ==
    LET waited == {b \in DOMAIN session[s].read : session[s].read[b] = 0} \ session[s].made IN
    /\ session[s].stage = "blocked"
    /\ waited \cap Contested(s) = {}
    /\ IF \E b \in waited : bucket[b] # None THEN Refuse(s)
       ELSE /\ session' = [session EXCEPT ![s] =
                  [@ EXCEPT !.stage = "insert",
                            !.made = session[s].made \cup waited]]
            /\ UNCHANGED answers
    /\ UNCHANGED <<application, notifications, minute, bucket, admitted, budget>>

(* Faulty: the increment is not undone with the insert. *)
ChargeAlways(s) ==
    bucket' = [b \in Buckets |-> IF b \in DOMAIN session[s].read
                                 THEN session[s].read[b] + 1 ELSE bucket[b]]

(* usage.count += 1 writes the number read, plus one. *)
Charge(s) ==
    IF Stored(session[s].key) = {}
    THEN bucket' = [b \in Buckets |-> IF b \in DOMAIN session[s].read
                                      THEN session[s].read[b] + 1 ELSE bucket[b]]
    ELSE UNCHANGED bucket

(* The insert, its outbox event and the commit; where the key was taken    *)
(* meanwhile, the rollback and the answer that the key's notification      *)
(* gives.                                                                  *)
Commit(s) ==
    LET key == session[s].key
        body == session[s].body
    IN  /\ session[s].stage = "insert"
        /\ session' = [session EXCEPT ![s] = NoSession]
        /\ Charge(s)
        /\ IF Stored(key) = {}
           THEN /\ notifications' = Append(notifications, [key |-> key, body |-> body])
                /\ admitted' = [b \in Buckets |->
                                   admitted[b] + IF b \in DOMAIN session[s].read THEN 1 ELSE 0]
                /\ Answer(key, body, Len(notifications) + 1, FALSE)
           ELSE /\ Answer(key, body, Original(key, body), TRUE)
                /\ UNCHANGED <<notifications, admitted>>
        /\ UNCHANGED <<application, minute, budget>>

TransitionApplication ==
    /\ application
    /\ Spend("transitions")
    /\ application' = FALSE
    /\ UNCHANGED <<notifications, minute, bucket, admitted, session, answers>>

NextMinute ==
    /\ minute = 1
    /\ minute' = 2
    /\ UNCHANGED <<application, notifications, bucket, admitted, session, answers, budget>>

AdmissionInit ==
    /\ application = TRUE
    /\ notifications = <<>>
    /\ minute = 1
    /\ bucket = [b \in Buckets |-> None]
    /\ admitted = [b \in Buckets |-> 0]
    /\ session = [s \in Sessions |-> NoSession]
    /\ answers = {}

AdmissionNext ==
    \/ \E s \in Sessions :
          \/ \E key \in budget.requested, body \in budget.bodies : Submit(s, key, body)
          \/ ReadQuota(s) \/ Unblock(s) \/ Commit(s)
    \/ TransitionApplication
    \/ NextMinute

-----------------------------------------------------------------------------
(* An idempotency key stands for one notification and one request: no two  *)
(* answers to requests with the key name different notifications, and none *)
(* names a notification of a different request.                            *)
KeyNamesOneNotification ==
    \A a \in answers :
        a.of # None
            => /\ notifications[a.of] = [key |-> a.key, body |-> a.body]
               /\ Stored(a.key) = {a.of}

(* No request is charged that was not accepted, whichever way it ends.     *)
QuotaNeverOvercharged ==
    \A b \in Buckets : bucket[b] # None => bucket[b] <= admitted[b]

(* The documentation says that quota rules are enforced before acceptance. *)
(* Two concurrent requests exceed the quota nevertheless, though only by   *)
(* what they lose of each other's increments: a slow one puts the count    *)
(* back to where it had read it, at most once for each count, and not the  *)
(* first, which meets the insert.                                          *)
OvershootBounded ==
    Cardinality(Sessions) <= 2
        => \A b \in Buckets : admitted[b] <= (LimitOf(b) * (LimitOf(b) + 1)) \div 2

(* What the API says of retries: a request that is repeated with its key   *)
(* is answered with the original notification.                             *)
RetryReturnsOriginal ==
    \A a \in answers :
        a.stored /\ (\E n \in Stored(a.key) : notifications[n].body = a.body)
            => a.of # None
=============================================================================
