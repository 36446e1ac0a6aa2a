---------------------- MODULE NotificationAttemptProofs ----------------------
(***************************************************************************)
(* The attempts of a notification are numbered 1, 2, ... without a gap,    *)
(* however many workers record them.  A task counts the recorded attempts  *)
(* before it calls the provider and records its own afterwards; what makes *)
(* this sound is that the log only grows in between, so the number is at   *)
(* most the next one, and that the unique constraint refuses every smaller *)
(* one.                                                                    *)
(***************************************************************************)
EXTENDS NotificationTypeProofs

(* The attempt that task w records. *)
Entry(w) == [number |-> worker[w].number, result |-> worker[w].result]

(* What all ways of recording an outcome do to the log. *)
Records(w) ==
    /\ worker[w].stage = "called"
    /\ ~NumberTaken(Target(w), worker[w].number)
    /\ attempts' = [attempts EXCEPT ![Target(w)] = @ \cup {Entry(w)}]
    /\ Finish(w)

Calling(w) == worker[w].stage \in {"calling", "called"}

NumbersInRange ==
    \A w \in Workers :
        Calling(w) => worker[w].number \in 1 .. Cardinality(attempts[Target(w)]) + 1

AttemptInv == TypeInv /\ AttemptsNumberedContiguously /\ NumbersInRange

-----------------------------------------------------------------------------
(* What a step can do to the log and to the tasks.                         *)

(* A step leaves the log alone or records one attempt. *)
LEMMA AttemptsStep ==
    ASSUME [Next]_vars
    PROVE  UNCHANGED attempts \/ \E w \in Workers : Records(w)
  <1>1. CASE UNCHANGED vars
    BY <1>1 DEF vars, storeVars, rows
  <1>2. CASE WorkerNext
    <2>1. ASSUME NEW w \in Workers, Receipt(w) \/ AnswerLost(w) \/ CrashWorker(w)
          PROVE  UNCHANGED attempts
      BY <2>1 DEF Receipt, ReturnEarly, RefuseLease, Receive, AnswerLost, CrashWorker, rows
    <2>2. ASSUME NEW w \in Workers, Processing(w)
          PROVE  UNCHANGED attempts \/ Records(w)
      <3>1. CASE Claim(w) \/ StartCall(w) \/ \E result \in Results : ProviderAnswers(w, result)
        BY <3>1 DEF Claim, StartCall, ProviderAnswers, storeVars, rows
      <3>2. CASE RecordConflict(w) \/ Acknowledge(w)
        BY <3>2 DEF RecordConflict, Acknowledge, storeVars, rows
      <3>3. CASE \/ RecordAccepted(w) \/ RecordDeferred(w)
                 \/ RecordDeadLettered(w) \/ RecordFailed(w)
        BY <3>3 DEF RecordAccepted, RecordDeferred, RecordDeadLettered, RecordFailed,
           RecordOutcome, Records, Entry
      <3>4. QED
        BY <2>2, <3>1, <3>2, <3>3 DEF Processing
    <2>3. ASSUME NEW n \in Notifications, ExpireLease(n)
          PROVE  UNCHANGED attempts
      BY <2>3 DEF ExpireLease
    <2>4. QED
      BY <1>2, <2>1, <2>2, <2>3 DEF WorkerNext
  <1>3. CASE PublisherNext
    BY <1>3 DEF PublisherNext, Publishing, SelectBatch, LeaseRow, Enqueue, EnqueueFails,
       LoadNotification, CommitPublished, CrashPublisher, OutboxLeasesExpire, ExpireOutboxLease,
       storeVars, rows
  <1>4. CASE ReconcilerNext
    BY <1>4 DEF ReconcilerNext, ScanStuck, CommitRecovery, storeVars, rows
  <1>5. CASE RequestsNext
    BY <1>5 DEF RequestsNext, CreateNotification, BeginOperation, BeginCallback, Ending,
       CommitCancel, CommitRetry, CommitReplay, CommitCallback, DuplicateCallback, storeVars, rows
  <1>6. CASE \E n \in Notifications : TimePasses(n)
    BY <1>6 DEF TimePasses, rows
  <1>7. QED
    BY <1>1, <1>2, <1>3, <1>4, <1>5, <1>6 DEF Next

(* A task that is calling after a step was calling before, with the same   *)
(* notification and number, or has just counted the attempts.              *)
LEMMA CallStep ==
    ASSUME TypeInv, [Next]_vars, NEW w \in Workers, Calling(w)'
    PROVE  /\ Target(w)' = Target(w)
           /\ \/ Calling(w) /\ worker'[w].number = worker[w].number
              \/ worker'[w].number = NextNumber(Target(w)) /\ UNCHANGED attempts
  <1> USE DEF Calling, Target
  <1>1. worker \in [Workers -> WorkerStates]
    BY DEF TypeInv, TypeOK, WorkerTypeOK
  <1>2. CASE UNCHANGED worker
    BY <1>2
  <1>3. CASE WorkerNext
    <2>1. ASSUME NEW v \in Workers, Receipt(v) \/ AnswerLost(v) \/ CrashWorker(v) \/ Processing(v)
          PROVE  worker'[w] = worker[w] \/ v = w
      BY <1>1, <2>1 DEF Receipt, ReturnEarly, RefuseLease, Receive, AnswerLost, CrashWorker,
         Processing, Claim, StartCall, ProviderAnswers, RecordAccepted, RecordDeferred,
         RecordDeadLettered, RecordFailed, RecordOutcome, RecordConflict, Acknowledge, Finish
    <2>2. CASE Receipt(w) \/ CrashWorker(w)
      <3>1. CASE Receipt(w)
        <4>1. PICK m \in Messages : ReturnEarly(w, m) \/ RefuseLease(w, m) \/ Receive(w, m)
          BY <3>1 DEF Receipt
        <4>2. CASE Receive(w, m)
          <5>1. worker'[w].stage = "read"
            BY <1>1, <4>2 DEF Receive, WorkerStates
          <5>2. QED
            BY <5>1
        <4>3. QED
          BY <1>2, <4>1, <4>2 DEF ReturnEarly, RefuseLease
      <3>2. CASE CrashWorker(w)
        BY <1>1, <3>2 DEF CrashWorker, IdleWorker
      <3>3. QED
        BY <2>2, <3>1, <3>2
    <2>3. CASE AnswerLost(w) \/ \E result \in Results : ProviderAnswers(w, result)
      <3>1. worker[w].stage = "calling"
        BY <2>3 DEF AnswerLost, ProviderAnswers
      <3>2. worker'[w].message = worker[w].message /\ worker'[w].number = worker[w].number
        BY <1>1, <2>3 DEF AnswerLost, ProviderAnswers, WorkerStates
      <3>3. QED
        BY <3>1, <3>2
    <2>4. CASE StartCall(w)
      <3>1. /\ worker'[w].message = worker[w].message
            /\ worker'[w].number = NextNumber(Target(w))
        BY <1>1, <2>4 DEF StartCall, WorkerStates
      <3>2. QED
        BY <2>4, <3>1 DEF StartCall, storeVars, rows
    <2>5. CASE Claim(w) \/ Acknowledge(w)
      BY <1>1, <2>5 DEF Claim, Acknowledge, IdleWorker, WorkerStates
    <2>6. CASE \/ RecordAccepted(w) \/ RecordDeferred(w) \/ RecordDeadLettered(w)
               \/ RecordFailed(w) \/ RecordConflict(w)
      BY <1>1, <2>6 DEF RecordAccepted, RecordDeferred, RecordDeadLettered, RecordFailed,
         RecordOutcome, RecordConflict, Finish, IdleWorker
    <2>7. ASSUME NEW n \in Notifications, ExpireLease(n)
          PROVE  UNCHANGED worker
      BY <2>7 DEF ExpireLease
    <2>8. QED
      BY <1>2, <1>3, <2>1, <2>2, <2>3, <2>4, <2>5, <2>6, <2>7 DEF WorkerNext, Processing
  <1>4. QED
    BY <1>2, <1>3 DEF Next, vars

-----------------------------------------------------------------------------
LEMMA AttemptInit == Init => AttemptInv
  <1> SUFFICES ASSUME Init PROVE AttemptInv
    OBVIOUS
  <1>1. TypeInv
    BY TypeInit
  <1>2. AttemptsNumberedContiguously
    BY FS_EmptySet DEF Init, StoreInit, AttemptsNumberedContiguously
  <1>3. NumbersInRange
    BY DEF Init, WorkerInit, IdleWorker, NumbersInRange, Calling
  <1>4. QED
    BY <1>1, <1>2, <1>3 DEF AttemptInv

(* The number a task records is the next one. *)
LEMMA RecordsNextNumber ==
    ASSUME AttemptInv, NEW w \in Workers, Records(w)
    PROVE  /\ Target(w) \in Notifications
           /\ worker[w].number = Cardinality(attempts[Target(w)]) + 1
           /\ Cardinality(attempts[Target(w)]) \in Nat
           /\ Cardinality(attempts'[Target(w)]) = Cardinality(attempts[Target(w)]) + 1
  <1> DEFINE n == Target(w)
  <1>1. n \in Notifications /\ IsFiniteSet(attempts[n]) /\ worker[w].stage = "called"
    BY DEF AttemptInv, TypeInv, TasksHaveTargets, AttemptsAreFinite, Records
  <1>2. Cardinality(attempts[n]) \in Nat
    BY <1>1, FS_CardinalityType
  <1>3. worker[w].number \in 1 .. Cardinality(attempts[n]) + 1
    BY <1>1 DEF AttemptInv, NumbersInRange, Calling
  <1>4. worker[w].number \notin {a.number : a \in attempts[n]}
    BY DEF Records, NumberTaken
  <1>5. worker[w].number \notin 1 .. Cardinality(attempts[n])
    <2>1. {a.number : a \in attempts[n]} = 1 .. Cardinality(attempts[n])
      BY <1>1 DEF AttemptInv, AttemptsNumberedContiguously
    <2>2. QED
      BY <1>4, <2>1, Zenon
  <1>6. Entry(w) \notin attempts[n]
    BY <1>4 DEF Entry
  <1>7. attempts'[n] = attempts[n] \cup {Entry(w)}
    BY <1>1 DEF Records, AttemptInv, TypeInv, TypeOK, StoreTypeOK
  <1>8. Cardinality(attempts'[n]) = Cardinality(attempts[n]) + 1
    <2> HIDE DEF n
    <2>1. Cardinality(attempts[n] \cup {Entry(w)}) = Cardinality(attempts[n]) + 1
      BY <1>1, <1>6, FS_AddElement
    <2>2. QED
      BY <1>7, <2>1
  <1>9. QED
    BY <1>1, <1>2, <1>3, <1>5, <1>8

(* No step takes an attempt away. *)
LEMMA AttemptsGrow ==
    ASSUME AttemptInv, [Next]_vars, NEW n \in Notifications
    PROVE  /\ attempts[n] \subseteq attempts'[n]
           /\ Cardinality(attempts[n]) \in Nat
           /\ Cardinality(attempts'[n]) \in Nat
           /\ Cardinality(attempts[n]) <= Cardinality(attempts'[n])
  <1>1. Cardinality(attempts[n]) \in Nat
    BY FS_CardinalityType DEF AttemptInv, TypeInv, AttemptsAreFinite
  <1>2. CASE UNCHANGED attempts
    BY <1>1, <1>2
  <1>3. ASSUME NEW w \in Workers, Records(w)
        PROVE  /\ attempts[n] \subseteq attempts'[n]
               /\ Cardinality(attempts'[n]) \in Nat
               /\ Cardinality(attempts[n]) <= Cardinality(attempts'[n])
    <2>1. attempts \in [Notifications -> SUBSET Attempts]
      BY DEF AttemptInv, TypeInv, TypeOK, StoreTypeOK
    <2>2. CASE n = Target(w)
      <3>1. attempts'[n] = attempts[n] \cup {Entry(w)}
        BY <1>3, <2>1, <2>2 DEF Records
      <3>2. Cardinality(attempts'[n]) = Cardinality(attempts[n]) + 1
        BY <1>3, <2>2, RecordsNextNumber
      <3>3. QED
        BY <1>1, <3>1, <3>2
    <2>3. CASE n # Target(w)
      BY <1>1, <1>3, <2>1, <2>3 DEF Records
    <2>4. QED
      BY <2>2, <2>3
  <1>4. QED
    BY <1>1, <1>2, <1>3, AttemptsStep

LEMMA AddedNumber ==
    ASSUME NEW S, NEW entry
    PROVE  {a.number : a \in S \cup {entry}} = {a.number : a \in S} \cup {entry.number}
  BY Zenon

LEMMA ContiguityStep ==
    ASSUME AttemptInv, [Next]_vars
    PROVE  AttemptsNumberedContiguously'
  <1>1. CASE UNCHANGED attempts
    BY <1>1 DEF AttemptInv, AttemptsNumberedContiguously
  <1>2. ASSUME NEW w \in Workers, Records(w), NEW n \in Notifications
        PROVE  {a.number : a \in attempts'[n]} = 1 .. Cardinality(attempts'[n])
    <2>1. attempts \in [Notifications -> SUBSET Attempts]
      BY DEF AttemptInv, TypeInv, TypeOK, StoreTypeOK
    <2>2. {a.number : a \in attempts[n]} = 1 .. Cardinality(attempts[n])
      BY DEF AttemptInv, AttemptsNumberedContiguously
    <2>3. CASE n # Target(w)
      BY <1>2, <2>1, <2>2, <2>3 DEF Records
    <2>4. CASE n = Target(w)
      <3>1. attempts'[n] = attempts[n] \cup {Entry(w)}
        BY <1>2, <2>1, <2>4 DEF Records
      <3>2. {a.number : a \in attempts'[n]} = {a.number : a \in attempts[n]} \cup {Entry(w).number}
        BY <3>1, AddedNumber, Zenon
      <3>3. Entry(w).number = Cardinality(attempts[n]) + 1
        BY <1>2, <2>4, RecordsNextNumber DEF Entry
      <3>4. QED
        BY <1>2, <2>2, <2>4, <3>2, <3>3, RecordsNextNumber
    <2>5. QED
      BY <2>3, <2>4
  <1>3. QED
    BY <1>1, <1>2, AttemptsStep DEF AttemptsNumberedContiguously

LEMMA NumbersStep ==
    ASSUME AttemptInv, [Next]_vars
    PROVE  NumbersInRange'
  <1> SUFFICES ASSUME NEW w \in Workers, Calling(w)'
               PROVE  worker'[w].number \in 1 .. Cardinality(attempts'[Target(w)']) + 1
    BY DEF NumbersInRange, Target
  <1>1. TypeInv /\ TypeInv'
    BY TypeStep DEF AttemptInv
  <1>2. Target(w)' = Target(w) /\ Target(w) \in Notifications
    BY <1>1, CallStep DEF TypeInv, TasksHaveTargets, Calling
  <1>3. /\ Cardinality(attempts[Target(w)]) \in Nat
        /\ Cardinality(attempts'[Target(w)]) \in Nat
        /\ Cardinality(attempts[Target(w)]) <= Cardinality(attempts'[Target(w)])
    BY <1>2, AttemptsGrow
  <1>4. CASE Calling(w) /\ worker'[w].number = worker[w].number
    BY <1>2, <1>3, <1>4 DEF AttemptInv, NumbersInRange
  <1>5. CASE worker'[w].number = NextNumber(Target(w)) /\ UNCHANGED attempts
    BY <1>2, <1>3, <1>5 DEF NextNumber
  <1>6. QED
    BY <1>1, <1>4, <1>5, CallStep

LEMMA AttemptInvariant == Spec => []AttemptInv
  <1>1. AttemptInv /\ [Next]_vars => AttemptInv'
    BY TypeStep, ContiguityStep, NumbersStep DEF AttemptInv
  <1>2. QED
    BY <1>1, AttemptInit, PTL DEF Spec

(* Attempts are numbered contiguously from 1, whatever the number of       *)
(* workers, crashes, overrun leases and requests.                          *)
THEOREM ContiguousNumbering == Spec => []AttemptsNumberedContiguously
  <1>1. AttemptInv => AttemptsNumberedContiguously
    BY DEF AttemptInv
  <1>2. QED
    BY <1>1, AttemptInvariant, PTL
-----------------------------------------------------------------------------
(***************************************************************************)
(* NotificationSystem implements AttemptLog, for every value of the        *)
(* constants: every step of a worker between its count of the attempts and *)
(* its outcome is a step of a caller, every other step leaves the log, the *)
(* calls and the acceptances alone.                                        *)
(***************************************************************************)

(* Only a task that got its answer has one. *)
AnswersAreFresh ==
    \A w \in Workers : /\ worker[w].stage = "called" => worker[w].result \in Results
                       /\ worker[w].stage # "called" => worker[w].result = "none"

RefinementInv == AttemptInv /\ AnswersAreFresh

(* The call of a task in state task. *)
CallOf(task) ==
    IF task.stage \in {"calling", "called"}
    THEN [target |-> task.message.notification, answer |-> task.result]
    ELSE [target |-> None, answer |-> "none"]

Calls == [w \in Workers |-> ProviderCall(w)]

(* A step that is invisible to AttemptLog. *)
Invisible == UNCHANGED <<worker, attempts, accepts>>

-----------------------------------------------------------------------------
(* How a worker step changes its task.                                     *)

(* What w's task is after its step. *)
TaskStep(w, task) ==
    /\ task \in WorkerStates
    /\ worker' = [worker EXCEPT ![w] = task]

LEMMA CallUpdate ==
    ASSUME worker \in [Workers -> WorkerStates], NEW w \in Workers, NEW task,
           TaskStep(w, task)
    PROVE  /\ Calls' = [Calls EXCEPT ![w] = CallOf(task)]
           /\ Calls[w] = CallOf(worker[w])
           /\ worker'[w] = task
           /\ \A v \in Workers : v # w => worker'[v] = worker[v]
  BY DEF TaskStep, Calls, ProviderCall, CallOf, Target

LEMMA FreshStep ==
    ASSUME RefinementInv, NEW w \in Workers, NEW task, TaskStep(w, task),
           /\ task.stage = "called" => task.result \in Results
           /\ task.stage # "called" => task.result = "none"
    PROVE  AnswersAreFresh'
  <1>1. worker \in [Workers -> WorkerStates]
    BY DEF RefinementInv, AttemptInv, TypeInv, TypeOK, WorkerTypeOK
  <1>2. QED
    BY <1>1, CallUpdate DEF RefinementInv, AnswersAreFresh

(* AttemptLog counts as this module does: the instance has its own copy of *)
(* the definition.                                                         *)
LEMMA SameCardinality ==
    ASSUME NEW S
    PROVE  Log!Cardinality(S) = Cardinality(S)
  BY DEF Log!Cardinality, Cardinality

(* What every step must show. *)
Refines == AnswersAreFresh' /\ [Log!Next]_(Log!vars)

LEMMA InvisibleStep ==
    ASSUME RefinementInv, Invisible
    PROVE  Refines
  BY DEF RefinementInv, Invisible, Refines, AnswersAreFresh, Log!vars, ProviderCall, Target

(* Assigning the value an argument already has changes nothing. *)
LEMMA SameValue ==
    ASSUME NEW f, NEW x, f = [y \in DOMAIN f |-> f[y]]
    PROVE  [f EXCEPT ![x] = f[x]] = f
  OBVIOUS

(* A step of a task that has no call before or after it. *)
LEMMA QuietStep ==
    ASSUME RefinementInv, NEW w \in Workers, NEW task, TaskStep(w, task),
           worker[w].stage \notin {"calling", "called"},
           task.stage \notin {"calling", "called"},
           task.result = "none",
           UNCHANGED <<attempts, accepts>>
    PROVE  Refines
  <1>1. worker \in [Workers -> WorkerStates]
    BY DEF RefinementInv, AttemptInv, TypeInv, TypeOK, WorkerTypeOK
  <1>2. AnswersAreFresh'
    BY FreshStep
  <1>3. Calls' = Calls
    <2>1. CallOf(task) = CallOf(worker[w])
      BY DEF CallOf
    <2>2. Calls' = [Calls EXCEPT ![w] = CallOf(task)] /\ Calls[w] = CallOf(worker[w])
      BY <1>1, CallUpdate
    <2>3. Calls = [v \in DOMAIN Calls |-> Calls[v]]
      BY DEF Calls
    <2>4. QED
      BY <2>1, <2>2, <2>3, SameValue
  <1>4. UNCHANGED Log!vars
    BY <1>3 DEF Log!vars, Calls
  <1>5. QED
    BY <1>2, <1>4 DEF Refines

LEMMA RefinementInit == Init => RefinementInv /\ Log!Init
  <1> SUFFICES ASSUME Init PROVE RefinementInv /\ Log!Init
    OBVIOUS
  <1>1. AnswersAreFresh
    BY DEF Init, WorkerInit, IdleWorker, AnswersAreFresh
  <1>2. Log!Init
    BY DEF Init, WorkerInit, StoreInit, IdleWorker, Log!Init, Log!NoCall, ProviderCall
  <1>3. QED
    BY <1>1, <1>2, AttemptInit DEF RefinementInv

-----------------------------------------------------------------------------
(* The steps of a worker.                                                  *)

LEMMA StartCallStep ==
    ASSUME RefinementInv, NEW w \in Workers, StartCall(w)
    PROVE  Refines
  <1> DEFINE task == [worker[w] EXCEPT !.stage = "calling",
                                       !.number = NextNumber(Target(w))]
  <1>1. worker \in [Workers -> WorkerStates] /\ worker[w] \in WorkerStates
    BY DEF RefinementInv, AttemptInv, TypeInv, TypeOK, WorkerTypeOK
  <1>2. worker[w].stage = "claimed" /\ worker[w].result = "none" /\ Target(w) \in Notifications
    BY DEF StartCall, RefinementInv, AnswersAreFresh, AttemptInv, TypeInv, TasksHaveTargets
  <1>3. NextNumber(Target(w)) \in Nat
    BY <1>2, FS_CardinalityType DEF NextNumber, RefinementInv, AttemptInv, TypeInv, AttemptsAreFinite
  <1>4. /\ task \in WorkerStates
        /\ task.stage = "calling"
        /\ task.message = worker[w].message
        /\ task.result = "none"
    BY <1>1, <1>2, <1>3 DEF WorkerStates, Stages
  <1>5. TaskStep(w, task)
    BY <1>1, <1>4 DEF StartCall, TaskStep, WorkerStates
  <1>6. AnswersAreFresh'
    BY <1>4, <1>5, FreshStep
  <1>7. Log!Call(w, Target(w))
    <2>1. Calls[w] = Log!NoCall
      BY <1>1, <1>2, <1>5, CallUpdate DEF CallOf, Log!NoCall
    <2>2. Calls' = [Calls EXCEPT ![w] = [target |-> Target(w), answer |-> "none"]]
      <3>1. CallOf(task) = [target |-> Target(w), answer |-> "none"]
        BY <1>4 DEF CallOf, Target
      <3>2. Calls' = [Calls EXCEPT ![w] = CallOf(task)]
        BY <1>1, <1>5, CallUpdate
      <3>3. QED
        BY <3>1, <3>2, Zenon
    <2>3. UNCHANGED <<attempts, accepts>>
      BY DEF StartCall, storeVars, rows
    <2>4. QED
      BY <2>1, <2>2, <2>3 DEF Log!Call, Calls
  <1>8. QED
    BY <1>2, <1>6, <1>7 DEF Refines, Log!Next

(* The provider's answer; an accepted call may look retryable to its task. *)
LEMMA AnswerStep ==
    ASSUME RefinementInv, NEW w \in Workers, NEW result \in Results,
           worker[w].stage = "calling",
           worker' = [worker EXCEPT ![w].stage = "called", ![w].result = result],
           \/ /\ result \in {"accepted", "retryable"}
              /\ accepts' = [accepts EXCEPT ![Target(w)] = @ + 1]
           \/ result # "accepted" /\ UNCHANGED accepts,
           UNCHANGED attempts
    PROVE  Refines
  <1> DEFINE task == [worker[w] EXCEPT !.stage = "called", !.result = result]
  <1>1. worker \in [Workers -> WorkerStates] /\ worker[w] \in WorkerStates
    BY DEF RefinementInv, AttemptInv, TypeInv, TypeOK, WorkerTypeOK
  <1>2. worker[w].result = "none" /\ Target(w) \in Notifications /\ Target(w) # None
    BY NoneAssumption DEF RefinementInv, AnswersAreFresh, AttemptInv, TypeInv, TasksHaveTargets
  <1>3. /\ task \in WorkerStates
        /\ task.stage = "called"
        /\ task.message = worker[w].message
        /\ task.result = result
    BY <1>1 DEF WorkerStates, Stages
  <1>4. TaskStep(w, task)
    BY <1>1, <1>3 DEF TaskStep, WorkerStates
  <1>5. AnswersAreFresh'
    BY <1>3, <1>4, FreshStep
  <1>6. Log!Answer(w, result)
    <2>1. Calls[w] = [target |-> Target(w), answer |-> "none"]
      BY <1>1, <1>2, <1>4, CallUpdate DEF CallOf, Target
    <2>2. Calls' = [Calls EXCEPT ![w] = [target |-> Target(w), answer |-> result]]
      <3>1. CallOf(task) = [target |-> Target(w), answer |-> result]
        BY <1>3 DEF CallOf, Target
      <3>2. Calls' = [Calls EXCEPT ![w] = CallOf(task)]
        BY <1>1, <1>4, CallUpdate
      <3>3. QED
        BY <3>1, <3>2, Zenon
    <2>3. [Calls[w] EXCEPT !.answer = result] = [target |-> Target(w), answer |-> result]
      BY <2>1
    <2>4. Calls' = [Calls EXCEPT ![w].answer = result]
      BY <2>2, <2>3, Zenon
    <2>5. QED
      BY <1>2, <2>1, <2>4 DEF Log!Answer, Calls
  <1>7. QED
    BY <1>5, <1>6 DEF Refines, Log!Next

LEMMA RecordStep ==
    ASSUME RefinementInv, NEW w \in Workers, Records(w), UNCHANGED accepts
    PROVE  Refines
  <1> DEFINE task == [IdleWorker EXCEPT !.stage = "finished", !.message = worker[w].message]
             n == Target(w)
  <1>1. worker \in [Workers -> WorkerStates] /\ worker[w] \in WorkerStates
    BY DEF RefinementInv, AttemptInv, TypeInv, TypeOK, WorkerTypeOK
  <1>2. worker[w].stage = "called" /\ worker[w].result \in Results /\ n \in Notifications
    BY RecordsNextNumber DEF Records, RefinementInv, AnswersAreFresh
  <1>3. task \in WorkerStates /\ task.stage = "finished" /\ task.result = "none"
    BY <1>1, IdleWorkerType DEF IdleWorker, WorkerStates, Stages
  <1>4. TaskStep(w, task)
    BY <1>3 DEF Records, Finish, TaskStep
  <1>5. AnswersAreFresh'
    BY <1>3, <1>4, FreshStep
  <1>6. Log!Record(w)
    <2>1. Calls[w] = [target |-> n, answer |-> worker[w].result]
      BY <1>1, <1>2, <1>4, CallUpdate DEF CallOf, Target
    <2>2. Calls' = [Calls EXCEPT ![w] = Log!NoCall]
      BY <1>1, <1>3, <1>4, CallUpdate DEF CallOf, Log!NoCall
    <2>3. n # None /\ worker[w].result # "none"
      BY <1>2, NoneAssumption DEF Results
    <2>4. attempts' = [attempts EXCEPT ![n] =
              @ \cup {[number |-> Cardinality(@) + 1, result |-> worker[w].result]}]
      BY RecordsNextNumber DEF Records, Entry, RefinementInv
    <2>5. Calls[w].target = n /\ Calls[w].answer = worker[w].result
      BY <2>1
    <2>6. attempts' = [attempts EXCEPT ![Calls[w].target] =
              @ \cup {[number |-> Log!Cardinality(@) + 1, result |-> Calls[w].answer]}]
      BY <2>4, <2>5, SameCardinality
    <2>7. QED
      BY <2>2, <2>3, <2>5, <2>6 DEF Log!Record, Calls
  <1>7. QED
    BY <1>5, <1>6 DEF Refines, Log!Next

(* A call that leaves no attempt: its task crashed or met a conflict. *)
LEMMA ForgetStep ==
    ASSUME RefinementInv, NEW w \in Workers, NEW task, TaskStep(w, task),
           task.stage \notin {"calling", "called"}, task.result = "none",
           UNCHANGED <<attempts, accepts>>
    PROVE  Refines
  <1>1. worker \in [Workers -> WorkerStates]
    BY DEF RefinementInv, AttemptInv, TypeInv, TypeOK, WorkerTypeOK
  <1>2. CASE worker[w].stage \in {"calling", "called"}
    <2>1. AnswersAreFresh'
      BY FreshStep
    <2>2. Target(w) \in Notifications /\ Target(w) # None
      BY <1>2, NoneAssumption DEF RefinementInv, AttemptInv, TypeInv, TasksHaveTargets
    <2>3. Calls[w] # Log!NoCall
      <3>1. Calls[w].target = Target(w)
        <4>1. CallOf(worker[w]).target = Target(w)
          BY <1>2 DEF CallOf, Target
        <4>2. Calls[w] = CallOf(worker[w])
          BY <1>1, CallUpdate
        <4>3. QED
          BY <4>1, <4>2, Zenon
      <3>2. Log!NoCall.target = None
        BY DEF Log!NoCall
      <3>3. QED
        BY <2>2, <3>1, <3>2
    <2>4. Calls' = [Calls EXCEPT ![w] = Log!NoCall]
      BY <1>1, CallUpdate DEF CallOf, Log!NoCall
    <2>5. Log!Forget(w)
      BY <2>3, <2>4 DEF Log!Forget, Calls
    <2>6. QED
      BY <2>1, <2>5 DEF Refines, Log!Next
  <1>3. CASE worker[w].stage \notin {"calling", "called"}
    BY <1>3, QuietStep
  <1>4. QED
    BY <1>2, <1>3

LEMMA WorkerRefines ==
    ASSUME RefinementInv, [Next]_vars, WorkerNext
    PROVE  Refines
  <1>1. worker \in [Workers -> WorkerStates]
    BY DEF RefinementInv, AttemptInv, TypeInv, TypeOK, WorkerTypeOK
  <1>2. ASSUME NEW w \in Workers, Receipt(w)
        PROVE  Refines
    <2>1. PICK m \in Messages : ReturnEarly(w, m) \/ RefuseLease(w, m) \/ Receive(w, m)
      BY <1>2 DEF Receipt
    <2>2. CASE ReturnEarly(w, m) \/ RefuseLease(w, m)
      BY <2>2, InvisibleStep DEF ReturnEarly, RefuseLease, rows, Invisible
    <2>3. CASE Receive(w, m)
      <3> DEFINE task == [worker[w] EXCEPT !.stage = "read", !.message = m,
                                           !.loaded = notif[m.notification]]
      <3>1. worker[w] \in WorkerStates /\ worker[w].stage = "idle" /\ worker[w].result = "none"
        BY <1>1, <2>3 DEF Receive, RefinementInv, AnswersAreFresh
      <3>2. m \in [notification : Notifications \cup {None}, eta : Timers]
        BY DEF Messages
      <3>3. notif[m.notification] \in Rows
        BY DEF Messages, RefinementInv, AttemptInv, TypeInv, TypeOK, StoreTypeOK
      <3>4. task \in WorkerStates /\ task.stage = "read" /\ task.result = "none"
        BY <3>1, <3>2, <3>3 DEF WorkerStates, Stages
      <3>5. TaskStep(w, task)
        BY <2>3, <3>1, <3>4, <1>1 DEF Receive, TaskStep, WorkerStates
      <3>6. QED
        BY <2>3, <3>1, <3>4, <3>5, QuietStep DEF Receive, rows
    <2>4. QED
      BY <2>1, <2>2, <2>3
  <1>3. ASSUME NEW w \in Workers, Claim(w)
        PROVE  Refines
    <2> DEFINE row == ClaimedRow(worker[w].loaded, worker[w].loaded)
               task == [worker[w] EXCEPT !.stage = "claimed", !.loaded = row]
    <2>1. worker[w] \in WorkerStates /\ worker[w].stage = "read" /\ worker[w].result = "none"
      BY <1>1, <1>3 DEF Claim, RefinementInv, AnswersAreFresh
    <2>2. row \in Rows
      BY <2>1, ClaimedRowType DEF WorkerStates
    <2>3. task \in WorkerStates /\ task.stage = "claimed" /\ task.result = "none"
      BY <2>1, <2>2 DEF WorkerStates, Stages
    <2>4. TaskStep(w, task)
      BY <1>1, <1>3, <2>1, <2>3 DEF Claim, TaskStep, WorkerStates
    <2>5. QED
      BY <1>3, <2>1, <2>3, <2>4, QuietStep DEF Claim
  <1>4. ASSUME NEW w \in Workers, NEW result \in Results, ProviderAnswers(w, result)
        PROVE  Refines
    BY <1>4, AnswerStep DEF ProviderAnswers, rows
  <1>5. ASSUME NEW w \in Workers, AnswerLost(w)
        PROVE  Refines
    BY <1>5, AnswerStep DEF AnswerLost, rows, Results
  <1>6. ASSUME NEW w \in Workers, \/ RecordAccepted(w) \/ RecordDeferred(w)
                                  \/ RecordDeadLettered(w) \/ RecordFailed(w)
        PROVE  Refines
    <2>1. Records(w) /\ UNCHANGED accepts
      BY <1>6 DEF RecordAccepted, RecordDeferred, RecordDeadLettered, RecordFailed,
         RecordOutcome, Records, Entry
    <2>2. QED
      BY <2>1, RecordStep
  <1>7. ASSUME NEW w \in Workers, RecordConflict(w)
        PROVE  Refines
    <2> DEFINE task == [IdleWorker EXCEPT !.stage = "finished", !.message = worker[w].message]
    <2>1. task \in WorkerStates /\ task.stage = "finished" /\ task.result = "none"
      BY <1>1, IdleWorkerType DEF IdleWorker, WorkerStates, Stages
    <2>2. TaskStep(w, task)
      BY <1>7, <2>1 DEF RecordConflict, Finish, TaskStep
    <2>3. QED
      BY <1>7, <2>1, <2>2, ForgetStep DEF RecordConflict, storeVars, rows
  <1>8. ASSUME NEW w \in Workers, Acknowledge(w) \/ CrashWorker(w)
        PROVE  Refines
    <2>1. TaskStep(w, IdleWorker)
      BY <1>8, IdleWorkerType DEF Acknowledge, CrashWorker, TaskStep
    <2>2. QED
      BY <1>8, <2>1, ForgetStep DEF Acknowledge, CrashWorker, storeVars, rows, IdleWorker
  <1>9. ASSUME NEW n \in Notifications, ExpireLease(n)
        PROVE  Refines
    BY <1>9, InvisibleStep DEF ExpireLease, Invisible
  <1>10. QED
    BY <1>2, <1>3, <1>4, <1>5, <1>6, <1>7, <1>8, <1>9, StartCallStep DEF WorkerNext, Processing

(* The other components do not touch the log, the calls or the acceptances. *)
LEMMA OthersInvisible ==
    ASSUME [Next]_vars, ~(WorkerNext /\ UNCHANGED <<publisher, stuck, session>>)
    PROVE  Invisible
  <1>1. CASE UNCHANGED vars
    BY <1>1 DEF vars, storeVars, rows, Invisible
  <1>2. CASE PublisherNext /\ UNCHANGED worker
    BY <1>2 DEF PublisherNext, Publishing, SelectBatch, LeaseRow, Enqueue, EnqueueFails,
       LoadNotification, CommitPublished, CrashPublisher, OutboxLeasesExpire, ExpireOutboxLease,
       storeVars, rows, Invisible
  <1>3. CASE ReconcilerNext /\ UNCHANGED worker
    BY <1>3 DEF ReconcilerNext, ScanStuck, CommitRecovery, storeVars, rows, Invisible
  <1>4. CASE RequestsNext /\ UNCHANGED worker
    BY <1>4 DEF RequestsNext, CreateNotification, BeginOperation, BeginCallback, Ending,
       CommitCancel, CommitRetry, CommitReplay, CommitCallback, DuplicateCallback,
       storeVars, rows, Invisible
  <1>5. CASE UNCHANGED worker /\ \E n \in Notifications : TimePasses(n)
    BY <1>5 DEF TimePasses, rows, Invisible
  <1>6. QED
    BY <1>1, <1>2, <1>3, <1>4, <1>5 DEF Next

(* The delivery core implements AttemptLog: with any number of workers,    *)
(* crashes, lost answers and requests the attempts are an append-only,     *)
(* gapless log, every entry recorded by the task that made that call.      *)
THEOREM ImplementsLog == Spec => ImplementsAttemptLog
  <1>1. Init => RefinementInv /\ Log!Init
    BY RefinementInit
  <1>2. RefinementInv /\ [Next]_vars => Refines
    BY WorkerRefines, OthersInvisible, InvisibleStep
  <1>3. RefinementInv /\ AttemptInv' /\ [Next]_vars => RefinementInv' /\ [Log!Next]_(Log!vars)
    BY <1>2 DEF RefinementInv, Refines
  <1>4. QED
    BY <1>1, <1>3, AttemptInvariant, PTL DEF Spec, ImplementsAttemptLog, Log!Spec

-----------------------------------------------------------------------------
(***************************************************************************)
(* What a status promises about the rest of the store.  Every actor writes *)
(* the status from a snapshot it loaded earlier, so the argument is one    *)
(* case analysis of how a step can change a row (RowStep), and then one    *)
(* short invariant per promise.                                            *)
(***************************************************************************)

(* The ways in which a step can change the row of n. *)
RowKept(n) ==
    /\ notif'[n].status = notif[n].status
    /\ notif'[n].lease # "none" \/ notif'[n].lease = notif[n].lease

RowWaits(n) ==
    notif'[n].status \in {"accepted", "queued", "deferred", "failed", "cancelled"}

RowClaimed(n) ==
    notif'[n].status = "processing" /\ notif'[n].lease = "live"

RowSent(n) ==
    /\ notif'[n].status = "sent"
    /\ \E w \in Workers :
          Target(w) = n /\ worker[w].result = "accepted" /\ Records(w)

RowDead(n) ==
    /\ notif'[n].status = "dead_lettered"
    /\ \E w \in Workers :
          Target(w) = n /\ ~RetriesLeft(worker[w].number) /\ Records(w)

RowReported(n) ==
    /\ notif'[n].status \in {"sent", "delivered"}
    /\ \E s \in Sessions :
          session[s].notification = n /\ session[s].request \in ProviderEvents

RowChange(n) ==
    \/ RowKept(n) \/ RowWaits(n) \/ RowClaimed(n)
    \/ RowSent(n) \/ RowDead(n) \/ RowReported(n)

-----------------------------------------------------------------------------
(* How a step can change a row.                                            *)

(* Assigning one column of one row. *)
LEMMA ColumnUpdate ==
    ASSUME NEW f \in [Notifications -> Rows], NEW m \in Notifications, NEW x,
           NEW n \in Notifications
    PROVE  /\ [f EXCEPT ![m].status = x][n] = IF n = m THEN [f[n] EXCEPT !.status = x] ELSE f[n]
           /\ [f[n] EXCEPT !.status = x].status = x
           /\ [f[n] EXCEPT !.status = x].lease = f[n].lease
           /\ [f[n] EXCEPT !.lease = x].lease = x
           /\ [f[n] EXCEPT !.lease = x].status = f[n].status
  BY DEF Rows

LEMMA ClaimedRowColumns ==
    ASSUME NEW row \in Rows, NEW loaded \in Rows
    PROVE  /\ ClaimedRow(row, loaded).lease = "live"
           /\ ClaimedRow(row, loaded).status \in {row.status, "processing"}
  BY DEF ClaimedRow, Rows

LEMMA RecordRowStep ==
    ASSUME TypeInv, NEW w \in Workers, NEW n \in Notifications,
           \/ RecordAccepted(w) \/ RecordDeferred(w)
           \/ RecordDeadLettered(w) \/ RecordFailed(w)
    PROVE  RowChange(n)
  <1>1. notif \in [Notifications -> Rows]
    BY DEF TypeInv, TypeOK, StoreTypeOK
  <1>2. Records(w)
    BY DEF RecordAccepted, RecordDeferred, RecordDeadLettered, RecordFailed, RecordOutcome,
       Records, Entry
  <1>3. CASE n # Target(w)
    BY <1>1, <1>3 DEF RecordAccepted, RecordDeferred, RecordDeadLettered, RecordFailed,
       RecordOutcome, RowChange, RowKept
  <1>4. CASE n = Target(w)
    <2>1. CASE RecordAccepted(w)
      BY <1>1, <1>2, <1>4, <2>1 DEF RecordAccepted, RecordOutcome, RowChange, RowSent
    <2>2. CASE RecordDeferred(w)
      BY <1>1, <1>4, <2>2 DEF RecordDeferred, RecordOutcome, RowChange, RowWaits
    <2>3. CASE RecordDeadLettered(w)
      BY <1>1, <1>2, <1>4, <2>3 DEF RecordDeadLettered, RecordOutcome, RowChange, RowDead
    <2>4. CASE RecordFailed(w)
      BY <1>1, <1>4, <2>4 DEF RecordFailed, RecordOutcome, RowChange, RowWaits
    <2>5. QED
      BY <2>1, <2>2, <2>3, <2>4
  <1>5. QED
    BY <1>3, <1>4

LEMMA WorkerRowStep ==
    ASSUME TypeInv, WorkerNext, NEW n \in Notifications
    PROVE  RowChange(n)
  <1>1. notif \in [Notifications -> Rows] /\ worker \in [Workers -> WorkerStates]
    BY DEF TypeInv, TypeOK, StoreTypeOK, WorkerTypeOK
  <1>2. CASE UNCHANGED notif
    BY <1>2 DEF RowChange, RowKept
  <1>3. ASSUME NEW w \in Workers, Receipt(w) \/ AnswerLost(w) \/ CrashWorker(w)
        PROVE  UNCHANGED notif
    BY <1>3 DEF Receipt, ReturnEarly, RefuseLease, Receive, AnswerLost, CrashWorker, rows
  <1>4. ASSUME NEW w \in Workers, Claim(w)
        PROVE  RowChange(n)
    <2>1. Target(w) \in Notifications
      BY <1>4 DEF Claim, TypeInv, TasksHaveTargets
    <2>2. notif'[n] = IF n = Target(w) THEN ClaimedRow(notif[n], worker[w].loaded) ELSE notif[n]
      BY <1>1, <1>4, <2>1 DEF Claim
    <2>3. worker[w].loaded \in Rows /\ notif[n] \in Rows
      BY <1>1 DEF WorkerStates
    <2>4. QED
      BY <2>2, <2>3, ClaimedRowColumns DEF RowChange, RowKept, RowClaimed
  <1>5. ASSUME NEW w \in Workers, Processing(w)
        PROVE  RowChange(n)
    <2>1. CASE StartCall(w) \/ \E result \in Results : ProviderAnswers(w, result)
      BY <1>2, <2>1 DEF StartCall, ProviderAnswers, storeVars, rows
    <2>2. CASE RecordConflict(w) \/ Acknowledge(w)
      BY <1>2, <2>2 DEF RecordConflict, Acknowledge, storeVars, rows
    <2>3. QED
      BY <1>4, <1>5, <2>1, <2>2, RecordRowStep DEF Processing
  <1>6. ASSUME NEW m \in Notifications, ExpireLease(m)
        PROVE  RowChange(n)
    <2>1. notif'[n] = IF n = m THEN [notif[n] EXCEPT !.lease = "expired"] ELSE notif[n]
      BY <1>1, <1>6 DEF ExpireLease
    <2>2. QED
      BY <1>1, <2>1, ColumnUpdate DEF RowChange, RowKept
  <1>7. QED
    BY <1>2, <1>3, <1>5, <1>6 DEF WorkerNext

LEMMA PublisherRowStep ==
    ASSUME TypeInv, PublisherNext, NEW n \in Notifications
    PROVE  RowChange(n)
  <1>1. notif \in [Notifications -> Rows]
    BY DEF TypeInv, TypeOK, StoreTypeOK
  <1>2. CASE UNCHANGED notif
    BY <1>2 DEF RowChange, RowKept
  <1>3. ASSUME NEW p \in Publishers, CommitPublished(p)
        PROVE  RowChange(n)
    <2>1. publisher[p].row[1] \in Notifications
      BY <1>3 DEF CommitPublished, TypeInv, PublishersHaveRows, RowNames
    <2>2. \/ UNCHANGED notif
          \/ notif' = [notif EXCEPT ![publisher[p].row[1]].status = "queued"]
      BY <1>3 DEF CommitPublished
    <2>3. notif'[n] = notif[n] \/ notif'[n].status = "queued"
      BY <1>1, <2>1, <2>2 DEF Rows
    <2>4. QED
      BY <2>3 DEF RowChange, RowKept, RowWaits
  <1>4. ASSUME NEW p \in Publishers, Publishing(p) \/ CrashPublisher(p)
        PROVE  UNCHANGED notif \/ CommitPublished(p)
    <2>1. CASE \/ SelectBatch(p) \/ LoadNotification(p) \/ Enqueue(p) \/ CrashPublisher(p)
      BY <2>1 DEF SelectBatch, LoadNotification, Enqueue, CrashPublisher, storeVars, rows
    <2>2. CASE EnqueueFails(p) \/ \E r \in publisher[p].batch : LeaseRow(p, r)
      BY <2>2 DEF EnqueueFails, LeaseRow
    <2>3. QED
      BY <1>4, <2>1, <2>2 DEF Publishing
  <1>5. CASE OutboxLeasesExpire
    BY <1>2, <1>5 DEF OutboxLeasesExpire, ExpireOutboxLease
  <1>6. QED
    BY <1>2, <1>3, <1>4, <1>5 DEF PublisherNext

LEMMA ReconcilerRowStep ==
    ASSUME TypeInv, ReconcilerNext, NEW n \in Notifications
    PROVE  RowChange(n)
  <1>1. notif[n] \in Rows
    BY DEF TypeInv, TypeOK, StoreTypeOK
  <1>2. [notif[n] EXCEPT !.status = "queued", !.lease = "none"].status = "queued"
    BY <1>1 DEF Rows
  <1>3. CASE ScanStuck
    BY <1>3 DEF ScanStuck, storeVars, rows, RowChange, RowKept
  <1>4. CASE CommitRecovery
    <2>1. notif'[n].status = "queued" \/ notif'[n] = notif[n]
      BY <1>2, <1>4 DEF CommitRecovery
    <2>2. QED
      BY <2>1 DEF RowChange, RowKept, RowWaits
  <1>5. QED
    BY <1>3, <1>4 DEF ReconcilerNext

(* A transition leaves the status alone or sets it to what was reported. *)
LEMMA TransitionResult ==
    ASSUME NEW status \in Statuses, NEW event \in ProviderEvents
    PROVE  Transition(status, event) \in {status, event}
  BY DEF Transition, ProviderEvents

LEMMA RequestsRowStep ==
    ASSUME TypeInv, RequestsNext, NEW n \in Notifications
    PROVE  RowChange(n)
  <1>1. notif \in [Notifications -> Rows]
    BY DEF TypeInv, TypeOK, StoreTypeOK
  <1>2. CASE UNCHANGED notif
    BY <1>2 DEF RowChange, RowKept
  <1>3. ASSUME NEW m \in Notifications, CreateNotification(m)
        PROVE  RowChange(n)
    BY <1>1, <1>3, ColumnUpdate DEF CreateNotification, RowChange, RowKept, RowWaits
  <1>4. ASSUME NEW s \in Sessions, Ending(s)
        PROVE  RowChange(n)
    <2> DEFINE m == session[s].notification
    <2>1. m \in Notifications /\ session[s].loaded.status \in Statuses
      <3>1. session[s].request # "none"
        BY <1>4 DEF Ending, CommitCancel, CommitRetry, CommitReplay, CommitCallback,
           DuplicateCallback, ProviderEvents
      <3>2. QED
        BY <3>1 DEF TypeInv, TypeOK, SessionsHaveTargets, SessionTypeOK, SessionStates, Rows
    <2>2. CASE CommitCancel(s)
      BY <1>1, <2>1, <2>2, ColumnUpdate DEF CommitCancel, RowChange, RowKept, RowWaits
    <2>3. CASE CommitRetry(s)
      <3>1. notif'[n].status = "queued" \/ notif'[n] = notif[n]
        BY <1>1, <2>1, <2>3 DEF CommitRetry
      <3>2. QED
        BY <3>1 DEF RowChange, RowKept, RowWaits
    <2>4. CASE CommitReplay(s)
      <3>1. notif'[n].status = "queued" \/ notif'[n] = notif[n]
        BY <1>1, <2>1, <2>4 DEF CommitReplay, Rows
      <3>2. QED
        BY <3>1 DEF RowChange, RowKept, RowWaits
    <2>5. CASE CommitCallback(s)
      <3>1. session[s].request \in ProviderEvents
        BY <2>5 DEF CommitCallback
      <3>2. UNCHANGED notif \/ notif' = [notif EXCEPT ![m].status = session[s].request]
        BY <2>1, <2>5, <3>1, TransitionResult DEF CommitCallback
      <3>3. notif'[n] = notif[n] \/ (n = m /\ notif'[n].status = session[s].request)
        BY <1>1, <2>1, <3>2 DEF Rows
      <3>4. QED
        BY <3>1, <3>3 DEF RowChange, RowKept, RowWaits, RowReported, ProviderEvents
    <2>6. CASE DuplicateCallback(s)
      BY <1>2, <2>6 DEF DuplicateCallback, storeVars, rows
    <2>7. QED
      BY <1>4, <2>2, <2>3, <2>4, <2>5, <2>6 DEF Ending
  <1>5. QED
    BY <1>2, <1>3, <1>4 DEF RequestsNext, BeginOperation, BeginCallback, storeVars, rows

LEMMA RowStep ==
    ASSUME TypeInv, [Next]_vars, NEW n \in Notifications
    PROVE  RowChange(n)
  <1>1. CASE UNCHANGED vars
    BY <1>1 DEF vars, storeVars, rows, RowChange, RowKept
  <1>2. CASE \E m \in Notifications : TimePasses(m)
    BY <1>2 DEF TimePasses, rows, RowChange, RowKept
  <1>3. QED
    BY <1>1, <1>2, WorkerRowStep, PublisherRowStep, ReconcilerRowStep, RequestsRowStep DEF Next

-----------------------------------------------------------------------------
LEMMA LeaseInvariant == Spec => [](TypeInv /\ ProcessingHasLease)
  <1>1. Init => TypeInv /\ ProcessingHasLease
    BY TypeInit DEF Init, StoreInit, AbsentRow, ProcessingHasLease
  <1>2. TypeInv /\ ProcessingHasLease /\ [Next]_vars => ProcessingHasLease'
    <2> SUFFICES ASSUME TypeInv, ProcessingHasLease, [Next]_vars, NEW n \in Notifications,
                        notif'[n].status = "processing"
                 PROVE  notif'[n].lease # "none"
      BY DEF ProcessingHasLease
    <2>1. RowKept(n) \/ RowClaimed(n)
      BY RowStep DEF RowChange, RowWaits, RowSent, RowDead, RowReported
    <2>2. QED
      BY <2>1 DEF RowKept, RowClaimed, ProcessingHasLease
  <1>3. QED
    BY <1>1, <1>2, TypeStep, PTL DEF Spec

(* A notification in PROCESSING always carries a lease, so the reconciler  *)
(* can find it once the lease has expired.                                 *)
THEOREM ProcessingIsLeased == Spec => []ProcessingHasLease
  BY LeaseInvariant, PTL

-----------------------------------------------------------------------------
(* SENT and DEAD_LETTERED rest on the recorded attempts.                   *)

CallbacksKnown ==
    \A s \in Sessions :
        session[s].request \in ProviderEvents => KnownToProvider(session[s].notification)

StatusInv ==
    /\ AttemptInv
    /\ SentHasAcceptedAttempt
    /\ DeadLetteredMeansExhausted
    /\ CallbacksKnown

LEMMA StatusInit == Init => StatusInv
  <1> SUFFICES ASSUME Init PROVE StatusInv
    OBVIOUS
  <1>1. SentHasAcceptedAttempt /\ DeadLetteredMeansExhausted
    BY DEF Init, StoreInit, AbsentRow, SentHasAcceptedAttempt, DeadLetteredMeansExhausted
  <1>2. CallbacksKnown
    BY DEF Init, SessionInit, IdleSession, ProviderEvents, CallbacksKnown
  <1>3. QED
    BY <1>1, <1>2, AttemptInit DEF StatusInv

(* A session starts to report an event only for a known notification. *)
LEMMA SessionStep ==
    ASSUME TypeInv, [Next]_vars, NEW s \in Sessions
    PROVE  \/ session'[s] = session[s]
           \/ session'[s].request \notin ProviderEvents
           \/ KnownToProvider(session'[s].notification) /\ UNCHANGED attempts
  <1>1. session \in [Sessions -> SessionStates]
    BY DEF TypeInv, TypeOK, SessionTypeOK
  <1>2. ASSUME NEW t \in Sessions, NEW n \in Notifications, NEW request \in Operations,
               BeginOperation(t, request, n)
        PROVE  session'[s] = session[s] \/ session'[s].request \notin ProviderEvents
    BY <1>1, <1>2 DEF BeginOperation, Load, Operations, ProviderEvents
  <1>3. ASSUME NEW t \in Sessions, NEW n \in Notifications, NEW event \in CallbackEvents,
               BeginCallback(t, event, n)
        PROVE  \/ session'[s] = session[s]
               \/ KnownToProvider(session'[s].notification) /\ UNCHANGED attempts
    BY <1>1, <1>3 DEF BeginCallback, Load, storeVars, rows
  <1>4. ASSUME NEW t \in Sessions, Ending(t)
        PROVE  session'[s] = session[s] \/ session'[s].request \notin ProviderEvents
    <2>1. session' = [session EXCEPT ![t] = IdleSession]
      BY <1>4 DEF Ending, CommitCancel, CommitRetry, CommitReplay, CommitCallback,
         DuplicateCallback, EndRequest
    <2>2. QED
      BY <1>1, <2>1 DEF IdleSession, ProviderEvents
  <1>5. CASE UNCHANGED session
    BY <1>5
  <1>6. CASE RequestsNext
    BY <1>2, <1>3, <1>4, <1>5, <1>6 DEF RequestsNext, CreateNotification
  <1>7. QED
    BY <1>5, <1>6 DEF Next, vars

LEMMA CallbacksStep ==
    ASSUME StatusInv, [Next]_vars
    PROVE  CallbacksKnown'
  <1> SUFFICES ASSUME NEW s \in Sessions, session'[s].request \in ProviderEvents
               PROVE  \E a \in attempts'[session'[s].notification] : a.result = "accepted"
    BY DEF CallbacksKnown, KnownToProvider
  <1>1. TypeInv /\ TypeInv'
    BY TypeStep DEF StatusInv, AttemptInv
  <1>2. session'[s].notification \in Notifications
    BY <1>1 DEF TypeInv, SessionsHaveTargets, ProviderEvents
  <1>3. attempts[session'[s].notification] \subseteq attempts'[session'[s].notification]
    BY <1>2, AttemptsGrow DEF StatusInv
  <1>4. CASE session'[s] = session[s]
    BY <1>3, <1>4 DEF StatusInv, CallbacksKnown, KnownToProvider
  <1>5. CASE KnownToProvider(session'[s].notification) /\ UNCHANGED attempts
    BY <1>5 DEF KnownToProvider
  <1>6. QED
    BY <1>1, <1>4, <1>5, SessionStep

LEMMA SentStep ==
    ASSUME StatusInv, [Next]_vars
    PROVE  SentHasAcceptedAttempt'
  <1> SUFFICES ASSUME NEW n \in Notifications, notif'[n].status \in {"sent", "delivered"}
               PROVE  \E a \in attempts'[n] : a.result = "accepted"
    BY DEF SentHasAcceptedAttempt
  <1>1. attempts[n] \subseteq attempts'[n]
    BY AttemptsGrow DEF StatusInv
  <1>2. RowKept(n) \/ RowSent(n) \/ RowReported(n)
    BY RowStep DEF StatusInv, AttemptInv, RowChange, RowWaits, RowClaimed, RowDead
  <1>3. CASE RowKept(n)
    BY <1>1, <1>3 DEF RowKept, StatusInv, SentHasAcceptedAttempt
  <1>4. CASE RowReported(n)
    BY <1>1, <1>4 DEF RowReported, StatusInv, CallbacksKnown, KnownToProvider
  <1>5. CASE RowSent(n)
    <2>1. PICK w \in Workers : Target(w) = n /\ worker[w].result = "accepted" /\ Records(w)
      BY <1>5 DEF RowSent
    <2>2. Entry(w) \in attempts'[n]
      BY <2>1 DEF Records, StatusInv, AttemptInv, TypeInv, TypeOK, StoreTypeOK
    <2>3. QED
      BY <2>1, <2>2 DEF Entry
  <1>6. QED
    BY <1>2, <1>3, <1>4, <1>5

LEMMA DeadStep ==
    ASSUME StatusInv, [Next]_vars
    PROVE  DeadLetteredMeansExhausted'
  <1> SUFFICES ASSUME NEW n \in Notifications, notif'[n].status = "dead_lettered"
               PROVE  Cardinality(attempts'[n]) >= MaxAttempts
    BY DEF DeadLetteredMeansExhausted
  <1>1. /\ Cardinality(attempts[n]) \in Nat
        /\ Cardinality(attempts'[n]) \in Nat
        /\ Cardinality(attempts[n]) <= Cardinality(attempts'[n])
    BY AttemptsGrow DEF StatusInv
  <1>2. RowKept(n) \/ RowDead(n)
    <2>1. RowChange(n)
      BY RowStep DEF StatusInv, AttemptInv
    <2>2. ~RowWaits(n) /\ ~RowClaimed(n) /\ ~RowSent(n) /\ ~RowReported(n)
      BY DEF RowWaits, RowClaimed, RowSent, RowReported
    <2>3. QED
      BY <2>1, <2>2 DEF RowChange
  <1>3. CASE RowKept(n)
    BY <1>1, <1>3, MaxAttemptsAssumption DEF RowKept, StatusInv, DeadLetteredMeansExhausted
  <1>4. CASE RowDead(n)
    <2>1. PICK w \in Workers :
              Target(w) = n /\ ~RetriesLeft(worker[w].number) /\ Records(w)
      BY <1>4 DEF RowDead
    <2>2. /\ worker[w].number = Cardinality(attempts[Target(w)]) + 1
          /\ Cardinality(attempts'[Target(w)]) = Cardinality(attempts[Target(w)]) + 1
      BY <2>1, RecordsNextNumber DEF StatusInv
    <2>3. QED
      BY <1>1, <2>1, <2>2, MaxAttemptsAssumption DEF RetriesLeft
  <1>5. QED
    BY <1>2, <1>3, <1>4

LEMMA StatusStep ==
    ASSUME StatusInv, [Next]_vars
    PROVE  StatusInv'
  <1>1. AttemptInv'
    BY TypeStep, ContiguityStep, NumbersStep DEF StatusInv, AttemptInv
  <1>2. QED
    BY <1>1, SentStep, DeadStep, CallbacksStep DEF StatusInv

LEMMA StatusInvariant == Spec => []StatusInv
  <1>1. StatusInv /\ [Next]_vars => StatusInv'
    BY StatusStep
  <1>2. QED
    BY <1>1, StatusInit, PTL DEF Spec

(* SENT and DELIVERED rest on a recorded, accepted attempt, whoever wrote  *)
(* the status.                                                             *)
THEOREM SentIsAccepted == Spec => []SentHasAcceptedAttempt
  <1>1. StatusInv => SentHasAcceptedAttempt
    BY DEF StatusInv
  <1>2. QED
    BY <1>1, StatusInvariant, PTL

(* A dead letter has used up the retry budget, also after replays and with *)
(* several tasks on one notification.                                      *)
THEOREM DeadLetterIsExhausted == Spec => []DeadLetteredMeansExhausted
  <1>1. StatusInv => DeadLetteredMeansExhausted
    BY DEF StatusInv
  <1>2. QED
    BY <1>1, StatusInvariant, PTL

-----------------------------------------------------------------------------
(* CANCELLED is only overwritten from a snapshot taken before.             *)

(* A publisher about to commit has the notification of its row in its session. *)
LoadedIsSeen ==
    \A p \in Publishers :
        publisher[p].stage = "loaded" => publisher[p].seen = publisher[p].row[1]

(* A request under way was allowed on the row it loaded. *)
RequestsPermitted ==
    \A s \in Sessions :
        session[s].request \in Operations
            => Permitted(session[s].request, session[s].loaded.status)

SnapshotInv == TypeInv /\ LoadedIsSeen /\ RequestsPermitted

LEMMA SnapshotInit == Init => SnapshotInv
  BY TypeInit DEF Init, PublisherInit, IdlePublisher, SessionInit, IdleSession, Operations,
     SnapshotInv, LoadedIsSeen, RequestsPermitted

LEMMA LoadedStep ==
    ASSUME SnapshotInv, [Next]_vars
    PROVE  LoadedIsSeen'
  <1> SUFFICES ASSUME NEW p \in Publishers, publisher'[p].stage = "loaded"
               PROVE  publisher'[p].seen = publisher'[p].row[1]
    BY DEF LoadedIsSeen
  <1>1. publisher \in [Publishers -> PublisherStates]
    BY DEF SnapshotInv, TypeInv, TypeOK, PublisherTypeOK
  <1>2. CASE publisher'[p] = publisher[p]
    BY <1>2 DEF SnapshotInv, LoadedIsSeen
  <1>3. ASSUME NEW q \in Publishers, LoadNotification(q)
        PROVE  publisher'[p].seen = publisher'[p].row[1]
    <2>1. CASE p # q
      BY <1>1, <1>2, <1>3, <2>1 DEF LoadNotification
    <2>2. CASE p = q
      BY <1>1, <1>3, <2>2 DEF LoadNotification, PublisherStates
    <2>3. QED
      BY <2>1, <2>2
  <1>4. ASSUME NEW q \in Publishers, CommitPublished(q) \/ EnqueueFails(q) \/ CrashPublisher(q)
        PROVE  publisher'[p].seen = publisher'[p].row[1]
    <2>1. CASE CrashPublisher(q)
      BY <1>1, <1>2, <2>1 DEF CrashPublisher, IdlePublisher
    <2>2. ASSUME NEW seen, NEW status, NextRow(q, seen, status)
          PROVE  publisher'[p].seen = publisher'[p].row[1]
      BY <1>1, <1>2, <2>2 DEF NextRow, IdlePublisher
    <2>3. QED
      BY <1>4, <2>1, <2>2 DEF CommitPublished, EnqueueFails
  <1>5. ASSUME NEW q \in Publishers, SelectBatch(q) \/ Enqueue(q)
        PROVE  publisher'[p].seen = publisher'[p].row[1]
    BY <1>1, <1>2, <1>5 DEF SelectBatch, Enqueue, PublisherStates
  <1>6. ASSUME NEW q \in Publishers, NEW r, LeaseRow(q, r)
        PROVE  publisher'[p].seen = publisher'[p].row[1]
    BY <1>1, <1>2, <1>6 DEF LeaseRow, PublisherStates
  <1>7. CASE OutboxLeasesExpire
    BY <1>2, <1>7 DEF OutboxLeasesExpire, ExpireOutboxLease
  <1>8. CASE PublisherNext
    BY <1>3, <1>4, <1>5, <1>6, <1>7, <1>8 DEF PublisherNext, Publishing
  <1>9. CASE UNCHANGED publisher
    BY <1>2, <1>9
  <1>10. QED
    BY <1>8, <1>9 DEF Next, vars

LEMMA PermittedStep ==
    ASSUME SnapshotInv, [Next]_vars
    PROVE  RequestsPermitted'
  <1> SUFFICES ASSUME NEW s \in Sessions, session'[s].request \in Operations
               PROVE  Permitted(session'[s].request, session'[s].loaded.status)
    BY DEF RequestsPermitted, Permitted
  <1>1. session \in [Sessions -> SessionStates]
    BY DEF SnapshotInv, TypeInv, TypeOK, SessionTypeOK
  <1>2. CASE session'[s] = session[s]
    BY <1>2 DEF SnapshotInv, RequestsPermitted
  <1>3. ASSUME NEW t \in Sessions, NEW n \in Notifications, NEW request \in Operations,
               BeginOperation(t, request, n)
        PROVE  Permitted(session'[s].request, session'[s].loaded.status)
    BY <1>1, <1>2, <1>3 DEF BeginOperation, Load
  <1>4. ASSUME NEW t \in Sessions, NEW n \in Notifications, NEW event \in CallbackEvents,
               BeginCallback(t, event, n)
        PROVE  Permitted(session'[s].request, session'[s].loaded.status)
    BY <1>1, <1>2, <1>4, CallbackEventsAssumption DEF BeginCallback, Load, Operations, ProviderEvents
  <1>5. ASSUME NEW t \in Sessions, Ending(t)
        PROVE  Permitted(session'[s].request, session'[s].loaded.status)
    <2>1. session' = [session EXCEPT ![t] = IdleSession]
      BY <1>5 DEF Ending, CommitCancel, CommitRetry, CommitReplay, CommitCallback,
         DuplicateCallback, EndRequest
    <2>2. QED
      BY <1>1, <1>2, <2>1 DEF IdleSession, Operations
  <1>6. CASE RequestsNext
    BY <1>2, <1>3, <1>4, <1>5, <1>6 DEF RequestsNext, CreateNotification
  <1>7. QED
    BY <1>2, <1>6 DEF Next, vars

LEMMA SnapshotInvariant == Spec => []SnapshotInv
  <1>1. SnapshotInv /\ [Next]_vars => SnapshotInv'
    BY TypeStep, LoadedStep, PermittedStep DEF SnapshotInv
  <1>2. QED
    BY <1>1, SnapshotInit, PTL DEF Spec

(* The only row that can change is the target of one of these actors. *)
LEMMA WorkerOverwrites ==
    ASSUME TypeInv, WorkerNext, NEW n \in Notifications, notif'[n].status # notif[n].status
    PROVE  \E w \in Workers : Target(w) = n /\ worker[w].stage \in {"read", "called"}
  <1>1. notif \in [Notifications -> Rows]
    BY DEF TypeInv, TypeOK, StoreTypeOK
  <1>2. ASSUME NEW w \in Workers, Receipt(w) \/ AnswerLost(w) \/ CrashWorker(w)
        PROVE  FALSE
    BY <1>2 DEF Receipt, ReturnEarly, RefuseLease, Receive, AnswerLost, CrashWorker, rows
  <1>3. ASSUME NEW m \in Notifications, ExpireLease(m)
        PROVE  FALSE
    BY <1>1, <1>3 DEF ExpireLease, Rows
  <1>4. ASSUME NEW w \in Workers, Processing(w)
        PROVE  Target(w) = n /\ worker[w].stage \in {"read", "called"}
    <2>1. CASE Claim(w)
      BY <1>1, <2>1 DEF Claim
    <2>2. CASE \/ RecordAccepted(w) \/ RecordDeferred(w)
               \/ RecordDeadLettered(w) \/ RecordFailed(w)
      BY <1>1, <2>2 DEF RecordAccepted, RecordDeferred, RecordDeadLettered, RecordFailed,
         RecordOutcome
    <2>3. CASE \/ StartCall(w) \/ \E result \in Results : ProviderAnswers(w, result)
               \/ RecordConflict(w) \/ Acknowledge(w)
      BY <2>3 DEF StartCall, ProviderAnswers, RecordConflict, Acknowledge, storeVars, rows
    <2>4. QED
      BY <1>4, <2>1, <2>2, <2>3 DEF Processing
  <1>5. QED
    BY <1>2, <1>3, <1>4 DEF WorkerNext

LEMMA PublisherOverwrites ==
    ASSUME SnapshotInv, PublisherNext, NEW n \in Notifications, notif'[n].status # notif[n].status
    PROVE  \E p \in Publishers : publisher[p].seen = n
  <1>1. notif \in [Notifications -> Rows]
    BY DEF SnapshotInv, TypeInv, TypeOK, StoreTypeOK
  <1>2. ASSUME NEW p \in Publishers, CommitPublished(p)
        PROVE  publisher[p].seen = n
    <2>1. publisher[p].seen = publisher[p].row[1]
      BY <1>2 DEF CommitPublished, SnapshotInv, LoadedIsSeen
    <2>2. \/ UNCHANGED notif
          \/ notif' = [notif EXCEPT ![publisher[p].row[1]].status = "queued"]
      BY <1>2 DEF CommitPublished
    <2>3. QED
      BY <1>1, <2>1, <2>2
  <1>3. ASSUME NEW p \in Publishers,
               \/ SelectBatch(p) \/ LoadNotification(p) \/ Enqueue(p) \/ CrashPublisher(p)
               \/ EnqueueFails(p) \/ \E r \in publisher[p].batch : LeaseRow(p, r)
        PROVE  FALSE
    BY <1>3 DEF SelectBatch, LoadNotification, Enqueue, CrashPublisher, EnqueueFails, LeaseRow,
       storeVars, rows
  <1>4. CASE OutboxLeasesExpire
    BY <1>4 DEF OutboxLeasesExpire, ExpireOutboxLease
  <1>5. QED
    BY <1>2, <1>3, <1>4 DEF PublisherNext, Publishing

LEMMA RequestOverwrites ==
    ASSUME SnapshotInv, RequestsNext, NEW n \in Notifications,
           notif[n].status = "cancelled", notif'[n].status # "cancelled"
    PROVE  \E s \in Sessions :
               session[s].notification = n /\ session[s].loaded.status # "cancelled"
  <1>1. notif \in [Notifications -> Rows]
    BY DEF SnapshotInv, TypeInv, TypeOK, StoreTypeOK
  <1>2. CASE UNCHANGED notif
    BY <1>2
  <1>3. ASSUME NEW m \in Notifications, CreateNotification(m)
        PROVE  FALSE
    BY <1>1, <1>3 DEF CreateNotification
  <1>4. ASSUME NEW s \in Sessions, Ending(s)
        PROVE  session[s].notification = n /\ session[s].loaded.status # "cancelled"
    <2> DEFINE m == session[s].notification
    <2>1. n = m
      BY <1>1, <1>4 DEF Ending, CommitCancel, CommitRetry, CommitReplay, CommitCallback,
         DuplicateCallback, storeVars, rows
    <2>2. CASE CommitCancel(s)
      BY <1>1, <2>1, <2>2 DEF CommitCancel, Rows
    <2>3. CASE CommitRetry(s) \/ CommitReplay(s)
      <3>1. Permitted(session[s].request, session[s].loaded.status)
        BY <2>3 DEF CommitRetry, CommitReplay, Operations, SnapshotInv, RequestsPermitted
      <3>2. session[s].loaded.status # "cancelled"
        BY <3>1 DEF Permitted, Cancellable, Retryable, Replayable
      <3>3. QED
        BY <2>1, <3>2
    <2>4. CASE CommitCallback(s)
      <3>1. session[s].request \in ProviderEvents
        BY <2>4 DEF CommitCallback
      <3>2. Transition("cancelled", session[s].request) = "cancelled"
        BY <3>1 DEF Transition, ProviderEvents
      <3>3. session[s].loaded.status = "cancelled" => UNCHANGED notif
        BY <2>4, <3>2 DEF CommitCallback
      <3>4. QED
        BY <1>2, <2>1, <3>3
    <2>5. CASE DuplicateCallback(s)
      BY <1>2, <2>5 DEF DuplicateCallback, storeVars, rows
    <2>6. QED
      BY <1>4, <2>2, <2>3, <2>4, <2>5 DEF Ending
  <1>5. QED
    BY <1>2, <1>3, <1>4 DEF RequestsNext, BeginOperation, BeginCallback, storeVars, rows

(* A cancellation is only undone by an actor whose snapshot is older: no   *)
(* handler starts from a cancelled notification.                           *)
THEOREM CancelIsFinal == Spec => CancelUndoneOnlyByStaleActor
  <1>1. SnapshotInv /\ [Next]_vars
          => [\A n \in Notifications :
                 notif[n].status = "cancelled" /\ notif'[n].status # "cancelled"
                     => StaleActor(n)]_vars
    <2> SUFFICES ASSUME SnapshotInv, [Next]_vars, NEW n \in Notifications,
                        notif[n].status = "cancelled", notif'[n].status # "cancelled"
                 PROVE  StaleActor(n)
      OBVIOUS
    <2>1. CASE WorkerNext
      BY <2>1, WorkerOverwrites DEF StaleActor, SnapshotInv
    <2>2. CASE PublisherNext
      BY <2>2, PublisherOverwrites DEF StaleActor
    <2>3. CASE ReconcilerNext
      BY <2>3 DEF ReconcilerNext, ScanStuck, CommitRecovery, storeVars, rows, StaleActor
    <2>4. CASE RequestsNext
      BY <2>4, RequestOverwrites DEF StaleActor
    <2>5. CASE UNCHANGED notif
      BY <2>5
    <2>6. QED
      BY <2>1, <2>2, <2>3, <2>4, <2>5 DEF Next, vars, storeVars, rows, TimePasses
  <1>2. QED
    BY <1>1, SnapshotInvariant, PTL DEF Spec, CancelUndoneOnlyByStaleActor
=============================================================================
