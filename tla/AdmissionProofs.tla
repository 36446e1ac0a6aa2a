---------------------------- MODULE AdmissionProofs ----------------------------
(***************************************************************************)
(* Admission for any number of sessions, keys, limits and scenarios: a key *)
(* stands for one notification, nobody is charged for a request that was   *)
(* not accepted, and two sessions exceed a quota by a bounded number.      *)
(***************************************************************************)
EXTENDS ControlPlane, FiniteSetTheorems, TLAPS

(* Every step spends at most one request of the scenario. *)
LEMMA CatalogSpends ==
    ASSUME budget \in Bounds, CatalogNext
    PROVE  budget' \in Bounds
<1>1. CASE \E what \in {"edits", "transitions"} : Spend(what)
  BY <1>1 DEF Spend, Bounds
<1>2. CASE UNCHANGED budget
  BY <1>2
<1>3. (\E what \in {"edits", "transitions"} : Spend(what)) \/ UNCHANGED budget
  <2>1. ASSUME NEW e, NEW r, NEW v, NEW a, Begin(e, r, v, a) PROVE Spend("edits")
    BY <2>1 DEF Begin
  <2>2. ASSUME NEW e, NEW r, Ending(e, r) PROVE UNCHANGED budget
    BY <2>2 DEF Ending
  <2>3. ASSUME NEW e \in budget.editors, NEW v \in DOMAIN versions,
               \/ \E content \in Contents : BeginEdit(e, v, content)
               \/ BeginValidate(e, v) \/ BeginPublish(e, v) \/ BeginRollback(e, v)
        PROVE  Spend("edits")
    BY <2>1, <2>3 DEF BeginEdit, BeginValidate, BeginPublish, BeginRollback
  <2>4. ASSUME NEW e \in budget.editors,
               \/ BeginNext(e)
               \/ \E schema \in budget.schemas, mode \in Modes : BeginSchema(e, schema, mode)
        PROVE  Spend("edits")
    BY <2>1, <2>4 DEF BeginNext, BeginSchema
  <2>5. ASSUME NEW e \in budget.editors,
               \/ CommitEdit(e) \/ CommitValidate(e) \/ CommitPublish(e)
               \/ CommitNext(e) \/ CommitSchema(e)
        PROVE  UNCHANGED budget
    BY <2>2, <2>5 DEF CommitEdit, CommitValidate, CommitPublish, CommitNext, CommitSchema
  <2>6. ASSUME \/ \E content \in Contents : CreateTemplate(content)
               \/ \E schema \in budget.schemas, mode \in Modes : NewEvent(schema, mode)
        PROVE  Spend("edits")
    BY <2>6 DEF CreateTemplate, NewEvent
  <2>7. ASSUME \/ \E to \in {"disabled", "archived"} : TransitionTemplate(to)
               \/ TransitionEvent
        PROVE  Spend("transitions")
    BY <2>7 DEF TransitionTemplate, TransitionEvent
  <2> QED BY <2>3, <2>4, <2>5, <2>6, <2>7 DEF CatalogNext
<1> QED BY <1>1, <1>2, <1>3

LEMMA ProvidersSpend ==
    ASSUME budget \in Bounds, ProvidersNext
    PROVE  budget' \in Bounds
<1>1. CASE Spend("configs")
  BY <1>1 DEF Spend, Bounds
<1>2. CASE UNCHANGED budget
  BY <1>2
<1>3. Spend("configs") \/ UNCHANGED budget
  <2>1. ASSUME NEW e, NEW p, NEW r, NEW c, BeginRequest(e, p, r, c) PROVE Spend("configs")
    BY <2>1 DEF BeginRequest
  <2>2. ASSUME NEW e, NEW request, NEW rows, Finishing(e, request, rows) PROVE UNCHANGED budget
    BY <2>2 DEF Finishing
  <2>3. ASSUME NEW e \in budget.editors, NEW app \in BOOLEAN, NEW default \in BOOLEAN,
               NEW policy \in Policies, NEW fallback \in {0} \cup DOMAIN providers,
               BeginCreate(e, app, default, policy, fallback)
        PROVE  Spend("configs")
    BY <2>1, <2>3 DEF BeginCreate
  <2>4. ASSUME NEW e \in budget.editors, NEW p \in DOMAIN providers,
               \/ BeginTest(e, p) \/ BeginDefault(e, p) \/ BeginReplace(e, p)
               \/ BeginUnset(e, p) \/ BeginArchive(e, p)
               \/ \E active \in BOOLEAN : BeginTransition(e, p, active)
               \/ \E changes \in Updates : BeginUpdate(e, p, changes)
        PROVE  Spend("configs")
    BY <2>1, <2>4 DEF BeginTest, BeginDefault, BeginReplace, BeginUnset, BeginArchive,
                      BeginTransition, BeginUpdate
  <2>5. ASSUME NEW e \in Editors,
               \/ CommitCreate(e) \/ CommitTest(e) \/ CommitUpdate(e) \/ CommitDefault(e)
               \/ CommitReplace(e) \/ CommitTransition(e) \/ CommitUnset(e) \/ CommitArchive(e)
        PROVE  UNCHANGED budget
    BY <2>2, <2>5 DEF CommitCreate, CommitTest, CommitUpdate, CommitDefault, CommitReplace,
                      CommitTransition, CommitUnset, CommitArchive
  <2> QED BY <2>3, <2>4, <2>5 DEF ProvidersNext
<1> QED BY <1>1, <1>2, <1>3

LEMMA CredentialsSpend ==
    ASSUME budget \in Bounds, CredentialsNext
    PROVE  budget' \in Bounds
<1>1. CASE Spend("keys")
  BY <1>1 DEF Spend, Bounds
<1>2. CASE UNCHANGED budget
  BY <1>2
<1>3. Spend("keys") \/ UNCHANGED budget
  BY DEF CredentialsNext, CreateCredential, RotateCredential, RevokeCredential,
         EndOverlap, Expire
<1> QED BY <1>1, <1>2, <1>3

LEMMA AdmissionSpends ==
    ASSUME budget \in Bounds, AdmissionNext
    PROVE  budget' \in Bounds
<1>1. CASE \E what \in {"submissions", "transitions"} : Spend(what)
  BY <1>1 DEF Spend, Bounds
<1>2. CASE UNCHANGED budget
  BY <1>2
<1>3. (\E what \in {"submissions", "transitions"} : Spend(what)) \/ UNCHANGED budget
  BY DEF AdmissionNext, Submit, ReadQuota, Unblock, Commit, TransitionApplication, NextMinute
<1> QED BY <1>1, <1>2, <1>3

-----------------------------------------------------------------------------
(* What a session has read and inserted belongs to the buckets of some     *)
(* minute, and counts no more than was accepted there by now.              *)
SessionFields == {"stage", "key", "body", "read", "made"}

Entering(s) ==
    /\ DOMAIN session[s] = SessionFields
    /\ session[s].stage \in Stages
    /\ session[s].key \in Keys /\ session[s].body \in Bodies
    /\ session[s].made \subseteq Buckets
    /\ DOMAIN session[s].read \subseteq Buckets
    /\ \A b \in DOMAIN session[s].read :
          session[s].read[b] \in Nat /\ session[s].read[b] <= admitted[b]

SessionsOK ==
    /\ DOMAIN session = Sessions
    /\ \A s \in Sessions : session[s] = NoSession \/ Entering(s)

BucketsOK ==
    /\ minute \in 1 .. 2
    /\ DOMAIN bucket = Buckets
    /\ admitted \in [Buckets -> Nat]
    /\ \A b \in Buckets : \/ bucket[b] = None
                          \/ bucket[b] \in Nat /\ bucket[b] <= admitted[b]

(* A key is stored once, and an answer names what it was given for.        *)
AnswersOK ==
    /\ notifications \in Seq([key : Keys, body : Bodies])
    /\ \A m, n \in DOMAIN notifications :
          notifications[m].key = notifications[n].key => m = n
    /\ \A a \in answers :
          a.of # None => /\ a.of \in DOMAIN notifications
                         /\ notifications[a.of].key = a.key
                         /\ notifications[a.of].body = a.body

AdmissionInv == budget \in Bounds /\ SessionsOK /\ BucketsOK /\ AnswersOK

LEMMA AdmissionStarts == Init => AdmissionInv
<1> SUFFICES ASSUME Init PROVE AdmissionInv
  OBVIOUS
<1>1. budget \in Bounds
  BY ScenariosAssumption DEF Init, PlatformInit
<1>2. SessionsOK
  BY DEF Init, AdmissionInit, SessionsOK
<1>3. BucketsOK
  BY DEF Init, AdmissionInit, BucketsOK, Buckets
<1>4. AnswersOK
  BY DEF Init, AdmissionInit, AnswersOK
<1> QED BY <1>1, <1>2, <1>3, <1>4 DEF AdmissionInv

(* The answer that Original gives names the notification of this key and   *)
(* body, if any.                                                           *)
LEMMA OriginalMatches ==
    ASSUME NEW key, NEW body, Original(key, body) # None
    PROVE  /\ Original(key, body) \in DOMAIN notifications
           /\ notifications[Original(key, body)].key = key
           /\ notifications[Original(key, body)].body = body
<1> DEFINE same == {n \in Stored(key) : notifications[n].body = body}
<1>1. same # {} /\ Original(key, body) = CHOOSE n \in same : TRUE
  BY DEF Original
<1>2. Original(key, body) \in same
  BY <1>1
<1> QED BY <1>2 DEF Stored

(* An answer for a key and body may name what Original gives, or none.     *)
LEMMA AnswerKeeps ==
    ASSUME AnswersOK, NEW key, NEW body, NEW of, NEW stored,
           Answer(key, body, of, stored), of \in {None, Original(key, body)},
           UNCHANGED notifications
    PROVE  AnswersOK'
<1>1. ASSUME NEW a \in answers', a.of # None
      PROVE  /\ a.of \in DOMAIN notifications
             /\ notifications[a.of].key = a.key
             /\ notifications[a.of].body = a.body
  <2>1. CASE a \in answers
    BY <2>1, <1>1 DEF AnswersOK
  <2>2. CASE a = [key |-> key, body |-> body, of |-> of, stored |-> stored]
    <3>1. a.of = of /\ a.key = key /\ a.body = body
      BY <2>2
    <3> QED BY <3>1, <1>1, OriginalMatches
  <2> QED BY <2>1, <2>2 DEF Answer
<1> QED BY <1>1 DEF AnswersOK

LEMMA SubmitKeeps ==
    ASSUME AdmissionInv, NEW s \in Sessions, NEW key \in budget.requested,
           NEW body \in budget.bodies, Submit(s, key, body)
    PROVE  SessionsOK' /\ BucketsOK' /\ AnswersOK'
<1>1. key \in Keys /\ body \in Bodies
  BY DEF AdmissionInv, Bounds
<1>2. UNCHANGED <<notifications, minute, bucket, admitted>>
  BY DEF Submit
<1>3. BucketsOK'
  BY <1>2 DEF AdmissionInv, BucketsOK, Buckets
<1>4. CASE Resolvable(body) /\ Stored(key) = {}
  <2>1. session' = [session EXCEPT ![s] = Entered(key, body)] /\ UNCHANGED answers
    BY <1>4 DEF Submit
  <2>2. SessionsOK'
    BY <2>1, <1>1, <1>2 DEF AdmissionInv, SessionsOK, Entering, Entered, SessionFields,
                            Stages, NoSession
  <2> QED BY <2>1, <2>2, <1>2, <1>3 DEF AdmissionInv, AnswersOK
<1>5. CASE ~(Resolvable(body) /\ Stored(key) = {})
  <2>1. UNCHANGED session
    BY <1>5 DEF Submit
  <2>2. PICK of \in {None, Original(key, body)} : Answer(key, body, of, Stored(key) # {})
    BY <1>5 DEF Submit
  <2>3. AnswersOK'
    BY <2>2, <1>2, AnswerKeeps DEF AdmissionInv
  <2>4. SessionsOK'
    BY <2>1, <1>2 DEF AdmissionInv, SessionsOK, Entering
  <2> QED BY <2>3, <2>4, <1>3
<1> QED BY <1>4, <1>5

LEMMA RefuseKeeps ==
    ASSUME AdmissionInv, NEW s \in Sessions, Refuse(s),
           UNCHANGED <<notifications, minute, bucket, admitted>>
    PROVE  SessionsOK' /\ BucketsOK' /\ AnswersOK'
<1>1. BucketsOK'
  BY DEF AdmissionInv, BucketsOK, Buckets
<1>2. AnswersOK'
  BY AnswerKeeps DEF AdmissionInv, Refuse
<1>3. SessionsOK'
  BY DEF AdmissionInv, SessionsOK, Entering, Refuse
<1> QED BY <1>1, <1>2, <1>3

(* What a session reads is at most what was accepted. *)
LEMMA ReadQuotaKeeps ==
    ASSUME AdmissionInv, NEW s \in Sessions, ReadQuota(s)
    PROVE  SessionsOK' /\ BucketsOK' /\ AnswersOK'
<1> DEFINE read == [b \in BucketsNow |-> Count(b)]
           missing == {b \in BucketsNow : bucket[b] = None}
           made == missing \ Contested(s)
<1>1. UNCHANGED <<notifications, minute, bucket, admitted>>
  BY DEF ReadQuota
<1>2. CASE Refuse(s)
  BY <1>1, <1>2, RefuseKeeps
<1>3. CASE ~Refuse(s)
  <2>1. PICK stage \in {"insert", "blocked"} :
            session' = [session EXCEPT ![s] = [@ EXCEPT !.stage = stage, !.read = read,
                                                        !.made = made]]
    BY <1>3 DEF ReadQuota
  <2>2. UNCHANGED answers /\ session[s].stage = "quota"
    BY <1>3 DEF ReadQuota
  <2>3. BucketsNow \subseteq Buckets
    BY DEF AdmissionInv, BucketsOK, BucketsNow, Buckets
  <2>4. \A b \in BucketsNow : read[b] \in Nat /\ read[b] <= admitted[b]
    BY <2>3 DEF AdmissionInv, BucketsOK, Count
  <2>5. Entering(s)
    BY <2>2 DEF AdmissionInv, SessionsOK, NoSession
  <2> HIDE DEF read, made
  <2>6. session'[s].read = read /\ session'[s].made = made /\ session'[s].stage = stage
        /\ DOMAIN session'[s] = SessionFields /\ session'[s].key = session[s].key
        /\ session'[s].body = session[s].body
    BY <2>1, <2>5 DEF AdmissionInv, SessionsOK, Entering, SessionFields
  <2>7. DOMAIN read \subseteq Buckets /\ made \subseteq Buckets
    BY <2>3 DEF read, made
  <2>8. \A b \in DOMAIN read : read[b] \in Nat /\ read[b] <= admitted'[b]
    BY <2>4, <1>1 DEF read
  <2>9. Entering(s)'
    BY <2>5, <2>6, <2>7, <2>8 DEF Entering, Stages
  <2>10. SessionsOK'
    BY <2>9, <2>1, <1>1 DEF AdmissionInv, SessionsOK, Entering
  <2> QED BY <2>10, <2>2, <1>1 DEF AdmissionInv, BucketsOK, Buckets, AnswersOK
<1> QED BY <1>2, <1>3

LEMMA UnblockKeeps ==
    ASSUME AdmissionInv, NEW s \in Sessions, Unblock(s)
    PROVE  SessionsOK' /\ BucketsOK' /\ AnswersOK'
<1> DEFINE waited == {b \in DOMAIN session[s].read : session[s].read[b] = 0} \ session[s].made
<1>1. UNCHANGED <<notifications, minute, bucket, admitted>>
  BY DEF Unblock
<1>2. CASE Refuse(s)
  BY <1>1, <1>2, RefuseKeeps
<1>3. CASE ~Refuse(s)
  <2>1. /\ session' = [session EXCEPT ![s] =
               [@ EXCEPT !.stage = "insert", !.made = session[s].made \cup waited]]
        /\ UNCHANGED answers
        /\ session[s].stage = "blocked"
    BY <1>3 DEF Unblock
  <2>2. Entering(s)
    BY <2>1 DEF AdmissionInv, SessionsOK, NoSession
  <2>3. waited \subseteq Buckets
    BY <2>2 DEF Entering
  <2> HIDE DEF waited
  <2>4. Entering(s)'
    <3>1. /\ session'[s].stage = "insert" /\ session'[s].made = session[s].made \cup waited
          /\ session'[s].read = session[s].read /\ session'[s].key = session[s].key
          /\ session'[s].body = session[s].body /\ DOMAIN session'[s] = SessionFields
      BY <2>1, <2>2 DEF AdmissionInv, SessionsOK, Entering, SessionFields
    <3>2. session'[s].made \subseteq Buckets
      BY <3>1, <2>2, <2>3 DEF Entering
    <3> QED BY <3>1, <3>2, <2>2, <1>1 DEF Entering, Stages, Buckets
  <2>5. SessionsOK'
    BY <2>4, <2>1, <1>1 DEF AdmissionInv, SessionsOK, Entering
  <2> QED BY <2>5, <2>1, <1>1 DEF AdmissionInv, BucketsOK, Buckets, AnswersOK
<1> QED BY <1>2, <1>3

(* A commit adds 1 to what it has read only together with a notification   *)
(* of a key that had none.                                                 *)
LEMMA CommitKeeps ==
    ASSUME AdmissionInv, NEW s \in Sessions, Commit(s)
    PROVE  SessionsOK' /\ BucketsOK' /\ AnswersOK'
<1> DEFINE key == session[s].key
           body == session[s].body
           read == session[s].read
           new == [key |-> key, body |-> body]
<1>1. Entering(s)
  BY DEF Commit, AdmissionInv, SessionsOK, NoSession
<1>2. session' = [session EXCEPT ![s] = NoSession] /\ minute' = minute
  BY DEF Commit
<1>3. CASE Stored(key) = {}
  <2>1. notifications' = Append(notifications, new)
    BY <1>3 DEF Commit
  <2>2. admitted' = [b \in Buckets |-> admitted[b] + IF b \in DOMAIN read THEN 1 ELSE 0]
    BY <1>3 DEF Commit
  <2>3. bucket' = [b \in Buckets |-> IF b \in DOMAIN read THEN read[b] + 1 ELSE bucket[b]]
    BY <1>3 DEF Commit, Charge
  <2>4. answers' = answers \cup {[key |-> key, body |-> body,
                                  of |-> Len(notifications) + 1, stored |-> FALSE]}
    BY <1>3 DEF Commit, Answer
  <2>5. BucketsOK'
    <3>1. minute' \in 1 .. 2 /\ DOMAIN bucket' = Buckets
      BY <2>3, <1>2 DEF AdmissionInv, BucketsOK
    <3>2. admitted' \in [Buckets -> Nat]
      BY <2>2 DEF AdmissionInv, BucketsOK
    <3>3. ASSUME NEW b \in Buckets
          PROVE  \/ bucket'[b] = None
                 \/ bucket'[b] \in Nat /\ bucket'[b] <= admitted'[b]
      BY <3>3, <2>2, <2>3, <1>1 DEF AdmissionInv, BucketsOK, Entering
    <3> QED BY <3>1, <3>2, <3>3 DEF BucketsOK, Buckets
  <2>6. SessionsOK'
    <3>1. \A b \in Buckets : admitted[b] \in Nat /\ admitted'[b] \in Nat
                             /\ admitted[b] <= admitted'[b]
      BY <2>2 DEF AdmissionInv, BucketsOK
    <3>2. ASSUME NEW t \in Sessions \ {s} PROVE session'[t] = NoSession \/ Entering(t)'
      <4>1. session'[t] = session[t]
        BY <1>2 DEF AdmissionInv, SessionsOK
      <4>2. CASE Entering(t)
        <5>1. ASSUME NEW b \in DOMAIN session[t].read
              PROVE  session[t].read[b] \in Nat /\ session[t].read[b] <= admitted'[b]
          BY <5>1, <4>2, <3>1 DEF Entering
        <5> QED BY <5>1, <4>1, <4>2 DEF Entering, Buckets
      <4> QED BY <4>1, <4>2 DEF AdmissionInv, SessionsOK
    <3> QED BY <3>2, <1>2 DEF AdmissionInv, SessionsOK, NoSession
  <2>7. AnswersOK'
    <3>1. new \in [key : Keys, body : Bodies] /\ notifications \in Seq([key : Keys, body : Bodies])
      BY <1>1 DEF Entering, AdmissionInv, AnswersOK
    <3> DEFINE last == Len(notifications) + 1
    <3>2. /\ notifications' \in Seq([key : Keys, body : Bodies])
          /\ DOMAIN notifications' = DOMAIN notifications \cup {last}
          /\ last \notin DOMAIN notifications
          /\ notifications'[last] = new
          /\ \A n \in DOMAIN notifications : notifications'[n] = notifications[n]
      BY <2>1, <3>1
    <3>3. \A n \in DOMAIN notifications : notifications[n].key # key
      BY <1>3 DEF Stored
    <3> HIDE DEF last, new
    <3>4. new.key = key /\ new.body = body
      BY DEF new
    <3>5. ASSUME NEW m \in DOMAIN notifications', NEW n \in DOMAIN notifications',
                 notifications'[m].key = notifications'[n].key
          PROVE  m = n
      BY <3>5, <3>2, <3>3, <3>4 DEF AdmissionInv, AnswersOK
    <3>6. ASSUME NEW a \in answers', a.of # None
          PROVE  /\ a.of \in DOMAIN notifications'
                 /\ notifications'[a.of].key = a.key
                 /\ notifications'[a.of].body = a.body
      <4>1. CASE a \in answers
        BY <4>1, <3>2, <3>6 DEF AdmissionInv, AnswersOK
      <4>2. CASE a \notin answers
        <5>1. a.of = last /\ a.key = key /\ a.body = body
          BY <4>2, <3>6, <2>4 DEF last
        <5> QED BY <5>1, <3>2, <3>4
      <4> QED BY <4>1, <4>2
    <3> QED BY <3>2, <3>5, <3>6 DEF AnswersOK
  <2> QED BY <2>5, <2>6, <2>7
<1>4. CASE Stored(key) # {}
  <2>1. UNCHANGED <<notifications, admitted, bucket>>
        /\ Answer(key, body, Original(key, body), TRUE)
    BY <1>4 DEF Commit, Charge
  <2>2. AnswersOK'
    BY <2>1, AnswerKeeps DEF AdmissionInv
  <2>3. BucketsOK'
    BY <2>1, <1>2 DEF AdmissionInv, BucketsOK, Buckets
  <2>4. SessionsOK'
    BY <2>1, <1>2 DEF AdmissionInv, SessionsOK, Entering
  <2> QED BY <2>2, <2>3, <2>4
<1> QED BY <1>3, <1>4

LEMMA AdmissionFrame ==
    ASSUME AdmissionInv, UNCHANGED admissionVars
    PROVE  SessionsOK' /\ BucketsOK' /\ AnswersOK'
BY DEF admissionVars, AdmissionInv, SessionsOK, Entering, BucketsOK, AnswersOK, Buckets

LEMMA AdmissionKeeps == AdmissionInv /\ [Next]_vars => AdmissionInv'
<1> SUFFICES ASSUME AdmissionInv, [Next]_vars PROVE AdmissionInv'
  OBVIOUS
<1>0. budget \in Bounds
  BY DEF AdmissionInv
<1>1. CASE AdmissionNext
  <2>1. budget' \in Bounds
    BY <1>0, <1>1, AdmissionSpends
  <2>2. ASSUME TransitionApplication \/ NextMinute
        PROVE  SessionsOK' /\ BucketsOK' /\ AnswersOK'
    BY <2>2 DEF TransitionApplication, NextMinute, AdmissionInv, SessionsOK, Entering,
                BucketsOK, AnswersOK, Buckets
  <2>3. SessionsOK' /\ BucketsOK' /\ AnswersOK'
    BY <1>1, <2>2, SubmitKeeps, ReadQuotaKeeps, UnblockKeeps, CommitKeeps DEF AdmissionNext
  <2> QED BY <2>1, <2>3 DEF AdmissionInv
<1>2. CASE CatalogNext /\ UNCHANGED admissionVars
  BY <1>0, <1>2, CatalogSpends, AdmissionFrame DEF AdmissionInv
<1>3. CASE ProvidersNext /\ UNCHANGED admissionVars
  BY <1>0, <1>3, ProvidersSpend, AdmissionFrame DEF AdmissionInv
<1>4. CASE CredentialsNext /\ UNCHANGED admissionVars
  BY <1>0, <1>4, CredentialsSpend, AdmissionFrame DEF AdmissionInv
<1>5. CASE UNCHANGED vars
  BY <1>0, <1>5, AdmissionFrame DEF AdmissionInv, vars
<1> QED BY <1>1, <1>2, <1>3, <1>4, <1>5 DEF Next

(* The conjunction of what sessions, buckets and answers keep, which is    *)
(* inductive: a session's reads never run ahead of what was accepted.      *)
THEOREM AdmissionInvariant == Spec => []AdmissionInv
BY AdmissionStarts, AdmissionKeeps, PTL DEF Spec

(* No request is charged that was not accepted: however sessions overlap,  *)
(* no bucket counts more than what was admitted in it (quotas.py, the      *)
(* rollback of create_notification).                                       *)
THEOREM NeverOvercharged == Spec => []QuotaNeverOvercharged
<1>1. AdmissionInv => QuotaNeverOvercharged
  BY DEF AdmissionInv, BucketsOK, QuotaNeverOvercharged
<1> QED BY <1>1, AdmissionInvariant, PTL

(* An idempotency key stands for one notification and one request,         *)
(* whichever session of those that raced for it has won.                   *)
THEOREM OneNotificationPerKey == Spec => []KeyNamesOneNotification
<1>1. AdmissionInv => KeyNamesOneNotification
  <2> SUFFICES ASSUME AdmissionInv, NEW a \in answers, a.of # None
               PROVE  /\ notifications[a.of] = [key |-> a.key, body |-> a.body]
                      /\ Stored(a.key) = {a.of}
    BY DEF KeyNamesOneNotification
  <2>1. /\ a.of \in DOMAIN notifications
        /\ notifications[a.of].key = a.key /\ notifications[a.of].body = a.body
    BY DEF AdmissionInv, AnswersOK
  <2>2. notifications[a.of] \in [key : Keys, body : Bodies]
    <3> DEFINE rows == [key : Keys, body : Bodies]
    <3>1. notifications \in Seq(rows)
      BY DEF AdmissionInv, AnswersOK
    <3> HIDE DEF rows
    <3>2. notifications[a.of] \in rows
      BY <3>1, <2>1
    <3> QED BY <3>2 DEF rows
  <2>3. Stored(a.key) = {a.of}
    BY <2>1 DEF AdmissionInv, AnswersOK, Stored
  <2> QED BY <2>1, <2>2, <2>3
<1> QED BY <1>1, AdmissionInvariant, PTL

-----------------------------------------------------------------------------
(* How far two sessions can exceed a quota.  A bucket that counts c of a   *)
(* limit L while a session still holds an older count x can admit up to    *)
(* the limit, and then start again from x + 1.  Room is twice that, After  *)
(* twice what can be admitted once the count is x + 1 again, and AtMost    *)
(* twice what a bucket can admit at all.                                   *)
After(L, x) == (L - x - 1) * (L - x + 2)

AtMost(L) == L * (L + 1)

Room(L, c, x) == 2 * (1 + L - c) + After(L, x)

LEMMA AfterStep ==
    ASSUME NEW L \in Int, NEW x \in Int
    PROVE  /\ After(L, x) \in Int /\ After(L, x + 1) \in Int
           /\ After(L, x) = 2 * (L - x) + After(L, x + 1)
<1>1. ASSUME NEW a \in Int PROVE (a - 1) * (a + 2) = 2 * a + (a - 2) * (a + 1)
  BY <1>1
<1>2. (L - x - 1) * (L - x + 2) = 2 * (L - x) + (L - x - 2) * (L - x + 1)
  BY <1>1
<1> QED BY <1>2 DEF After

LEMMA AfterFalls ==
    ASSUME NEW L \in Int, NEW x \in Int, NEW y \in Int, x <= y, y < L
    PROVE  After(L, y) <= After(L, x)
<1>1. ASSUME NEW a \in Nat, NEW d \in Nat
      PROVE  a * (a + 3) <= (a + d) * (a + d + 3)
  <2>1. (a + d) * (a + d + 3) = a * (a + 3) + (2 * (a * d) + d * d + 3 * d)
    BY <1>1
  <2>2. a * d \in Nat /\ d * d \in Nat /\ a * (a + 3) \in Int
    BY <1>1
  <2> QED BY <2>1, <2>2
<1> DEFINE a == L - y - 1
           d == y - x
<1>2. a \in Nat /\ d \in Nat
  OBVIOUS
<1>3. a * (a + 3) <= (a + d) * (a + d + 3)
  BY <1>1, <1>2
<1>4. /\ a + 3 = L - y + 2 /\ a + d = L - x - 1 /\ a + d + 3 = L - x + 2
  OBVIOUS
<1> QED BY <1>3, <1>4 DEF After

LEMMA AfterEnds ==
    ASSUME NEW L \in Int, NEW c \in Int
    PROVE  /\ 2 + 2 * L + After(L, 1) = L * (L + 1)
           /\ c <= L => Room(L, c, c) >= 0
           /\ L * (L + 1) \in Int
<1>1. 2 + 2 * L + (L - 1 - 1) * (L - 1 + 2) = L * (L + 1)
  OBVIOUS
<1>2. ASSUME c <= L PROVE 2 * (1 + L - c) + (L - c - 1) * (L - c + 2) >= 0
  <2>1. ASSUME NEW d \in Nat PROVE 2 * (1 + d) + (d - 1) * (d + 2) = d * d + 3 * d /\ d * d \in Nat
    BY <2>1
  <2>2. L - c \in Nat
    BY <1>2
  <2> QED BY <2>1, <2>2
<1> QED BY <1>1, <1>2 DEF After, Room

(* Admitting one more request with a count r that is read: the room left   *)
(* for the older counts shrinks by that request.                           *)
LEMMA RoomAfterCharge ==
    ASSUME NEW L \in Nat, NEW c \in Nat, c <= L, NEW r \in Nat, r < L, NEW x \in Nat
    PROVE  /\ r <= c => 2 + Room(L, r + 1, r + 1) <= Room(L, c, r)
           /\ r > c => 2 + Room(L, r + 1, r + 1) <= Room(L, c, c)
           /\ x <= r /\ c = r => 2 + Room(L, r + 1, x) <= Room(L, c, x)
           /\ x <= r /\ c = x => 2 + Room(L, r + 1, x) <= Room(L, c, c)
<1>1. /\ After(L, r) \in Int /\ After(L, r + 1) \in Int
      /\ After(L, r) = 2 * (L - r) + After(L, r + 1)
  BY AfterStep
<1>2. After(L, x) \in Int /\ After(L, c) \in Int
  BY AfterStep
<1>3. r > c => After(L, r) <= After(L, c)
  BY AfterFalls
<1> QED BY <1>1, <1>2, <1>3 DEF Room

LEMMA RoomType ==
    ASSUME NEW L \in Nat, NEW c \in Nat, NEW x \in Nat
    PROVE  Room(L, c, x) \in Int /\ AtMost(L) \in Int
<1>1. After(L, x) \in Int
  BY AfterStep
<1>2. L * (L + 1) \in Int
  OBVIOUS
<1> QED BY <1>1, <1>2 DEF Room, AtMost

(* The first request of a bucket, one that follows, and the last. *)
LEMMA FirstRoom ==
    ASSUME NEW L \in Nat
    PROVE  2 + Room(L, 1, 1) <= AtMost(L)
<1>1. 2 + 2 * L + After(L, 1) = L * (L + 1) /\ L * (L + 1) \in Int
  BY AfterEnds
<1>2. After(L, 1) \in Int
  BY AfterStep
<1> QED BY <1>1, <1>2 DEF Room, AtMost

LEMMA NextRoom ==
    ASSUME NEW L \in Nat, NEW c \in Nat, c <= L, NEW r \in Nat, r < L, NEW n \in Nat,
           2 * n + Room(L, c, c) <= AtMost(L),
           r <= c => 2 * n + Room(L, c, r) <= AtMost(L)
    PROVE  /\ 2 * (n + 1) + Room(L, r + 1, r + 1) <= AtMost(L)
           /\ \A x \in Nat :
                 /\ x <= r
                 /\ c = r \/ c = x
                 /\ x <= c => 2 * n + Room(L, c, x) <= AtMost(L)
                 => 2 * (n + 1) + Room(L, r + 1, x) <= AtMost(L)
<1>1. /\ r <= c => 2 + Room(L, r + 1, r + 1) <= Room(L, c, r)
      /\ r > c => 2 + Room(L, r + 1, r + 1) <= Room(L, c, c)
  BY RoomAfterCharge
<1>2. /\ Room(L, c, c) \in Int /\ Room(L, c, r) \in Int
      /\ Room(L, r + 1, r + 1) \in Int /\ AtMost(L) \in Int
  BY RoomType
<1>3. ASSUME NEW x \in Nat, x <= r, c = r \/ c = x,
             x <= c => 2 * n + Room(L, c, x) <= AtMost(L)
      PROVE  2 * (n + 1) + Room(L, r + 1, x) <= AtMost(L)
  <2>1. /\ c = r => 2 + Room(L, r + 1, x) <= Room(L, c, x)
        /\ c = x => 2 + Room(L, r + 1, x) <= Room(L, c, c)
    BY <1>3, RoomAfterCharge
  <2>2. Room(L, c, x) \in Int /\ Room(L, r + 1, x) \in Int
    BY <1>3, RoomType
  <2> QED BY <2>1, <2>2, <1>2, <1>3
<1> QED BY <1>1, <1>2, <1>3

LEMMA LastRoom ==
    ASSUME NEW L \in Nat, NEW c \in Nat, c <= L, NEW n \in Nat,
           2 * n + Room(L, c, c) <= AtMost(L)
    PROVE  n <= (L * (L + 1)) \div 2
<1>1. Room(L, c, c) \in Int /\ AtMost(L) \in Int /\ Room(L, c, c) >= 0
  BY AfterEnds, RoomType
<1>2. 2 * n <= L * (L + 1) /\ L * (L + 1) \in Int
  BY <1>1 DEF AtMost
<1>3. ASSUME NEW x \in Int, 2 * n <= x PROVE n <= x \div 2
  BY <1>3
<1> QED BY <1>2, <1>3

-----------------------------------------------------------------------------
(* At most two requests are under way. *)
TwoSessions ==
    \A s, t, u \in Sessions : s = t \/ t = u \/ s = u

(* s has read a count of b other than the 0 of a bucket it must insert.    *)
Holds(s, b) == session[s] # NoSession /\ b \in DOMAIN session[s].read

Reader(s, b) == Holds(s, b) /\ session[s].read[b] # 0

(* An uncommitted insert of a bucket is the only one, and nobody can have  *)
(* read a count of it; what is committed then is the first.                *)
InsertsExclusive ==
    /\ \A s \in Sessions, b \in Buckets :
          Holds(s, b) => session[s].read[b] < LimitOf(b)
    /\ \A s \in Sessions : session[s] # NoSession =>
          /\ \A b \in session[s].made :
                /\ bucket[b] = None
                /\ Holds(s, b) /\ session[s].read[b] = 0
                /\ \A t \in Sessions \ {s} : session[t] # NoSession => b \notin session[t].made
          /\ session[s].stage = "insert" =>
                \A b \in Buckets : Holds(s, b) /\ session[s].read[b] = 0 => b \in session[s].made

(* What was admitted in b and may still be stays below the bound,          *)
(* whichever of the counts that are read the bucket falls back to.         *)
RoomLeft(b) ==
    /\ bucket[b] = None => admitted[b] = 0 /\ \A s \in Sessions : ~Reader(s, b)
    /\ bucket[b] # None =>
          /\ bucket[b] \in 1 .. LimitOf(b)
          /\ 2 * admitted[b] + Room(LimitOf(b), bucket[b], bucket[b]) <= AtMost(LimitOf(b))
          /\ \A s \in Sessions :
                Reader(s, b) /\ session[s].read[b] <= bucket[b] =>
                    2 * admitted[b] + Room(LimitOf(b), bucket[b], session[s].read[b])
                        <= AtMost(LimitOf(b))
    /\ \A s, t \in Sessions :
          s # t /\ Reader(s, b) /\ Reader(t, b)
              => bucket[b] = session[s].read[b] \/ bucket[b] = session[t].read[b]

OvershootInv == InsertsExclusive /\ \A b \in Buckets : RoomLeft(b)

LEMMA LimitType == ASSUME NEW b PROVE LimitOf(b) \in Nat \ {0}
  BY LimitsAssumption DEF LimitOf

LEMMA OvershootStarts == Init => OvershootInv
<1> SUFFICES ASSUME Init PROVE OvershootInv
  OBVIOUS
<1>1. \A s \in Sessions : session[s] = NoSession
  BY DEF Init, AdmissionInit
<1>2. \A b \in Buckets : bucket[b] = None /\ admitted[b] = 0
  BY DEF Init, AdmissionInit
<1> QED BY <1>1, <1>2 DEF OvershootInv, InsertsExclusive, RoomLeft, Holds, Reader

(* A session that ends, or has read nothing yet. *)
LEMMA SessionClears ==
    ASSUME AdmissionInv, OvershootInv, NEW s \in Sessions,
           NEW new, session' = [session EXCEPT ![s] = new],
           new = NoSession \/ (new.read = [b \in {} |-> 0] /\ new.made = {} /\ new.stage = "quota"),
           UNCHANGED <<bucket, admitted>>
    PROVE  OvershootInv'
<1>1. /\ session'[s] = new
      /\ \A t \in Sessions : t # s => session'[t] = session[t]
  BY DEF AdmissionInv, SessionsOK
<1>2. \A b \in Buckets : ~Holds(s, b)'
  BY <1>1 DEF Holds
<1>3. ASSUME NEW t \in Sessions, NEW b \in Buckets, t # s
      PROVE  (Holds(t, b)' <=> Holds(t, b)) /\ (Reader(t, b)' <=> Reader(t, b))
  BY <1>1, <1>3 DEF Holds, Reader
<1>4. InsertsExclusive'
  BY <1>1, <1>2, <1>3 DEF OvershootInv, InsertsExclusive, AdmissionInv, SessionsOK, Entering
<1>5. ASSUME NEW b \in Buckets PROVE RoomLeft(b)'
  <2>1. \A t \in Sessions : Reader(t, b)' => t # s /\ Reader(t, b) /\ session'[t] = session[t]
    BY <1>1, <1>2, <1>3 DEF Reader
  <2>2. RoomLeft(b)
    BY DEF OvershootInv
  <2>3. LimitOf(b)' = LimitOf(b)
    BY DEF LimitOf
  <2> QED BY <2>1, <2>2, <2>3 DEF RoomLeft
<1> QED BY <1>4, <1>5 DEF OvershootInv, Buckets

(* A session that reads or inserts: nobody else's count or insert changes. *)
LEMMA OthersStay ==
    ASSUME AdmissionInv, NEW s \in Sessions, session[s] # NoSession,
           NEW new, session' = [session EXCEPT ![s] = new], new # NoSession,
           UNCHANGED <<bucket, admitted>>
    PROVE  /\ session'[s] = new /\ session'[s] # NoSession
           /\ \A b \in Buckets : Holds(s, b)' <=> b \in DOMAIN new.read
           /\ \A t \in Sessions : t # s => session'[t] = session[t]
           /\ \A t \in Sessions, b \in Buckets : t # s =>
                 /\ Holds(t, b)' <=> Holds(t, b)
                 /\ Reader(t, b)' <=> Reader(t, b)
<1>1. /\ session'[s] = new
      /\ \A t \in Sessions : t # s => session'[t] = session[t]
  BY DEF AdmissionInv, SessionsOK
<1>2. \A b \in Buckets : Holds(s, b)' <=> b \in DOMAIN new.read
  BY <1>1 DEF Holds
<1>3. ASSUME NEW t \in Sessions, NEW b \in Buckets, t # s
      PROVE  (Holds(t, b)' <=> Holds(t, b)) /\ (Reader(t, b)' <=> Reader(t, b))
  BY <1>1, <1>3 DEF Holds, Reader
<1> QED BY <1>1, <1>2, <1>3

(* What has been inserted and not committed is contested for the others. *)
LEMMA ContestedMade ==
    ASSUME NEW s \in Sessions, NEW t \in Sessions \ {s}, session[t] # NoSession,
           NEW b \in session[t].made
    PROVE  b \in Contested(s)
BY DEF Contested

(* Reading counts below the limit and inserting buckets that are missing   *)
(* and not contested.                                                      *)
LEMMA ReadHolds ==
    ASSUME AdmissionInv, OvershootInv, NEW s \in Sessions, ReadQuota(s), ~Refuse(s)
    PROVE  OvershootInv'
<1> DEFINE read == [b \in BucketsNow |-> Count(b)]
           missing == {b \in BucketsNow : bucket[b] = None}
           made == missing \ Contested(s)
<1>1. PICK stage \in {"insert", "blocked"} :
          /\ session' = [session EXCEPT ![s] = [@ EXCEPT !.stage = stage, !.read = read,
                                                         !.made = made]]
          /\ stage = "insert" => missing \cap Contested(s) = {}
          /\ Within(read)
  BY DEF ReadQuota
<1>2. UNCHANGED <<bucket, admitted>> /\ session[s].stage = "quota"
  BY DEF ReadQuota
<1>3. Entering(s) /\ session[s] # NoSession
  BY <1>2 DEF AdmissionInv, SessionsOK, NoSession
<1>4. BucketsNow \subseteq Buckets
  BY DEF AdmissionInv, BucketsOK, BucketsNow, Buckets
<1>5. /\ DOMAIN read = BucketsNow
      /\ \A b \in BucketsNow : /\ read[b] = Count(b)
                               /\ read[b] < LimitOf(b)
  BY <1>1 DEF Within
<1>6. \A b \in BucketsNow : read[b] = 0 => bucket[b] = None
  BY <1>4, <1>5 DEF Count, OvershootInv, RoomLeft
<1>7. made \subseteq missing /\ made \cap Contested(s) = {}
      /\ \A b \in missing : b \in BucketsNow /\ bucket[b] = None /\ read[b] = 0
  BY DEF Count
<1>8. missing = {b \in BucketsNow : bucket[b] = None} /\ made = missing \ Contested(s)
  OBVIOUS
<1> HIDE DEF read, missing, made
<1> DEFINE new == [session[s] EXCEPT !.stage = stage, !.read = read, !.made = made]
<1>9. new.stage = stage /\ new.read = read /\ new.made = made /\ new # NoSession
      /\ session' = [session EXCEPT ![s] = new]
  BY <1>1, <1>3 DEF Entering, SessionFields, NoSession
<1> HIDE DEF new
<1>10. /\ session'[s] = new /\ session'[s] # NoSession
       /\ \A b \in Buckets : Holds(s, b)' <=> b \in DOMAIN new.read
       /\ \A t \in Sessions : t # s => session'[t] = session[t]
       /\ \A t \in Sessions, b \in Buckets : t # s =>
             /\ Holds(t, b)' <=> Holds(t, b)
             /\ Reader(t, b)' <=> Reader(t, b)
  BY <1>2, <1>3, <1>9, OthersStay
<1>11. InsertsExclusive'
  <2>1. ASSUME NEW t \in Sessions, NEW b \in Buckets, Holds(t, b)'
        PROVE  session'[t].read[b] < LimitOf(b)'
    BY <2>1, <1>5, <1>9, <1>10 DEF OvershootInv, InsertsExclusive, LimitOf
  <2>2. ASSUME NEW t \in Sessions, session'[t] # NoSession, NEW b \in session'[t].made
        PROVE  /\ bucket'[b] = None
               /\ Holds(t, b)' /\ session'[t].read[b] = 0
               /\ \A u \in Sessions \ {t} :
                     session'[u] # NoSession => b \notin session'[u].made
    <3>1. CASE t = s
      <4>1. b \in made /\ b \in Buckets
        BY <3>1, <2>2, <1>4, <1>7, <1>9, <1>10
      <4>2. \A u \in Sessions \ {s} : session'[u] # NoSession => b \notin session'[u].made
        BY <4>1, <1>7, <1>10, ContestedMade
      <4> QED BY <3>1, <4>1, <4>2, <1>2, <1>5, <1>7, <1>9, <1>10
    <3>2. CASE t # s
      <4>1. session'[t] = session[t] /\ b \in session[t].made
        BY <3>2, <2>2, <1>10
      <4>2. b \in Buckets
        BY <4>1, <2>2 DEF AdmissionInv, SessionsOK, Entering
      <4>3. b \notin made
        BY <3>2, <4>1, <2>2, <1>7, ContestedMade
      <4>4. \A u \in Sessions \ {t, s} : session'[u] = session[u]
        BY <1>10
      <4> QED BY <3>2, <4>1, <4>2, <4>3, <4>4, <2>2, <1>2, <1>9, <1>10
              DEF OvershootInv, InsertsExclusive
    <3> QED BY <3>1, <3>2
  <2>3. ASSUME NEW t \in Sessions, session'[t] # NoSession, session'[t].stage = "insert",
               NEW b \in Buckets, Holds(t, b)', session'[t].read[b] = 0
        PROVE  b \in session'[t].made
    <3>1. CASE t = s
      BY <3>1, <2>3, <1>1, <1>5, <1>6, <1>8, <1>9, <1>10
    <3>2. CASE t # s
      BY <3>2, <2>3, <1>10 DEF OvershootInv, InsertsExclusive
    <3> QED BY <3>1, <3>2
  <2> QED BY <2>1, <2>2, <2>3 DEF InsertsExclusive, Buckets
<1>12. ASSUME NEW b \in Buckets PROVE RoomLeft(b)'
  <2>1. RoomLeft(b)
    BY DEF OvershootInv
  <2>2. LimitOf(b)' = LimitOf(b)
    BY DEF LimitOf
  <2>3. \A t \in Sessions : t # s =>
           session'[t] = session[t] /\ (Reader(t, b)' <=> Reader(t, b))
    BY <1>10
  <2>4. Reader(s, b)' => session'[s].read[b] = bucket[b] /\ bucket[b] # None
    BY <1>5, <1>9, <1>10 DEF Reader, Count
  <2> QED BY <2>1, <2>2, <2>3, <2>4, <1>2 DEF RoomLeft
<1> QED BY <1>11, <1>12 DEF OvershootInv, Buckets

(* A session that was blocked inserts what nobody has inserted. *)
LEMMA UnblockHolds ==
    ASSUME AdmissionInv, OvershootInv, NEW s \in Sessions, Unblock(s), ~Refuse(s)
    PROVE  OvershootInv'
<1> DEFINE waited == {b \in DOMAIN session[s].read : session[s].read[b] = 0} \ session[s].made
           made == session[s].made \cup waited
<1>1. /\ session' = [session EXCEPT ![s] = [@ EXCEPT !.stage = "insert", !.made = made]]
      /\ waited \cap Contested(s) = {}
      /\ \A b \in waited : bucket[b] = None
      /\ session[s].stage = "blocked"
      /\ UNCHANGED <<bucket, admitted>>
  BY DEF Unblock
<1>2. Entering(s) /\ session[s] # NoSession
  BY <1>1 DEF AdmissionInv, SessionsOK, NoSession
<1>3. /\ \A b \in waited : b \in DOMAIN session[s].read /\ session[s].read[b] = 0
      /\ \A b \in DOMAIN session[s].read : session[s].read[b] = 0 => b \in made
      /\ made = session[s].made \cup waited
  OBVIOUS
<1>4. made \subseteq Buckets
  BY <1>2 DEF Entering
<1> HIDE DEF waited, made
<1> DEFINE new == [session[s] EXCEPT !.stage = "insert", !.made = made]
<1>5. new.stage = "insert" /\ new.read = session[s].read /\ new.made = made /\ new # NoSession
      /\ session' = [session EXCEPT ![s] = new]
  BY <1>1, <1>2 DEF Entering, SessionFields, NoSession
<1> HIDE DEF new
<1>6. /\ session'[s] = new /\ session'[s] # NoSession
      /\ \A b \in Buckets : Holds(s, b)' <=> b \in DOMAIN new.read
      /\ \A t \in Sessions : t # s => session'[t] = session[t]
      /\ \A t \in Sessions, b \in Buckets : t # s =>
            /\ Holds(t, b)' <=> Holds(t, b)
            /\ Reader(t, b)' <=> Reader(t, b)
  BY <1>1, <1>2, <1>5, OthersStay
<1>7. \A t \in Sessions, b \in Buckets :
         /\ session'[t] # NoSession <=> session[t] # NoSession
         /\ session[t] # NoSession => session'[t].read = session[t].read
         /\ Holds(t, b)' <=> Holds(t, b)
         /\ Reader(t, b)' <=> Reader(t, b)
  BY <1>2, <1>5, <1>6 DEF Holds, Reader
<1>8. \A b \in made : /\ bucket[b] = None /\ Holds(s, b) /\ session[s].read[b] = 0
                      /\ \A t \in Sessions \ {s} :
                            session[t] # NoSession => b \notin session[t].made
  <2>1. ASSUME NEW b \in waited, NEW t \in Sessions \ {s}, session[t] # NoSession
        PROVE  b \notin session[t].made
    BY <2>1, <1>1, ContestedMade
  <2> QED BY <2>1, <1>1, <1>2, <1>3 DEF OvershootInv, InsertsExclusive, Holds
<1>9. InsertsExclusive'
  <2>1. ASSUME NEW t \in Sessions, NEW b \in Buckets, Holds(t, b)'
        PROVE  session'[t].read[b] < LimitOf(b)'
    BY <2>1, <1>7 DEF OvershootInv, InsertsExclusive, LimitOf, Holds
  <2>2. ASSUME NEW t \in Sessions, session'[t] # NoSession, NEW b \in session'[t].made
        PROVE  /\ bucket'[b] = None
               /\ Holds(t, b)' /\ session'[t].read[b] = 0
               /\ \A u \in Sessions \ {t} :
                     session'[u] # NoSession => b \notin session'[u].made
    <3>1. CASE t = s
      <4>1. b \in made /\ b \in Buckets
        BY <3>1, <2>2, <1>4, <1>5, <1>6
      <4> QED BY <3>1, <4>1, <1>1, <1>2, <1>6, <1>7, <1>8
    <3>2. CASE t # s
      <4>1. session'[t] = session[t] /\ b \in session[t].made /\ session[t] # NoSession
        BY <3>2, <2>2, <1>6
      <4>2. b \in Buckets
        BY <4>1 DEF AdmissionInv, SessionsOK, Entering
      <4>3. b \notin made
        BY <3>2, <4>1, <1>8
      <4>4. \A u \in Sessions \ {t, s} : session'[u] = session[u]
        BY <1>6
      <4> QED BY <3>2, <4>1, <4>2, <4>3, <4>4, <1>1, <1>5, <1>6, <1>7
              DEF OvershootInv, InsertsExclusive
    <3> QED BY <3>1, <3>2
  <2>3. ASSUME NEW t \in Sessions, session'[t] # NoSession, session'[t].stage = "insert",
               NEW b \in Buckets, Holds(t, b)', session'[t].read[b] = 0
        PROVE  b \in session'[t].made
    <3>1. CASE t = s
      BY <3>1, <2>3, <1>3, <1>5, <1>6
    <3>2. CASE t # s
      BY <3>2, <2>3, <1>6 DEF OvershootInv, InsertsExclusive
    <3> QED BY <3>1, <3>2
  <2> QED BY <2>1, <2>2, <2>3 DEF InsertsExclusive, Buckets
<1>10. ASSUME NEW b \in Buckets PROVE RoomLeft(b)'
  <2>1. RoomLeft(b)
    BY DEF OvershootInv
  <2>2. LimitOf(b)' = LimitOf(b)
    BY DEF LimitOf
  <2>3. \A t \in Sessions : (Reader(t, b)' <=> Reader(t, b))
                            /\ (Reader(t, b) => session'[t].read = session[t].read)
    BY <1>7 DEF Reader, Holds
  <2> QED BY <2>1, <2>2, <2>3, <1>1 DEF RoomLeft
<1> QED BY <1>9, <1>10 DEF OvershootInv, Buckets

(* The commit writes what was read, plus one: the room for every count     *)
(* that the other session may still put the bucket back to shrinks by the  *)
(* request that is admitted.                                               *)
LEMMA CommitHolds ==
    ASSUME AdmissionInv, OvershootInv, TwoSessions, NEW s \in Sessions, Commit(s),
           Stored(session[s].key) = {}
    PROVE  OvershootInv'
<1> DEFINE read == session[s].read
<1>1. session[s].stage = "insert" /\ session' = [session EXCEPT ![s] = NoSession]
  BY DEF Commit
<1>2. Entering(s) /\ session[s] # NoSession
  BY <1>1 DEF AdmissionInv, SessionsOK, NoSession
<1>3. \A b \in Buckets : /\ b \in DOMAIN read =>
                               bucket'[b] = read[b] + 1 /\ admitted'[b] = admitted[b] + 1
                         /\ b \notin DOMAIN read =>
                               bucket'[b] = bucket[b] /\ admitted'[b] = admitted[b]
  BY DEF Commit, Charge, AdmissionInv, BucketsOK
<1>4. /\ session'[s] = NoSession
      /\ \A t \in Sessions : t # s => session'[t] = session[t]
  BY <1>1 DEF AdmissionInv, SessionsOK
<1>5. ASSUME NEW t \in Sessions, NEW b \in Buckets
      PROVE  /\ Holds(t, b)' => t # s /\ Holds(t, b)
             /\ Reader(t, b)' => t # s /\ Reader(t, b)
             /\ t # s /\ Holds(t, b) => Holds(t, b)'
  BY <1>4, <1>5 DEF Holds, Reader
(* A bucket that another session inserts is not among those that s read. *)
<1>6. ASSUME NEW t \in Sessions \ {s}, session[t] # NoSession, NEW b \in session[t].made
      PROVE  b \in Buckets /\ b \notin DOMAIN read
  <2>1. b \in Buckets /\ bucket[b] = None
    BY <1>6 DEF OvershootInv, InsertsExclusive, AdmissionInv, SessionsOK, Entering
  <2>2. b \in DOMAIN read => read[b] = 0
    BY <2>1, <1>2 DEF OvershootInv, RoomLeft, Reader, Holds
  <2>3. b \in DOMAIN read => b \in session[s].made
    BY <2>1, <2>2, <1>1, <1>2 DEF OvershootInv, InsertsExclusive, Holds
  <2> QED BY <2>1, <2>3, <1>2, <1>6 DEF OvershootInv, InsertsExclusive
<1>7. InsertsExclusive'
  <2>1. ASSUME NEW t \in Sessions, NEW b \in Buckets, Holds(t, b)'
        PROVE  session'[t].read[b] < LimitOf(b)'
    BY <2>1, <1>4, <1>5 DEF OvershootInv, InsertsExclusive, LimitOf
  <2>2. ASSUME NEW t \in Sessions, session'[t] # NoSession, NEW b \in session'[t].made
        PROVE  /\ bucket'[b] = None
               /\ Holds(t, b)' /\ session'[t].read[b] = 0
               /\ \A u \in Sessions \ {t} :
                     session'[u] # NoSession => b \notin session'[u].made
    <3>1. t # s /\ session'[t] = session[t] /\ session[t] # NoSession
      BY <2>2, <1>4
    <3>2. b \in Buckets /\ bucket'[b] = bucket[b]
      BY <3>1, <2>2, <1>3, <1>6
    <3>3. \A u \in Sessions : session'[u] = NoSession \/ session'[u] = session[u]
      BY <1>4
    <3> QED BY <3>1, <3>2, <3>3, <2>2, <1>5 DEF OvershootInv, InsertsExclusive
  <2>3. ASSUME NEW t \in Sessions, session'[t] # NoSession, session'[t].stage = "insert",
               NEW b \in Buckets, Holds(t, b)', session'[t].read[b] = 0
        PROVE  b \in session'[t].made
    BY <2>3, <1>4, <1>5 DEF OvershootInv, InsertsExclusive
  <2> QED BY <2>1, <2>2, <2>3 DEF InsertsExclusive, Buckets
<1>8. ASSUME NEW b \in Buckets PROVE RoomLeft(b)'
  <2> DEFINE L == LimitOf(b)
             c == bucket[b]
             r == read[b]
             n == admitted[b]
  <2>1. RoomLeft(b) /\ L \in Nat \ {0} /\ n \in Nat /\ LimitOf(b)' = L
    BY LimitType DEF OvershootInv, AdmissionInv, BucketsOK, LimitOf
  <2>2. ASSUME NEW t \in Sessions, Reader(t, b)'
        PROVE  t # s /\ Reader(t, b) /\ session'[t] = session[t]
    BY <2>2, <1>4, <1>5
  <2>3. CASE b \notin DOMAIN read
    BY <2>1, <2>2, <2>3, <1>3 DEF RoomLeft
  <2>4. CASE b \in DOMAIN read /\ r = 0
    <3>1. c = None /\ n = 0 /\ \A t \in Sessions : ~Reader(t, b)
      BY <2>1, <2>4, <1>1, <1>2 DEF OvershootInv, InsertsExclusive, Holds, RoomLeft
    <3>2. bucket'[b] = 1 /\ admitted'[b] = 1
      BY <3>1, <2>4, <1>3
    <3>3. 2 * 1 + Room(L, 1, 1) <= AtMost(L)
      BY <2>1, FirstRoom
    <3>4. 1 \in 1 .. L /\ 1 # None
      BY <2>1, NoCountAssumption
    <3>5. \A t \in Sessions : ~Reader(t, b)'
      BY <3>1, <2>2
    <3> QED BY <3>2, <3>3, <3>4, <3>5, <2>1 DEF RoomLeft
  <2>5. CASE b \in DOMAIN read /\ r # 0
    <3>1. r \in Nat /\ r < L /\ Reader(s, b)
      BY <2>5, <1>2 DEF OvershootInv, InsertsExclusive, Holds, Reader, Entering
    <3>2. c # None /\ c \in 1 .. L
      BY <3>1, <2>1 DEF RoomLeft
    <3>3. bucket'[b] = r + 1 /\ admitted'[b] = n + 1 /\ r + 1 # None /\ r + 1 \in 1 .. L
      BY <3>1, <2>1, <2>5, <1>3, NoCountAssumption
    <3>4. /\ 2 * n + Room(L, c, c) <= AtMost(L)
          /\ r <= c => 2 * n + Room(L, c, r) <= AtMost(L)
      BY <3>1, <3>2, <2>1 DEF RoomLeft
    <3>5. c \in Nat /\ c <= L /\ L \in Nat
      BY <3>2, <2>1
    <3>10. L = LimitOf(b)
      OBVIOUS
    <3>11. \A t \in Sessions : t # s /\ Reader(t, b) =>
              LET x == session[t].read[b]
              IN  /\ x \in Nat /\ (c = r \/ c = x)
                  /\ x <= c => 2 * n + Room(L, c, x) <= AtMost(L)
      BY <3>1, <3>2, <2>1 DEF RoomLeft, Reader, Holds, AdmissionInv, SessionsOK, Entering
    <3> HIDE DEF L, c, r, n
    <3>7. /\ 2 * (n + 1) + Room(L, r + 1, r + 1) <= AtMost(L)
          /\ \A x \in Nat :
                /\ x <= r
                /\ c = r \/ c = x
                /\ x <= c => 2 * n + Room(L, c, x) <= AtMost(L)
                => 2 * (n + 1) + Room(L, r + 1, x) <= AtMost(L)
      BY <3>1, <3>4, <3>5, <2>1, NextRoom
    <3>8. ASSUME NEW t \in Sessions, Reader(t, b)', session'[t].read[b] <= r + 1
          PROVE  2 * (n + 1) + Room(L, r + 1, session'[t].read[b]) <= AtMost(L)
      <4> DEFINE x == session[t].read[b]
      <4>1. t # s /\ Reader(t, b) /\ session'[t].read[b] = x
        BY <3>8, <2>2
      <4>2. /\ x \in Nat /\ (c = r \/ c = x)
            /\ x <= c => 2 * n + Room(L, c, x) <= AtMost(L)
        BY <4>1, <3>11
      <4> HIDE DEF x
      <4> QED BY <4>1, <4>2, <3>1, <3>7, <3>8
    <3>9. \A t, u \in Sessions : ~(t # u /\ Reader(t, b)' /\ Reader(u, b)')
      BY <2>2 DEF TwoSessions
    <3> QED BY <3>3, <3>7, <3>8, <3>9, <3>10, <2>1 DEF RoomLeft
  <2> QED BY <2>3, <2>4, <2>5
<1> QED BY <1>7, <1>8 DEF OvershootInv, Buckets

LEMMA OvershootFrame ==
    ASSUME OvershootInv, UNCHANGED <<session, bucket, admitted>>
    PROVE  OvershootInv'
BY DEF OvershootInv, InsertsExclusive, RoomLeft, Holds, Reader, LimitOf, Buckets

LEMMA OvershootKeeps == TwoSessions /\ AdmissionInv /\ OvershootInv /\ [Next]_vars => OvershootInv'
<1> SUFFICES ASSUME TwoSessions, AdmissionInv, OvershootInv, [Next]_vars PROVE OvershootInv'
  OBVIOUS
<1>1. ASSUME NEW s \in Sessions, Refuse(s), UNCHANGED <<bucket, admitted>>
      PROVE  OvershootInv'
  BY <1>1, SessionClears DEF Refuse
<1>2. ASSUME NEW s \in Sessions, NEW key, NEW body, Submit(s, key, body)
      PROVE  OvershootInv'
  <2>1. /\ UNCHANGED <<bucket, admitted>>
        /\ UNCHANGED session \/ session' = [session EXCEPT ![s] = Entered(key, body)]
    BY <1>2 DEF Submit
  <2>2. CASE UNCHANGED session
    BY <2>1, <2>2, OvershootFrame
  <2>3. CASE session' = [session EXCEPT ![s] = Entered(key, body)]
    BY <2>1, <2>3, SessionClears DEF Entered
  <2> QED BY <2>1, <2>2, <2>3
<1>3. ASSUME NEW s \in Sessions, ReadQuota(s)
      PROVE  OvershootInv'
  <2>1. UNCHANGED <<bucket, admitted>>
    BY <1>3 DEF ReadQuota
  <2> QED BY <2>1, <1>1, <1>3, ReadHolds
<1>4. ASSUME NEW s \in Sessions, Unblock(s)
      PROVE  OvershootInv'
  <2>1. UNCHANGED <<bucket, admitted>>
    BY <1>4 DEF Unblock
  <2> QED BY <2>1, <1>1, <1>4, UnblockHolds
<1>5. ASSUME NEW s \in Sessions, Commit(s)
      PROVE  OvershootInv'
  <2>1. CASE Stored(session[s].key) = {}
    BY <1>5, <2>1, CommitHolds
  <2>2. CASE Stored(session[s].key) # {}
    BY <1>5, <2>2, SessionClears DEF Commit, Charge
  <2> QED BY <2>1, <2>2
<1>6. CASE AdmissionNext
  BY <1>2, <1>3, <1>4, <1>5, <1>6, OvershootFrame
     DEF AdmissionNext, TransitionApplication, NextMinute
<1> QED BY <1>6, OvershootFrame DEF Next, vars, admissionVars

(* At most two is what OvershootBounded says of the sessions. *)
LEMMA TwoAreTwo == Cardinality(Sessions) <= 2 => TwoSessions
<1> SUFFICES ASSUME Cardinality(Sessions) <= 2,
                    NEW s \in Sessions, NEW t \in Sessions, NEW u \in Sessions,
                    s # t, t # u, s # u
             PROVE  FALSE
  BY DEF TwoSessions
<1> DEFINE three == ({s} \cup {t}) \cup {u}
<1>1. IsFiniteSet({s}) /\ Cardinality({s}) = 1
  BY FS_Singleton
<1>2. IsFiniteSet({s} \cup {t}) /\ Cardinality({s} \cup {t}) = 2
  BY <1>1, FS_AddElement
<1>3. IsFiniteSet(three) /\ Cardinality(three) = 3
  BY <1>2, FS_AddElement
<1>4. three \subseteq Sessions
  OBVIOUS
<1> HIDE DEF three
<1>5. Cardinality(three) <= Cardinality(Sessions)
  BY <1>4, SessionsAssumption, FS_Subset
<1>6. Cardinality(Sessions) \in Nat
  BY SessionsAssumption, FS_CardinalityType
<1> QED BY <1>3, <1>5, <1>6

(* Two concurrent requests exceed a quota only so far: they lose           *)
(* increments of each other's, and a slow one puts the count back to where *)
(* it had read it, at most once for each count (consume_quota reads the    *)
(* buckets without a lock).                                                *)
THEOREM OvershootIsBounded == Spec => []OvershootBounded
<1>1. CASE ~(Cardinality(Sessions) <= 2)
  <2>1. OvershootBounded
    BY <1>1 DEF OvershootBounded
  <2> QED BY <2>1, PTL
<1>2. CASE Cardinality(Sessions) <= 2
  <2>1. TwoSessions
    BY <1>2, TwoAreTwo
  <2>2. AdmissionInv /\ OvershootInv => OvershootBounded
    <3> SUFFICES ASSUME AdmissionInv, OvershootInv, NEW b \in Buckets
                 PROVE  admitted[b] <= (LimitOf(b) * (LimitOf(b) + 1)) \div 2
      BY DEF OvershootBounded
    <3>1. LimitOf(b) \in Nat \ {0} /\ admitted[b] \in Nat /\ RoomLeft(b)
      BY LimitType DEF AdmissionInv, BucketsOK, OvershootInv
    <3>2. CASE bucket[b] = None
      <4>1. admitted[b] = 0
        BY <3>1, <3>2 DEF RoomLeft
      <4>2. ASSUME NEW L \in Nat PROVE 0 <= (L * (L + 1)) \div 2
        <5>1. L * (L + 1) \in Nat
          BY <4>2
        <5>2. ASSUME NEW x \in Nat PROVE 0 <= x \div 2
          BY <5>2
        <5> QED BY <5>1, <5>2
      <4> QED BY <4>1, <4>2, <3>1
    <3>3. CASE bucket[b] # None
      <4>1. /\ bucket[b] \in Nat /\ bucket[b] <= LimitOf(b)
            /\ 2 * admitted[b] + Room(LimitOf(b), bucket[b], bucket[b]) <= AtMost(LimitOf(b))
        BY <3>1, <3>3 DEF RoomLeft
      <4> QED BY <4>1, <3>1, LastRoom
    <3> QED BY <3>2, <3>3
  <2> QED BY <2>1, <2>2, OvershootStarts, OvershootKeeps, AdmissionInvariant, PTL DEF Spec
<1> QED BY <1>1, <1>2
=============================================================================
