----------------------------- MODULE ProviderConfig -----------------------------
(***************************************************************************)
(* The provider configurations of a tenant and of one of its applications, *)
(* for one channel (management_api.py), and the choice among them          *)
(* (resolution.py).  Every request is two steps: it loads rows and tests   *)
(* them, and commits later, writing the columns that differ from what it   *)
(* has loaded; other requests commit in between.  Providers of type        *)
(* "fake", which need no secret, are left out.                             *)
(***************************************************************************)
EXTENDS Platform

VARIABLES
    providers,   \* provider_configs in the order of their created_at
    tester,      \* the requests in progress
    raced        \* history: providers whose health or policy was written by
                 \* a request that had loaded them before another one wrote

providerVars == <<providers, tester, raced>>

Policies == {"none", "default_if_absent", "explicit_failover"}

(* app: application_id is not NULL; fallback: 0 is NULL; revision counts   *)
(* what configuration and secret there were; verified, history: the last   *)
(* of them that passed a test.                                             *)
Providers ==
    [app : BOOLEAN, active : BOOLEAN, default : BOOLEAN, policy : Policies,
     fallback : Nat, health : {"unknown", "healthy", "invalid", "archived"},
     secret : BOOLEAN, revision : Nat, verified : Nat]

Untested(app, default, policy, fallback) ==
    [app |-> app, active |-> FALSE, default |-> default, policy |-> policy,
     fallback |-> fallback, health |-> "unknown", secret |-> TRUE,
     revision |-> 1, verified |-> 0]

NoTest == [request |-> "none"]

ProviderRequests ==
    {"create", "test", "update", "default", "replace", "transition", "unset", "archive"}

ProvidersTypeOK ==
    /\ providers \in Seq(Providers)
    /\ \A p \in DOMAIN providers :
          providers[p].fallback \in 0 .. Len(providers)
    /\ \A e \in Editors :
          tester[e] = NoTest \/ tester[e].request \in ProviderRequests
    /\ raced \subseteq DOMAIN providers

-----------------------------------------------------------------------------
Defaults == {p \in DOMAIN providers : providers[p].default /\ ~providers[p].app}

SameScope(app, fallback) ==
    fallback \in DOMAIN providers /\ providers[fallback].app = app

(* loaded: the rows when the request began; of: the row it is about. *)
BeginRequest(e, p, request, changes) ==
    /\ tester[e] = NoTest
    /\ Spend("configs")
    /\ tester' = [tester EXCEPT ![e] = [request |-> request, of |-> p,
                                        changes |-> changes, loaded |-> providers]]
    /\ UNCHANGED <<providers, raced>>

(* Faulty: a second default is not refused. *)
DefaultInScope(app, default) == default => ~app

DefaultAdmitted(app, default) == default => ~app /\ Defaults = {}

(* create_provider_record up to its insert. *)
BeginCreate(e, app, default, policy, fallback) ==
    /\ DefaultAdmitted(app, default)
    /\ policy = "explicit_failover" => fallback # 0
    /\ fallback # 0 => SameScope(app, fallback)
    /\ BeginRequest(e, 0, "create", Untested(app, default, policy, fallback))

BeginTest(e, p) == BeginRequest(e, p, "test", None)

(* set_default_provider up to its assignments. *)
BeginDefault(e, p) ==
    /\ ~providers[p].app /\ providers[p].active /\ providers[p].health = "healthy"
    /\ BeginRequest(e, p, "default", None)

(* A field that the request does not set keeps its value. *)
Changed(value, old) == IF value = None THEN old ELSE value

(* Faulty: the policy is checked against the request alone. *)
NeedsNoTarget(changes, row) == changes.policy = "explicit_failover" => changes.fallback # 0

FailoverNamed(changes, row) ==
    Changed(changes.policy, row.policy) = "explicit_failover"
        => Changed(changes.fallback, row.fallback) # 0

(* update_provider up to its assignments. *)
BeginUpdate(e, p, changes) ==
    /\ changes.default = TRUE => ~providers[p].app
    /\ changes.fallback \notin {None, 0}
           => changes.fallback # p /\ SameScope(providers[p].app, changes.fallback)
    /\ FailoverNamed(changes, providers[p])
    /\ BeginRequest(e, p, "update", changes)

BeginReplace(e, p) == BeginRequest(e, p, "replace", None)

(* apply_provider_transition up to its assignment. *)
BeginTransition(e, p, active) ==
    /\ active => providers[p].health = "healthy"
    /\ BeginRequest(e, p, "transition", active)

BeginUnset(e, p) == BeginRequest(e, p, "unset", None)

(* delete_provider up to its assignments. *)
BeginArchive(e, p) ==
    /\ ~providers[p].active /\ ~providers[p].default
    /\ BeginRequest(e, p, "archive", None)

-----------------------------------------------------------------------------
(* rows: those whose health or policy the request decides. *)
Finishing(e, request, rows) ==
    /\ tester[e].request = request
    /\ tester' = [tester EXCEPT ![e] = NoTest]
    /\ raced' = raced \cup {p \in rows : providers[p] # tester[e].loaded[p]}
    /\ UNCHANGED budget

(* The row of the request as it has loaded it. *)
Before(e) == tester[e].loaded[tester[e].of]

CommitRow(e, row) == providers' = [providers EXCEPT ![tester[e].of] = row]

CommitCreate(e) ==
    /\ Finishing(e, "create", {})
    /\ providers' = Append(providers, tester[e].changes)

(* The defaults it has seen are unset, p is set.                           *)
CommitDefault(e) ==
    LET loaded == tester[e].loaded
        chosen(q) == q = tester[e].of
        seen(q) == loaded[q].default /\ ~loaded[q].app
    IN  /\ Finishing(e, "default", {})
        /\ providers' = [q \in DOMAIN providers |->
              IF q \in DOMAIN loaded /\ (chosen(q) \/ seen(q))
              THEN [providers[q] EXCEPT !.default = Written(@, loaded[q].default, chosen(q))]
              ELSE providers[q]]

Tested(row, loaded, valid) ==
    [row EXCEPT !.health = Written(row.health, loaded.health,
                                   IF valid THEN "healthy" ELSE "invalid"),
                !.verified = IF valid THEN loaded.revision ELSE row.verified]

CommitTest(e) ==
    /\ Finishing(e, "test", {tester[e].of})
    /\ \E valid \in BOOLEAN :
          /\ valid => Before(e).secret
          /\ CommitRow(e, Tested(providers[tester[e].of], Before(e), valid))

Updated(row, loaded, changes) ==
    LET set(column, old, value) == Written(column, old, Changed(value, old))
    IN  [row EXCEPT !.default = set(row.default, loaded.default, changes.default),
                    !.policy = set(row.policy, loaded.policy, changes.policy),
                    !.fallback = set(row.fallback, loaded.fallback, changes.fallback),
                    !.health = Written(row.health, loaded.health, "unknown"),
                    !.revision = row.revision + 1]

CommitUpdate(e) ==
    /\ Finishing(e, "update", {tester[e].of})
    /\ CommitRow(e, Updated(providers[tester[e].of], Before(e), tester[e].changes))

(* Faulty: the old verdict stands. *)
ReplacedStillHealthy(row, loaded) == [row EXCEPT !.secret = TRUE, !.revision = @ + 1]

(* The encrypted secret always differs; the health need not. *)
Replaced(row, loaded) ==
    [row EXCEPT !.secret = TRUE,
                !.health = Written(row.health, loaded.health, "unknown"),
                !.revision = row.revision + 1]

CommitReplace(e) ==
    /\ Finishing(e, "replace", {tester[e].of})
    /\ CommitRow(e, Replaced(providers[tester[e].of], Before(e)))

CommitTransition(e) ==
    /\ Finishing(e, "transition", {})
    /\ CommitRow(e, [providers[tester[e].of] EXCEPT
                        !.active = Written(@, Before(e).active, tester[e].changes)])

CommitUnset(e) ==
    /\ Finishing(e, "unset", {})
    /\ CommitRow(e, [providers[tester[e].of] EXCEPT
                        !.default = Written(@, Before(e).default, FALSE)])

Archived(row, loaded) ==
    [row EXCEPT !.health = Written(row.health, loaded.health, "archived"),
                !.secret = Written(row.secret, loaded.secret, FALSE),
                !.revision = row.revision + 1]

(* The rows that fell back to the archived one when it was loaded. *)
Dependents(e) ==
    {q \in DOMAIN tester[e].loaded : tester[e].loaded[q].fallback = tester[e].of}

WithoutTarget(row, loaded) ==
    [row EXCEPT !.fallback = 0,
                !.policy = IF loaded.policy = "explicit_failover" THEN "none" ELSE row.policy]

(* Faulty: the row is deleted, and those that fall back to it keep its id. *)
DeleteLast(e) ==
    /\ Finishing(e, "archive", {})
    /\ tester[e].of = Len(providers) /\ \A d \in Editors \ {e} : tester[d] = NoTest
    /\ providers' = SubSeq(providers, 1, Len(providers) - 1)

CommitArchive(e) ==
    LET loaded == tester[e].loaded IN
    /\ Finishing(e, "archive", {tester[e].of} \cup Dependents(e))
    /\ providers' = [q \in DOMAIN providers |->
          IF q = tester[e].of THEN Archived(providers[q], loaded[q])
          ELSE IF q \in Dependents(e) THEN WithoutTarget(providers[q], loaded[q])
          ELSE providers[q]]

-----------------------------------------------------------------------------
AppProviders == {p \in DOMAIN providers : providers[p].app}

Available(p) == providers[p].active /\ providers[p].health = "healthy"

(* What resolve_provider may return for the application: a set, empty when *)
(* it raises, and of more than one only if there are several defaults.     *)
Resolved ==
    IF AppProviders = {}
    THEN {p \in Defaults : Available(p) /\ providers[p].policy = "default_if_absent"}
    ELSE LET primary == CHOOSE p \in AppProviders : \A q \in AppProviders : q <= p
             fallback == providers[primary].fallback
         IN  IF Available(primary) THEN {primary}
             ELSE {p \in {fallback} \cap AppProviders :
                      /\ providers[primary].health # "invalid"
                      /\ providers[primary].policy = "explicit_failover"
                      /\ Available(p)}

(* A default of the tenant to send with, or two providers of the           *)
(* application, the second of which names the first.                       *)
ProvidersInit ==
    /\ providers = IF budget.running
                   THEN <<[Untested(FALSE, TRUE, "default_if_absent", 0) EXCEPT
                              !.active = TRUE, !.health = "healthy", !.verified = 1]>>
                   ELSE IF budget.paired
                   THEN <<Untested(TRUE, FALSE, "none", 0), Untested(TRUE, FALSE, "none", 1)>>
                   ELSE <<>>
    /\ tester = [e \in Editors |-> NoTest]
    /\ raced = {}

(* Bound: what updates set. *)
Updates ==
    {[default |-> TRUE, policy |-> None, fallback |-> None]}
        \cup [default : {None}, policy : {None, "explicit_failover"},
              fallback : {None, 0} \cup DOMAIN providers]

ProvidersNext ==
    \/ \E e \in budget.editors, app, default \in BOOLEAN, policy \in Policies :
          \E fallback \in {0} \cup DOMAIN providers : BeginCreate(e, app, default, policy, fallback)
    \/ \E e \in budget.editors, p \in DOMAIN providers :
          \/ BeginTest(e, p) \/ BeginDefault(e, p) \/ BeginReplace(e, p)
          \/ BeginUnset(e, p) \/ BeginArchive(e, p)
          \/ \E active \in BOOLEAN : BeginTransition(e, p, active)
          \/ \E changes \in Updates : BeginUpdate(e, p, changes)
    \/ \E e \in Editors :
          \/ CommitCreate(e) \/ CommitTest(e) \/ CommitUpdate(e) \/ CommitDefault(e)
          \/ CommitReplace(e) \/ CommitTransition(e) \/ CommitUnset(e) \/ CommitArchive(e)

-----------------------------------------------------------------------------
(* What the application would send with has a secret, and passed its test  *)
(* with the configuration and secret it has now.  Exempt is a provider     *)
(* that a test, an update or a replaced secret wrote when another request  *)
(* had changed it since it was loaded: the verdict on the old              *)
(* configuration then stands for the new one, because the test writes it   *)
(* last, or because the other has loaded "unknown" and so does not write   *)
(* it again.                                                               *)
ResolvedIsVerified ==
    \A p \in Resolved \ raced :
        providers[p].secret /\ providers[p].verified = providers[p].revision

(* A provider told to fail over names another of its scope to fail over    *)
(* to, however the two are updated and archived in turn.  Exempt are an    *)
(* update of the provider and an archive of the one it names that overlap: *)
(* whichever commits last has not seen the other, and leaves the policy    *)
(* without a target.                                                       *)
FailoverHasTarget ==
    \A p \in DOMAIN providers \ raced :
        providers[p].policy = "explicit_failover"
            => /\ providers[p].fallback \in DOMAIN providers \ {p}
               /\ providers[providers[p].fallback].app = providers[p].app

(* A second default, which leaves it open which provider an application    *)
(* sends with, comes only of an update, which never asks, or of a request  *)
(* that tested for defaults before another one wrote.                      *)
SecondDefaultOnlyUnchecked ==
    [][Cardinality(Defaults) <= 1 /\ Cardinality(Defaults') > 1
         => \E e \in Editors :
               /\ tester[e] # NoTest /\ tester'[e] = NoTest
               /\ tester[e].request = "update" \/ tester[e].loaded # providers]_providers
=============================================================================
