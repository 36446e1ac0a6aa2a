---------------------------- MODULE ProviderProofs ----------------------------
(***************************************************************************)
(* Providers and API keys for any editors and scenarios: the choice of a   *)
(* provider and its failover, however requests overlap, and the keys that  *)
(* rotation leaves; with the other proofs, the type of every variable.     *)
(***************************************************************************)
EXTENDS CatalogProofs, FiniteSetTheorems, WellFoundedInduction

(* Of some rows of a table one is the newest. *)
LEMMA NewestExists ==
    ASSUME NEW n \in Nat, NEW S, S \subseteq 1 .. n, S # {}
    PROVE  \E x \in S : \A y \in S : y <= x
<1> DEFINE T == {n - x : x \in S}
           less == {p \in Nat \X Nat : p[1] < p[2]}
<1>1. T \subseteq Nat /\ T # {} /\ \A y \in S : y \in Nat /\ n - y \in Nat
  <2>1. \A y \in S : y \in Nat /\ n - y \in Nat
    OBVIOUS
  <2> QED BY <2>1
<1>2. IsWellFoundedOn(less, Nat)
  BY NatLessThanWellFounded DEF OpToRel
<1> HIDE DEF T
<1>3. PICK t \in T : \A u \in T : ~(<<u, t>> \in less)
  <2> HIDE DEF less
  <2> QED BY <1>1, <1>2, WFMin
<1>4. PICK x \in S : t = n - x
  BY DEF T
<1>5. ASSUME NEW y \in S PROVE y <= x
  <2>1. n - y \in T
    BY DEF T
  <2>2. ~(n - y < n - x)
    BY <2>1, <1>1, <1>3, <1>4
  <2> QED BY <2>2, <1>1
<1> QED BY <1>5

-----------------------------------------------------------------------------
(* What a request in progress was admitted for, on the rows it has loaded. *)
(* No row is ever removed or changes its scope, so that this stays true.   *)
TargetIn(rows, app, fallback) ==
    fallback # 0 => fallback \in DOMAIN rows /\ rows[fallback].app = app

CreateOK(r) ==
    /\ r.of = 0
    /\ r.changes \in Providers /\ r.changes.health = "unknown"
    /\ r.changes.policy = "explicit_failover" => r.changes.fallback # 0
    /\ TargetIn(r.loaded, r.changes.app, r.changes.fallback)
    /\ r.changes.default
          => \A q \in DOMAIN r.loaded : ~(r.loaded[q].default /\ ~r.loaded[q].app)

UpdateOK(r) ==
    /\ r.changes.default \in {TRUE, None}
    /\ r.changes.policy \in {"explicit_failover", None}
    /\ r.changes.fallback = None
          \/ /\ r.changes.fallback \in Nat \ {r.of}
             /\ TargetIn(r.loaded, r.loaded[r.of].app, r.changes.fallback)
    /\ FailoverNamed(r.changes, r.loaded[r.of])

TesterOK(r) ==
    /\ r.request \in ProviderRequests
    /\ r.loaded \in Seq(Providers) /\ Len(r.loaded) <= Len(providers)
    /\ \A q \in DOMAIN r.loaded : r.loaded[q].app = providers[q].app
    /\ r.request = "create" => CreateOK(r)
    /\ r.request # "create" => r.of \in DOMAIN r.loaded
    /\ r.request = "update" => UpdateOK(r)
    /\ r.request = "transition" => r.changes \in BOOLEAN

TestersOK ==
    /\ DOMAIN tester = Editors
    /\ \A e \in Editors : tester[e] = NoTest \/ TesterOK(tester[e])

(* A target is another provider of the scope, for all; for those that no   *)
(* request wrote on what it had read before, the policy to fail over names *)
(* one, and "healthy" is the verdict on what is configured.                *)
Settled(p) ==
    /\ providers[p].policy = "explicit_failover" => providers[p].fallback # 0
    /\ providers[p].health = "healthy"
          => providers[p].secret /\ providers[p].verified = providers[p].revision

Targeted(p) ==
    /\ providers[p].fallback # p
    /\ TargetIn(providers, providers[p].app, providers[p].fallback)

ProvidersOK ==
    /\ providers \in Seq(Providers)
    /\ raced \subseteq DOMAIN providers
    /\ \A p \in DOMAIN providers : Targeted(p)
    /\ \A p \in DOMAIN providers \ raced : Settled(p)

ProvidersInv == ProvidersOK /\ TestersOK

(* Keys of a chain have one expiry date, and the newest was not replaced.  *)
Chain(c) == {d \in DOMAIN credentials : credentials[d].of = credentials[c].of}

CredentialsInv ==
    /\ credentials \in Seq(Credentials) /\ expired \in BOOLEAN
    /\ \A c \in DOMAIN credentials :
          /\ credentials[c].of \in 1 .. c
          /\ \A d \in Chain(c) : credentials[d].expires = credentials[c].expires
          /\ (\A d \in Chain(c) : d <= c) => ~credentials[c].replaced

-----------------------------------------------------------------------------
LEMMA KeysStart == Init => CredentialsInv
<1> SUFFICES ASSUME Init PROVE CredentialsInv
  OBVIOUS
<1> DEFINE first == Fresh(FALSE, 1)
<1>1. /\ first \in Credentials /\ first.of = 1 /\ first.replaced = FALSE
      /\ first.expires = FALSE
  BY DEF Fresh, Credentials
<1>2. expired = FALSE /\ credentials = IF budget.running THEN <<first>> ELSE <<>>
  BY DEF Init, CredentialsInit
<1> HIDE DEF first
<1>3. CASE credentials = <<first>>
  <2>1. credentials \in Seq(Credentials) /\ DOMAIN credentials = {1} /\ credentials[1] = first
    BY <1>1, <1>3
  <2>2. 1 \in 1 .. 1
    OBVIOUS
  <2> QED BY <2>1, <2>2, <1>1, <1>2 DEF CredentialsInv, Chain
<1>4. CASE credentials = <<>>
  <2>1. credentials \in Seq(Credentials) /\ DOMAIN credentials = {}
    BY <1>4
  <2> QED BY <2>1, <1>2 DEF CredentialsInv
<1> QED BY <1>2, <1>3, <1>4

(* A new key is the newest of its chain, which has its expiry date, if any *)
(* other is in it; the other rows may be marked, and change nothing else.  *)
LEMMA KeyAppended ==
    ASSUME CredentialsInv, NEW rows \in Seq(Credentials), Len(rows) = Len(credentials),
           \A c \in DOMAIN credentials :
              rows[c].of = credentials[c].of /\ rows[c].expires = credentials[c].expires,
           NEW of, NEW expires \in BOOLEAN,
           \/ of = Len(credentials) + 1
           \/ \E c \in DOMAIN credentials :
                 of = credentials[c].of /\ expires = credentials[c].expires,
           \A c \in DOMAIN credentials :
              rows[c].replaced # credentials[c].replaced => credentials[c].of = of,
           credentials' = Append(rows, Fresh(expires, of)), UNCHANGED expired
    PROVE  CredentialsInv'
<1> DEFINE new == Fresh(expires, of)
           last == Len(credentials) + 1
<1>1. /\ credentials \in Seq(Credentials) /\ Len(credentials) \in Nat
      /\ DOMAIN credentials = 1 .. Len(credentials) /\ DOMAIN rows = 1 .. Len(credentials)
  BY SeqDomain DEF CredentialsInv
<1>2. of \in 1 .. last
  BY <1>1 DEF CredentialsInv
<1>3. /\ new \in Credentials /\ new.of = of /\ new.expires = expires
      /\ new.replaced = FALSE
  BY <1>2 DEF Fresh, Credentials
<1> HIDE DEF new
<1>4. /\ credentials' \in Seq(Credentials) /\ DOMAIN credentials' = 1 .. last
      /\ credentials'[last] = new
      /\ \A c \in DOMAIN credentials : credentials'[c] = rows[c]
  BY <1>1, <1>3, SeqAppended DEF new
<1>5. ASSUME NEW c \in DOMAIN credentials', NEW d \in DOMAIN credentials',
             credentials'[d].of = credentials'[c].of
      PROVE  credentials'[d].expires = credentials'[c].expires
  <2>1. ASSUME NEW b \in DOMAIN credentials, credentials[b].of = of
        PROVE  credentials[b].expires = expires
    BY <2>1, <1>1 DEF CredentialsInv, Chain
  <2> QED BY <2>1, <1>1, <1>3, <1>4, <1>5 DEF CredentialsInv, Chain
<1>6. ASSUME NEW c \in DOMAIN credentials',
             \A d \in DOMAIN credentials' : credentials'[d].of = credentials'[c].of => d <= c
      PROVE  ~credentials'[c].replaced
  <2>1. CASE c = last
    BY <2>1, <1>3, <1>4
  <2>2. CASE c # last
    <3>1. c \in DOMAIN credentials /\ last \in DOMAIN credentials' /\ ~(last <= c)
      BY <2>2, <1>1, <1>4
    <3>2. credentials[c].of # of
      BY <3>1, <1>3, <1>4, <1>6
    <3>3. \A d \in Chain(c) : d <= c
      BY <3>1, <1>1, <1>4, <1>6 DEF Chain
    <3> QED BY <3>1, <3>2, <3>3, <1>4 DEF CredentialsInv
  <2> QED BY <2>1, <2>2
<1>7. ASSUME NEW c \in DOMAIN credentials' PROVE credentials'[c].of \in 1 .. c
  BY <1>1, <1>2, <1>3, <1>4 DEF CredentialsInv
<1> QED BY <1>4, <1>5, <1>6, <1>7 DEF CredentialsInv, Chain

(* A key that is marked, of a table of keys. *)
LEMMA KeyMarked ==
    ASSUME CredentialsInv, NEW c \in DOMAIN credentials, NEW row \in Credentials
    PROVE  /\ [credentials EXCEPT ![c] = row] \in Seq(Credentials)
           /\ Len([credentials EXCEPT ![c] = row]) = Len(credentials)
           /\ DOMAIN [credentials EXCEPT ![c] = row] = DOMAIN credentials
           /\ \A d \in DOMAIN credentials :
                 [credentials EXCEPT ![c] = row][d] = IF d = c THEN row ELSE credentials[d]
           /\ credentials[c] \in Credentials
<1> DEFINE rows == [credentials EXCEPT ![c] = row]
<1>1. \A d \in DOMAIN credentials : rows[d] = IF d = c THEN row ELSE credentials[d]
  OBVIOUS
<1>2. rows = [d \in DOMAIN credentials |-> rows[d]]
  OBVIOUS
<1>3. \A d \in DOMAIN credentials : credentials[d] \in Credentials
  BY SeqElement DEF CredentialsInv
<1> HIDE DEF rows
<1>4. rows \in Seq(Credentials) /\ Len(rows) = Len(credentials)
      /\ DOMAIN rows = DOMAIN credentials
  BY <1>1, <1>2, <1>3, SeqRewritten DEF CredentialsInv
<1> QED BY <1>1, <1>3, <1>4 DEF rows

LEMMA KeysKeep ==
    ASSUME CredentialsInv, CredentialsNext
    PROVE  CredentialsInv'
<1>1. ASSUME NEW expires \in BOOLEAN, CreateCredential(expires) PROVE CredentialsInv'
  BY <1>1, KeyAppended DEF CreateCredential, CredentialsInv
<1>2. ASSUME NEW c \in DOMAIN credentials, NEW overlap \in BOOLEAN, RotateCredential(c, overlap)
      PROVE  CredentialsInv'
  <2> DEFINE row == Rotated(credentials[c], overlap)
             rows == [credentials EXCEPT ![c] = row]
  <2>1. credentials' = Append(rows, Fresh(credentials[c].expires, credentials[c].of))
        /\ UNCHANGED expired
    BY <1>2 DEF RotateCredential
  <2>2. credentials[c] \in Credentials
    BY SeqElement DEF CredentialsInv
  <2>3. /\ row \in Credentials /\ row.of = credentials[c].of
        /\ row.expires = credentials[c].expires /\ credentials[c].expires \in BOOLEAN
    BY <2>2 DEF Rotated, Credentials
  <2> HIDE DEF row
  <2>4. /\ rows \in Seq(Credentials) /\ Len(rows) = Len(credentials)
        /\ \A d \in DOMAIN credentials : rows[d] = IF d = c THEN row ELSE credentials[d]
    BY <2>3, KeyMarked
  <2> HIDE DEF rows
  <2> QED BY <2>1, <2>3, <2>4, KeyAppended
<1>3. ASSUME NEW c \in DOMAIN credentials, RevokeCredential(c) \/ EndOverlap(c)
      PROVE  CredentialsInv'
  <2>1. PICK row : /\ credentials' = [credentials EXCEPT ![c] = row] /\ UNCHANGED expired
                   /\ row \in Credentials /\ row.of = credentials[c].of
                   /\ row.expires = credentials[c].expires
                   /\ row.replaced = credentials[c].replaced
    <3>1. credentials[c] \in Credentials
      BY SeqElement DEF CredentialsInv
    <3>2. CASE RevokeCredential(c)
      <4> WITNESS [credentials[c] EXCEPT !.revoked = TRUE]
      <4> QED BY <3>1, <3>2 DEF RevokeCredential, Credentials
    <3>3. CASE EndOverlap(c)
      <4> WITNESS [credentials[c] EXCEPT !.overlap = "ended"]
      <4> QED BY <3>1, <3>3 DEF EndOverlap, Credentials
    <3> QED BY <1>3, <3>2, <3>3
  <2> QED BY <2>1, KeyMarked DEF CredentialsInv, Chain
<1>4. ASSUME Expire PROVE CredentialsInv'
  BY <1>4 DEF Expire, CredentialsInv, Chain
<1> QED BY <1>1, <1>2, <1>3, <1>4 DEF CredentialsNext

(* The keys that descend from one by rotation have its expiry date, and    *)
(* the newest of them was not replaced: the inductive invariant of the     *)
(* credentials.                                                            *)
THEOREM CredentialsInvariant == Spec => []CredentialsInv
<1>1. CredentialsInv /\ [Next]_vars => CredentialsInv'
  <2> SUFFICES ASSUME CredentialsInv, [Next]_vars PROVE CredentialsInv'
    OBVIOUS
  <2>1. CASE UNCHANGED credentialVars
    BY <2>1 DEF credentialVars, CredentialsInv, Chain
  <2> QED BY <2>1, KeysKeep DEF Next, vars
<1> QED BY <1>1, KeysStart, PTL DEF Spec

(* Rotation neither extends the life a key was given nor locks anybody out *)
(* (rotate_credential): of the keys that descend from one by rotation, the *)
(* newest works until the expiry date, unless it was revoked, and none     *)
(* does after it.                                                          *)
THEOREM RotationIsSafe == Spec => []RotationKeepsAccess
<1>1. CredentialsInv => RotationKeepsAccess
  <2> SUFFICES ASSUME CredentialsInv, NEW c \in DOMAIN credentials
               PROVE  LET newest == CHOOSE d \in Chain(c) : \A b \in Chain(c) : b <= d
                      IN  IF credentials[c].expires /\ expired
                          THEN \A d \in Chain(c) : ~Usable(d)
                          ELSE Usable(newest) \/ credentials[newest].revoked
    BY DEF RotationKeepsAccess, Chain
  <2> DEFINE newest == CHOOSE d \in Chain(c) : \A b \in Chain(c) : b <= d
  <2>1. newest \in Chain(c) /\ \A b \in Chain(c) : b <= newest
    <3>1. Chain(c) \subseteq 1 .. Len(credentials) /\ Chain(c) # {} /\ Len(credentials) \in Nat
      BY SeqDomain DEF Chain, CredentialsInv
    <3>2. \E d \in Chain(c) : \A b \in Chain(c) : b <= d
      BY <3>1, NewestExists
    <3> QED BY <3>2
  <2> HIDE DEF newest
  <2>2. newest \in DOMAIN credentials /\ Chain(newest) = Chain(c)
    BY <2>1 DEF Chain
  <2>3. ~credentials[newest].replaced
    BY <2>1, <2>2 DEF CredentialsInv
  <2>4. \A d \in Chain(c) : credentials[d].expires = credentials[c].expires
    BY DEF CredentialsInv
  <2> QED BY <2>1, <2>3, <2>4 DEF newest, Usable
<1> QED BY <1>1, CredentialsInvariant, PTL

(* A key that stopped working does not come back, but for the rotation of  *)
(* one whose overlap has ended (rotate_credential, get_app_principal).     *)
THEOREM DeadKeysStayDead == Spec => DeadKeysReviveOnlyByRotation
<1> DEFINE Revived ==
      \A c \in DOMAIN credentials :
          ~Usable(c) /\ Usable(c)'
              => /\ ~credentials[c].revoked
                 /\ credentials[c].overlap = "ended"
                 /\ Len(credentials') = Len(credentials) + 1
<1>1. CredentialsInv /\ [Next]_vars => [Revived]_credentials
  <2> SUFFICES ASSUME CredentialsInv, [Next]_vars, credentials' # credentials,
                      NEW c \in DOMAIN credentials, ~Usable(c), Usable(c)'
               PROVE  /\ ~credentials[c].revoked
                      /\ credentials[c].overlap = "ended"
                      /\ Len(credentials') = Len(credentials) + 1
    OBVIOUS
  <2>1. CredentialsNext
    BY DEF Next, vars, credentialVars
  <2>2. credentials \in Seq(Credentials) /\ \A d \in DOMAIN credentials : credentials[d] \in Credentials
    BY SeqElement DEF CredentialsInv
  <2>3. ASSUME NEW expires \in BOOLEAN, CreateCredential(expires) PROVE FALSE
    <3>1. Fresh(expires, Len(credentials) + 1) \in Credentials
      BY <2>2 DEF Fresh, Credentials
    <3>2. credentials'[c] = credentials[c] /\ expired' = expired
      BY <2>2, <2>3, <3>1, SeqAppended DEF CreateCredential
    <3> QED BY <3>2 DEF Usable
  <2>4. ASSUME NEW d \in DOMAIN credentials, NEW overlap \in BOOLEAN, RotateCredential(d, overlap)
        PROVE  /\ ~credentials[c].revoked
               /\ credentials[c].overlap = "ended"
               /\ Len(credentials') = Len(credentials) + 1
    <3> DEFINE row == Rotated(credentials[d], overlap)
               rows == [credentials EXCEPT ![d] = row]
               new == Fresh(credentials[d].expires, credentials[d].of)
    <3>1. credentials' = Append(rows, new) /\ expired' = expired
      BY <2>4 DEF RotateCredential
    <3>2. /\ row \in Credentials /\ row.revoked = (credentials[d].revoked \/ ~overlap)
          /\ row.overlap = (IF overlap THEN "open" ELSE "ended") /\ new \in Credentials
          /\ row.replaced = TRUE /\ row.expires = credentials[d].expires
      BY <2>2 DEF Rotated, Credentials, Fresh
    <3> HIDE DEF row, new
    <3>3. /\ rows \in Seq(Credentials) /\ Len(rows) = Len(credentials)
          /\ DOMAIN rows = DOMAIN credentials
          /\ \A b \in DOMAIN credentials : rows[b] = IF b = d THEN row ELSE credentials[b]
      BY <3>2, KeyMarked
    <3> HIDE DEF rows
    <3>4. Len(credentials') = Len(credentials) + 1 /\ credentials'[c] = rows[c]
      <4>1. /\ Len(Append(rows, new)) = Len(rows) + 1
            /\ \A k \in DOMAIN rows : Append(rows, new)[k] = rows[k]
        BY <3>2, <3>3, SeqAppended
      <4> QED BY <4>1, <3>1, <3>3
    <3>5. CASE c # d
      BY <3>1, <3>3, <3>4, <3>5 DEF Usable
    <3>6. CASE c = d
      <4>1. credentials'[c] = row /\ ~row.revoked
        BY <3>3, <3>4, <3>6 DEF Usable
      <4>2. ~credentials[c].revoked /\ ~(credentials[c].expires /\ expired)
        BY <4>1, <3>1, <3>2, <3>6 DEF Usable
      <4> QED BY <4>2, <3>4 DEF Usable
    <3> QED BY <3>5, <3>6
  <2>5. ASSUME NEW d \in DOMAIN credentials, RevokeCredential(d) PROVE FALSE
    BY <2>2, <2>5 DEF RevokeCredential, Usable, Credentials
  <2>6. ASSUME NEW d \in DOMAIN credentials, EndOverlap(d) PROVE FALSE
    BY <2>2, <2>6 DEF EndOverlap, Usable, Credentials
  <2> QED BY <2>1, <2>3, <2>4, <2>5, <2>6 DEF CredentialsNext, Expire
<1> QED BY <1>1, CredentialsInvariant, PTL DEF Spec, DeadKeysReviveOnlyByRotation

-----------------------------------------------------------------------------
LEMMA ProvidersStart == Init => ProvidersInv
<1> SUFFICES ASSUME Init PROVE ProvidersInv
  OBVIOUS
<1> DEFINE first == [Untested(FALSE, TRUE, "default_if_absent", 0) EXCEPT
                        !.active = TRUE, !.health = "healthy", !.verified = 1]
           lone == Untested(TRUE, FALSE, "none", 0)
           second == Untested(TRUE, FALSE, "none", 1)
<1>1. /\ raced = {} /\ tester = [e \in Editors |-> NoTest]
      /\ providers \in {<<first>>, <<lone, second>>, <<>>}
  BY DEF Init, ProvidersInit
<1>2. /\ first \in Providers /\ first.fallback = 0 /\ first.policy = "default_if_absent"
      /\ first.secret /\ first.verified = first.revision
  BY DEF Untested, Providers, Policies
<1>3. /\ lone \in Providers /\ second \in Providers
      /\ lone.fallback = 0 /\ second.fallback = 1 /\ lone.app = second.app
      /\ lone.policy = "none" /\ second.policy = "none"
      /\ lone.health = "unknown" /\ second.health = "unknown"
  BY DEF Untested, Providers, Policies
<1> HIDE DEF first, lone, second
<1>4. TestersOK
  BY <1>1 DEF TestersOK
<1>5. CASE providers = <<first>>
  <2>1. providers \in Seq(Providers) /\ DOMAIN providers = {1} /\ providers[1] = first
    BY <1>2, <1>5
  <2> QED BY <2>1, <1>1, <1>2, <1>4 DEF ProvidersInv, ProvidersOK, Targeted, TargetIn, Settled
<1>6. CASE providers = <<lone, second>>
  <2>1. /\ providers \in Seq(Providers) /\ DOMAIN providers = {1, 2}
        /\ providers[1] = lone /\ providers[2] = second
    BY <1>3, <1>6
  <2>2. Targeted(1) /\ Targeted(2) /\ Settled(1) /\ Settled(2)
    BY <2>1, <1>3 DEF Targeted, TargetIn, Settled
  <2> QED BY <2>1, <2>2, <1>1, <1>4 DEF ProvidersInv, ProvidersOK
<1>7. CASE providers = <<>>
  <2>1. providers \in Seq(Providers) /\ DOMAIN providers = {}
    BY <1>7
  <2> QED BY <2>1, <1>1, <1>4 DEF ProvidersInv, ProvidersOK
<1> QED BY <1>1, <1>5, <1>6, <1>7

LEMMA TesterFrame ==
    ASSUME UNCHANGED providers, NEW r, TesterOK(r)
    PROVE  TesterOK(r)'
  BY DEF TesterOK, CreateOK, UpdateOK, TargetIn, FailoverNamed

(* A request that begins tests the rows it loads. *)
LEMMA BeginRequestKeeps ==
    ASSUME ProvidersInv, NEW e \in Editors, NEW p, NEW request, NEW changes,
           BeginRequest(e, p, request, changes),
           TesterOK([request |-> request, of |-> p, changes |-> changes, loaded |-> providers])
    PROVE  ProvidersInv'
<1> DEFINE new == [request |-> request, of |-> p, changes |-> changes, loaded |-> providers]
<1>1. UNCHANGED <<providers, raced>> /\ tester' = [tester EXCEPT ![e] = new]
  BY DEF BeginRequest
<1>2. TesterOK(new)
  OBVIOUS
<1> HIDE DEF new
<1>3. /\ DOMAIN tester' = Editors /\ tester'[e] = new
      /\ \A d \in Editors \ {e} : tester'[d] = tester[d]
  BY <1>1 DEF ProvidersInv, TestersOK
<1>4. ASSUME NEW d \in Editors PROVE tester'[d] = NoTest \/ TesterOK(tester[d])'
  <2>1. PICK r : r = tester'[d] /\ (r = NoTest \/ TesterOK(r))
    BY <1>2, <1>3 DEF ProvidersInv, TestersOK
  <2>2. TesterOK(r) => TesterOK(r)'
    BY <1>1, TesterFrame
  <2> QED BY <2>1, <2>2
<1>5. ProvidersOK'
  BY <1>1 DEF ProvidersInv, ProvidersOK, Targeted, TargetIn, Settled
<1> QED BY <1>3, <1>4, <1>5 DEF ProvidersInv, TestersOK

(* Rows that keep their scope leave the other requests what they were.     *)
LEMMA TestersKeep ==
    ASSUME ProvidersInv, providers' \in Seq(Providers), Len(providers) <= Len(providers'),
           \A q \in DOMAIN providers : providers'[q].app = providers[q].app,
           DOMAIN tester' = Editors,
           \A d \in Editors : tester'[d] = tester[d] \/ tester'[d] = NoTest
    PROVE  TestersOK'
<1>1. ASSUME NEW d \in Editors, tester'[d] = tester[d], TesterOK(tester[d])
      PROVE  TesterOK(tester[d])'
  <2>1. /\ Len(tester[d].loaded) <= Len(providers')
        /\ \A q \in DOMAIN tester[d].loaded : q \in DOMAIN providers
    BY <1>1, SeqDomain DEF TesterOK, ProvidersInv, ProvidersOK
  <2> QED
    BY <2>1, <1>1 DEF TesterOK, CreateOK, UpdateOK, TargetIn, FailoverNamed
<1> QED BY <1>1 DEF ProvidersInv, TestersOK

(* One row is written. *)
LEMMA RowKeeps ==
    ASSUME ProvidersInv, NEW p \in DOMAIN providers, NEW row \in Providers,
           row.app = providers[p].app, row.fallback # p,
           TargetIn(providers, row.app, row.fallback),
           providers' = [providers EXCEPT ![p] = row],
           raced \subseteq raced', raced' \subseteq DOMAIN providers,
           p \notin raced'
              => /\ row.policy = "explicit_failover" => row.fallback # 0
                 /\ row.health = "healthy" => row.secret /\ row.verified = row.revision,
           DOMAIN tester' = Editors,
           \A d \in Editors : tester'[d] = tester[d] \/ tester'[d] = NoTest
    PROVE  ProvidersInv'
<1>1. \A q \in DOMAIN providers : providers'[q] = IF q = p THEN row ELSE providers[q]
  OBVIOUS
<1>2. providers' \in Seq(Providers) /\ Len(providers') = Len(providers)
      /\ DOMAIN providers' = DOMAIN providers
  <2>1. \A q \in DOMAIN providers : providers[q] \in Providers
    BY SeqElement DEF ProvidersInv, ProvidersOK
  <2>2. providers' = [q \in DOMAIN providers |-> providers'[q]]
    OBVIOUS
  <2> QED BY <2>1, <2>2, <1>1, SeqRewritten DEF ProvidersInv, ProvidersOK
<1>3. \A q \in DOMAIN providers : providers'[q].app = providers[q].app
  BY <1>1
<1>4. ASSUME NEW q \in DOMAIN providers PROVE Targeted(q)'
  BY <1>1, <1>2, <1>3 DEF ProvidersInv, ProvidersOK, Targeted, TargetIn
<1>5. ASSUME NEW q \in DOMAIN providers \ raced' PROVE Settled(q)'
  BY <1>1 DEF ProvidersInv, ProvidersOK, Settled
<1>6. Len(providers) \in Nat
  BY DEF ProvidersInv, ProvidersOK
<1>7. TestersOK'
  BY <1>2, <1>3, <1>6, TestersKeep
<1> QED BY <1>2, <1>4, <1>5, <1>7 DEF ProvidersInv, ProvidersOK

LEMMA RevisionCounts ==
    ASSUME NEW row \in Providers
    PROVE  row.revision \in Nat /\ row.revision + 1 \in Nat
BY DEF Providers

LEMMA ReplacedRow ==
    ASSUME NEW row \in Providers, NEW loaded \in Providers
    PROVE  LET new == Replaced(row, loaded)
           IN  /\ new \in Providers /\ new.app = row.app /\ new.default = row.default
               /\ new.fallback = row.fallback /\ new.policy = row.policy
               /\ new.health = Written(row.health, loaded.health, "unknown")
<1> DEFINE revision == row.revision + 1
           health == Written(row.health, loaded.health, "unknown")
           new == [row EXCEPT !.secret = TRUE, !.health = health, !.revision = revision]
<1>1. revision \in Nat /\ health \in {"unknown", "healthy", "invalid", "archived"}
  BY RevisionCounts DEF Written, Providers
<1>2. Replaced(row, loaded) = new
  BY DEF Replaced
<1> HIDE DEF revision, health
<1>3. new \in Providers
  BY <1>1 DEF Providers
<1>4. /\ new.app = row.app /\ new.health = health /\ new.default = row.default
      /\ new.fallback = row.fallback /\ new.policy = row.policy
  BY DEF Providers
<1> HIDE DEF new
<1> QED BY <1>2, <1>3, <1>4 DEF health

LEMMA ArchivedRow ==
    ASSUME NEW row \in Providers, NEW loaded \in Providers
    PROVE  LET new == Archived(row, loaded)
           IN  /\ new \in Providers /\ new.app = row.app /\ new.default = row.default
               /\ new.fallback = row.fallback /\ new.policy = row.policy
               /\ new.health = Written(row.health, loaded.health, "archived")
<1> DEFINE revision == row.revision + 1
           health == Written(row.health, loaded.health, "archived")
           secret == Written(row.secret, loaded.secret, FALSE)
           new == [row EXCEPT !.health = health, !.secret = secret, !.revision = revision]
<1>1. /\ revision \in Nat /\ secret \in BOOLEAN
      /\ health \in {"unknown", "healthy", "invalid", "archived"}
  BY RevisionCounts DEF Written, Providers
<1>2. Archived(row, loaded) = new
  BY DEF Archived
<1> HIDE DEF revision, health, secret
<1>3. new \in Providers
  BY <1>1 DEF Providers
<1>4. /\ new.app = row.app /\ new.health = health /\ new.default = row.default
      /\ new.fallback = row.fallback /\ new.policy = row.policy
  BY DEF Providers
<1> HIDE DEF new
<1> QED BY <1>2, <1>3, <1>4 DEF health

LEMMA WithoutTargetRow ==
    ASSUME NEW old \in Providers, NEW loaded
    PROVE  LET row == WithoutTarget(old, loaded)
           IN  /\ row \in Providers /\ row.app = old.app /\ row.default = old.default
               /\ row.fallback = 0
               /\ loaded = old => row.policy # "explicit_failover"
               /\ row.health = old.health /\ row.secret = old.secret
               /\ row.verified = old.verified /\ row.revision = old.revision
<1> DEFINE policy == IF loaded.policy = "explicit_failover" THEN "none" ELSE old.policy
           new == [old EXCEPT !.fallback = 0, !.policy = policy]
<1>1. WithoutTarget(old, loaded) = new
  BY DEF WithoutTarget
<1>2. policy \in Policies /\ (loaded = old => policy # "explicit_failover")
  BY DEF Policies, Providers
<1> HIDE DEF policy
<1>3. new \in Providers
  BY <1>2 DEF Providers
<1>4. /\ new.app = old.app /\ new.default = old.default /\ new.fallback = 0
      /\ new.policy = policy /\ new.health = old.health /\ new.secret = old.secret
      /\ new.verified = old.verified /\ new.revision = old.revision
  BY DEF Providers
<1> HIDE DEF new
<1> QED BY <1>1, <1>2, <1>3, <1>4

(* What Finishing does to the requests, and to the history. *)
LEMMA Finished ==
    ASSUME ProvidersInv, NEW e \in Editors, NEW rows,
           NEW request \in {"create", "test", "update", "default",
                            "replace", "transition", "unset", "archive"},
           Finishing(e, request, rows)
    PROVE  /\ TesterOK(tester[e]) /\ tester[e].request = request
           /\ DOMAIN tester' = Editors
           /\ \A d \in Editors : tester'[d] = tester[d] \/ tester'[d] = NoTest
           /\ raced \subseteq raced'
           /\ rows \subseteq DOMAIN providers => raced' \subseteq DOMAIN providers
           /\ \A q \in rows \ raced' : providers[q] = tester[e].loaded[q]
           /\ DOMAIN tester[e].loaded \subseteq DOMAIN providers
           /\ \A q \in DOMAIN tester[e].loaded : tester[e].loaded[q] \in Providers
           /\ request # "create"
                 => /\ tester[e].of \in DOMAIN tester[e].loaded
                    /\ tester[e].of \in DOMAIN providers
<1>1. TesterOK(tester[e]) /\ tester[e].request = request
  BY DEF Finishing, ProvidersInv, TestersOK, NoTest
<1>2. tester' = [tester EXCEPT ![e] = NoTest] /\ DOMAIN tester = Editors
  BY DEF Finishing, ProvidersInv, TestersOK
<1>3. raced' = raced \cup {p \in rows : providers[p] # tester[e].loaded[p]}
  BY DEF Finishing
<1>4. /\ providers \in Seq(Providers) /\ tester[e].loaded \in Seq(Providers)
      /\ Len(tester[e].loaded) <= Len(providers) /\ raced \subseteq DOMAIN providers
  BY <1>1 DEF ProvidersInv, ProvidersOK, TesterOK
<1>5. /\ DOMAIN tester[e].loaded \subseteq DOMAIN providers
      /\ \A q \in DOMAIN tester[e].loaded : tester[e].loaded[q] \in Providers
  BY <1>4, SeqElement, SeqDomain
<1>6. request # "create" => tester[e].of \in DOMAIN tester[e].loaded
  BY <1>1 DEF TesterOK
<1> QED BY <1>1, <1>2, <1>3, <1>4, <1>5, <1>6

LEMMA CommitTestKeeps ==
    ASSUME ProvidersInv, NEW e \in Editors, CommitTest(e)
    PROVE  ProvidersInv'
<1> DEFINE p == tester[e].of
           loaded == tester[e].loaded[p]
<1>1. PICK valid \in BOOLEAN :
         /\ Finishing(e, "test", {p}) /\ (valid => loaded.secret)
         /\ providers' = [providers EXCEPT ![p] = Tested(providers[p], loaded, valid)]
  BY DEF CommitTest, CommitRow, Before
<1> DEFINE row == Tested(providers[p], loaded, valid)
<1>2. /\ p \in DOMAIN providers /\ loaded \in Providers /\ (p \notin raced' => providers[p] = loaded)
      /\ DOMAIN tester' = Editors /\ raced \subseteq raced' /\ raced' \subseteq DOMAIN providers
      /\ \A d \in Editors : tester'[d] = tester[d] \/ tester'[d] = NoTest
  BY <1>1, Finished
<1>3. providers' = [providers EXCEPT ![p] = row]
  BY <1>1
<1>4. /\ providers[p] \in Providers /\ Targeted(p) /\ (p \notin raced => Settled(p))
  BY <1>2, SeqElement DEF ProvidersInv, ProvidersOK
<1> DEFINE verdict == IF valid THEN "healthy" ELSE "invalid"
<1>5. /\ row \in Providers /\ row.app = providers[p].app /\ row.fallback = providers[p].fallback
      /\ row.policy = providers[p].policy /\ row.secret = providers[p].secret
      /\ row.revision = providers[p].revision
      /\ row.health = Written(providers[p].health, loaded.health, verdict)
      /\ row.verified = IF valid THEN loaded.revision ELSE providers[p].verified
  <2>1. Written(providers[p].health, loaded.health, verdict)
           \in {"unknown", "healthy", "invalid", "archived"}
    BY <1>4 DEF Written, Providers
  <2> QED BY <2>1, <1>2, <1>4 DEF Tested, Providers
<1> HIDE DEF row
<1>6. ASSUME p \notin raced', row.health = "healthy"
      PROVE  row.secret /\ row.verified = row.revision
  <2>1. row.health = verdict
    BY <1>2, <1>5, <1>6, WrittenFresh
  <2> QED BY <2>1, <1>1, <1>2, <1>5, <1>6
<1> QED BY <1>2, <1>3, <1>4, <1>5, <1>6, RowKeeps DEF Targeted, Settled

LEMMA CommitUpdateKeeps ==
    ASSUME ProvidersInv, NEW e \in Editors, CommitUpdate(e)
    PROVE  ProvidersInv'
<1> DEFINE p == tester[e].of
           loaded == tester[e].loaded[p]
           changes == tester[e].changes
           row == Updated(providers[p], loaded, changes)
<1>1. Finishing(e, "update", {p}) /\ providers' = [providers EXCEPT ![p] = row]
  BY DEF CommitUpdate, CommitRow, Before
<1>2. /\ p \in DOMAIN providers /\ loaded \in Providers /\ (p \notin raced' => providers[p] = loaded)
      /\ p \in DOMAIN tester[e].loaded /\ DOMAIN tester[e].loaded \subseteq DOMAIN providers
      /\ DOMAIN tester' = Editors /\ raced \subseteq raced' /\ raced' \subseteq DOMAIN providers
      /\ \A d \in Editors : tester'[d] = tester[d] \/ tester'[d] = NoTest
      /\ TesterOK(tester[e]) /\ UpdateOK(tester[e])
  BY <1>1, Finished DEF TesterOK
<1>3. /\ providers[p] \in Providers /\ Targeted(p)
  BY <1>2, SeqElement DEF ProvidersInv, ProvidersOK
<1> DEFINE default == Written(providers[p].default, loaded.default,
                              Changed(changes.default, loaded.default))
           policy == Written(providers[p].policy, loaded.policy,
                             Changed(changes.policy, loaded.policy))
           fallback == Written(providers[p].fallback, loaded.fallback,
                               Changed(changes.fallback, loaded.fallback))
           health == Written(providers[p].health, loaded.health, "unknown")
<1>4. /\ default \in BOOLEAN /\ policy \in Policies /\ fallback \in Nat
      /\ health \in {"unknown", "healthy", "invalid", "archived"}
  BY <1>2, <1>3 DEF Written, Changed, Providers, Policies, UpdateOK
<1>5. /\ row \in Providers /\ row.app = providers[p].app /\ row.fallback = fallback
      /\ row.policy = policy /\ row.health = health
  <2> DEFINE old == providers[p]
             revision == old.revision + 1
             new == [old EXCEPT !.default = default, !.policy = policy, !.fallback = fallback,
                                !.health = health, !.revision = revision]
  <2>1. row = new
    BY DEF Updated
  <2>2. revision \in Nat /\ old \in Providers
    BY <1>3, RevisionCounts
  <2> HIDE DEF default, policy, fallback, health, revision, old, row
  <2>3. new \in Providers
    BY <2>2, <1>4 DEF Providers
  <2>4. /\ new.app = old.app /\ new.fallback = fallback /\ new.policy = policy
        /\ new.health = health
    BY <2>2 DEF Providers
  <2> QED BY <2>1, <2>3, <2>4 DEF old
<1> HIDE DEF row
<1>6. loaded.app = providers[p].app
  BY <1>2 DEF TesterOK
<1>7. fallback # p /\ TargetIn(providers, providers[p].app, fallback)
  <2>1. CASE fallback = providers[p].fallback
    BY <2>1, <1>3 DEF Targeted
  <2>2. CASE fallback # providers[p].fallback
    <3>1. fallback = changes.fallback /\ changes.fallback # None
      BY <2>2 DEF Written, Changed
    <3>2. fallback # p /\ TargetIn(tester[e].loaded, loaded.app, fallback)
      BY <3>1, <1>2 DEF UpdateOK
    <3> QED BY <3>2, <1>2, <1>6 DEF TargetIn, TesterOK
  <2> QED BY <2>1, <2>2
<1>8. ASSUME p \notin raced'
      PROVE  (policy = "explicit_failover" => fallback # 0) /\ health = "unknown"
  <2>1. /\ policy = Changed(changes.policy, loaded.policy) /\ health = "unknown"
        /\ fallback = Changed(changes.fallback, loaded.fallback)
    BY <1>2, <1>8, WrittenFresh
  <2> QED BY <2>1, <1>2 DEF UpdateOK, FailoverNamed
<1> HIDE DEF p, policy, fallback, health
<1> QED BY <1>1, <1>2, <1>3, <1>5, <1>7, <1>8, RowKeeps

LEMMA CommitCreateKeeps ==
    ASSUME ProvidersInv, NEW e \in Editors, CommitCreate(e)
    PROVE  ProvidersInv'
<1> DEFINE row == tester[e].changes
           last == Len(providers) + 1
<1>1. Finishing(e, "create", {}) /\ providers' = Append(providers, row)
  BY DEF CommitCreate
<1>2. /\ TesterOK(tester[e]) /\ CreateOK(tester[e])
      /\ DOMAIN tester' = Editors /\ raced \subseteq raced' /\ raced' \subseteq DOMAIN providers
      /\ \A d \in Editors : tester'[d] = tester[d] \/ tester'[d] = NoTest
  BY <1>1, Finished DEF TesterOK
<1>3. row \in Providers /\ row.health = "unknown"
      /\ (row.policy = "explicit_failover" => row.fallback # 0)
      /\ TargetIn(tester[e].loaded, row.app, row.fallback)
  BY <1>2 DEF CreateOK
<1> HIDE DEF row
<1>4. /\ providers \in Seq(Providers) /\ Len(providers) \in Nat
      /\ DOMAIN providers = 1 .. Len(providers)
      /\ \A q \in DOMAIN tester[e].loaded :
            q \in DOMAIN providers /\ tester[e].loaded[q].app = providers[q].app
  BY <1>2, SeqDomain DEF ProvidersInv, ProvidersOK, TesterOK
<1> HIDE DEF last
<1>5. /\ providers' \in Seq(Providers) /\ Len(providers') = last
      /\ DOMAIN providers' = DOMAIN providers \cup {last} /\ last \notin DOMAIN providers
      /\ providers'[last] = row
      /\ \A q \in DOMAIN providers : providers'[q] = providers[q]
  BY <1>1, <1>3, <1>4, SeqAppended DEF last
<1>6. TestersOK'
  BY <1>2, <1>4, <1>5, TestersKeep DEF last
<1>7. ASSUME NEW q \in DOMAIN providers' PROVE Targeted(q)'
  <2>1. CASE q \in DOMAIN providers
    BY <2>1, <1>5 DEF ProvidersInv, ProvidersOK, Targeted, TargetIn
  <2>2. CASE q = last
    <3>1. row.fallback # 0
             => row.fallback \in DOMAIN providers /\ providers[row.fallback].app = row.app
      BY <1>3, <1>4 DEF TargetIn
    <3>2. last # 0
      BY <1>4 DEF last
    <3> QED BY <3>1, <3>2, <2>2, <1>5 DEF Targeted, TargetIn
  <2> QED BY <2>1, <2>2, <1>5
<1>8. ASSUME NEW q \in DOMAIN providers' \ raced' PROVE Settled(q)'
  <2>1. CASE q \in DOMAIN providers
    BY <2>1, <1>2, <1>5 DEF ProvidersInv, ProvidersOK, Settled
  <2>2. CASE q = last
    BY <2>2, <1>3, <1>5 DEF Settled
  <2> QED BY <2>1, <2>2, <1>5
<1> QED BY <1>2, <1>5, <1>6, <1>7, <1>8 DEF ProvidersInv, ProvidersOK

(* A step that changes nothing but which providers are the default, and    *)
(* one that only takes targets away.                                       *)
LEMMA RowsKeep ==
    ASSUME ProvidersInv, providers' = [q \in DOMAIN providers |-> providers'[q]],
           \A q \in DOMAIN providers :
              /\ providers'[q] \in Providers /\ providers'[q].app = providers[q].app
              /\ \/ providers'[q].fallback = providers[q].fallback
                 \/ providers'[q].fallback = 0
              /\ q \notin raced' /\ providers'[q].policy = "explicit_failover"
                    => /\ providers[q].policy = "explicit_failover"
                       /\ providers'[q].fallback = providers[q].fallback
              /\ q \notin raced' /\ providers'[q].health = "healthy"
                    => /\ providers[q].health = "healthy"
                       /\ providers'[q].secret = providers[q].secret
                       /\ providers'[q].verified = providers[q].verified
                       /\ providers'[q].revision = providers[q].revision,
           DOMAIN tester' = Editors, raced \subseteq raced', raced' \subseteq DOMAIN providers,
           \A d \in Editors : tester'[d] = tester[d] \/ tester'[d] = NoTest
    PROVE  ProvidersInv'
<1>1. /\ providers' \in Seq(Providers) /\ Len(providers') = Len(providers)
      /\ DOMAIN providers' = DOMAIN providers /\ Len(providers) \in Nat
  BY SeqRewritten, SeqDomain DEF ProvidersInv, ProvidersOK
<1>2. TestersOK'
  BY <1>1, TestersKeep
<1>3. \A q \in DOMAIN providers : Targeted(q)'
  <2>1. ASSUME NEW q \in DOMAIN providers PROVE q # 0
    BY SeqElement DEF ProvidersInv, ProvidersOK
  <2> QED BY <2>1, <1>1 DEF ProvidersInv, ProvidersOK, Targeted, TargetIn
<1>4. \A q \in DOMAIN providers \ raced' : Settled(q)'
  BY DEF ProvidersInv, ProvidersOK, Settled
<1> QED BY <1>1, <1>2, <1>3, <1>4 DEF ProvidersInv, ProvidersOK

LEMMA CommitDefaultKeeps ==
    ASSUME ProvidersInv, NEW e \in Editors, CommitDefault(e)
    PROVE  ProvidersInv'
<1>1. Finishing(e, "default", {}) /\ providers' = [q \in DOMAIN providers |-> providers'[q]]
  BY DEF CommitDefault
<1>2. ASSUME NEW q \in DOMAIN providers
      PROVE  \E default \in BOOLEAN : providers'[q] = [providers[q] EXCEPT !.default = default]
  <2> DEFINE loaded == tester[e].loaded
             chosen == q = tester[e].of
             default == Written(providers[q].default, loaded[q].default, chosen)
  <2>1. providers[q] \in Providers
    BY SeqElement DEF ProvidersInv, ProvidersOK
  <2>2. default \in BOOLEAN /\ providers[q] = [providers[q] EXCEPT !.default = providers[q].default]
        /\ providers[q].default \in BOOLEAN
    BY <2>1 DEF Written, Providers
  <2>3. providers'[q] = [providers[q] EXCEPT !.default = default] \/ providers'[q] = providers[q]
    BY DEF CommitDefault
  <2> QED BY <2>2, <2>3
<1>3. ASSUME NEW q \in DOMAIN providers
      PROVE  /\ providers'[q] \in Providers /\ providers'[q].app = providers[q].app
             /\ providers'[q].fallback = providers[q].fallback
             /\ providers'[q].policy = providers[q].policy
             /\ providers'[q].health = providers[q].health
             /\ providers'[q].secret = providers[q].secret
             /\ providers'[q].verified = providers[q].verified
             /\ providers'[q].revision = providers[q].revision
  <2>1. providers[q] \in Providers
    BY SeqElement DEF ProvidersInv, ProvidersOK
  <2> QED BY <2>1, <1>2 DEF Providers
<1>4. /\ DOMAIN tester' = Editors /\ raced \subseteq raced' /\ raced' \subseteq DOMAIN providers
      /\ \A d \in Editors : tester'[d] = tester[d] \/ tester'[d] = NoTest
  BY <1>1, Finished
<1> QED BY <1>1, <1>3, <1>4, RowsKeep

LEMMA CommitArchiveKeeps ==
    ASSUME ProvidersInv, NEW e \in Editors, CommitArchive(e)
    PROVE  ProvidersInv'
<1> DEFINE p == tester[e].of
           loaded == tester[e].loaded
           rows == {p} \cup Dependents(e)
<1>1. Finishing(e, "archive", rows) /\ providers' = [q \in DOMAIN providers |-> providers'[q]]
  BY DEF CommitArchive
<1>2. /\ DOMAIN tester' = Editors /\ raced \subseteq raced'
      /\ \A d \in Editors : tester'[d] = tester[d] \/ tester'[d] = NoTest
      /\ rows \subseteq DOMAIN providers => raced' \subseteq DOMAIN providers
      /\ \A q \in rows \ raced' : providers[q] = loaded[q]
      /\ DOMAIN loaded \subseteq DOMAIN providers
      /\ \A q \in DOMAIN loaded : loaded[q] \in Providers
      /\ p \in DOMAIN loaded /\ p \in DOMAIN providers
  <2> HIDE DEF rows
  <2> QED BY <1>1, Finished
<1>3. rows \subseteq DOMAIN providers
  BY <1>2 DEF Dependents
<1>4. ASSUME NEW q \in DOMAIN providers
      PROVE  /\ providers'[q] \in Providers /\ providers'[q].app = providers[q].app
             /\ \/ providers'[q].fallback = providers[q].fallback
                \/ providers'[q].fallback = 0
             /\ q \notin raced' /\ providers'[q].policy = "explicit_failover"
                   => /\ providers[q].policy = "explicit_failover"
                      /\ providers'[q].fallback = providers[q].fallback
             /\ q \notin raced' /\ providers'[q].health = "healthy"
                   => /\ providers[q].health = "healthy"
                      /\ providers'[q].secret = providers[q].secret
                      /\ providers'[q].verified = providers[q].verified
                      /\ providers'[q].revision = providers[q].revision
  <2>1. providers[q] \in Providers
    BY SeqElement DEF ProvidersInv, ProvidersOK
  <2>2. CASE q = p
    <3> DEFINE row == Archived(providers[q], loaded[q])
    <3>1. providers'[q] = row
      BY <2>2 DEF CommitArchive
    <3>2. /\ row \in Providers /\ row.app = providers[q].app
          /\ row.fallback = providers[q].fallback /\ row.policy = providers[q].policy
          /\ row.health = Written(providers[q].health, loaded[q].health, "archived")
      BY <2>1, <2>2, <1>2, ArchivedRow
    <3> HIDE DEF row
    <3>3. q \notin raced' => row.health = "archived"
      BY <3>2, <2>2, <1>2, WrittenFresh
    <3> QED BY <3>1, <3>2, <3>3
  <2>3. CASE q # p /\ q \in Dependents(e)
    <3> DEFINE row == WithoutTarget(providers[q], loaded[q])
    <3>1. providers'[q] = row
      BY <2>3 DEF CommitArchive
    <3>2. /\ row \in Providers /\ row.app = providers[q].app /\ row.fallback = 0
          /\ loaded[q] = providers[q] => row.policy # "explicit_failover"
          /\ row.health = providers[q].health /\ row.secret = providers[q].secret
          /\ row.verified = providers[q].verified /\ row.revision = providers[q].revision
      BY <2>1, WithoutTargetRow
    <3> HIDE DEF row
    <3>3. q \notin raced' => loaded[q] = providers[q]
      BY <2>3, <1>2
    <3> QED BY <3>1, <3>2, <3>3
  <2>4. CASE q # p /\ q \notin Dependents(e)
    <3>1. providers'[q] = providers[q]
      BY <2>4 DEF CommitArchive
    <3> QED BY <3>1, <2>1
  <2> QED BY <2>2, <2>3, <2>4
<1> HIDE DEF rows
<1> QED BY <1>1, <1>2, <1>3, <1>4, RowsKeep

LEMMA CommitReplaceKeeps ==
    ASSUME ProvidersInv, NEW e \in Editors, CommitReplace(e)
    PROVE  ProvidersInv'
<1> DEFINE p == tester[e].of
           loaded == tester[e].loaded[p]
           row == Replaced(providers[p], loaded)
<1>1. Finishing(e, "replace", {p}) /\ providers' = [providers EXCEPT ![p] = row]
  BY DEF CommitReplace, CommitRow, Before
<1>2. /\ p \in DOMAIN providers /\ loaded \in Providers /\ (p \notin raced' => providers[p] = loaded)
      /\ DOMAIN tester' = Editors /\ raced \subseteq raced' /\ raced' \subseteq DOMAIN providers
      /\ \A d \in Editors : tester'[d] = tester[d] \/ tester'[d] = NoTest
  BY <1>1, Finished
<1>3. providers[p] \in Providers /\ Targeted(p) /\ (p \notin raced => Settled(p))
  BY <1>2, SeqElement DEF ProvidersInv, ProvidersOK
<1>4. /\ row \in Providers /\ row.app = providers[p].app
      /\ row.fallback = providers[p].fallback /\ row.policy = providers[p].policy
      /\ row.health = Written(providers[p].health, loaded.health, "unknown")
  <2> HIDE DEF p, loaded
  <2> QED BY <1>2, <1>3, ReplacedRow
<1> HIDE DEF row
<1>5. p \notin raced' => row.health = "unknown"
  BY <1>2, <1>4, WrittenFresh
<1> HIDE DEF p, loaded
<1> QED BY <1>1, <1>2, <1>3, <1>4, <1>5, RowKeeps DEF Targeted, Settled

(* A flag of a row is set. *)
LEMMA CommitFlagKeeps ==
    ASSUME ProvidersInv, NEW e \in Editors, CommitTransition(e) \/ CommitUnset(e)
    PROVE  ProvidersInv'
<1> DEFINE p == tester[e].of
           loaded == tester[e].loaded[p]
<1>1. PICK request \in {"transition", "unset"} : Finishing(e, request, {})
  BY DEF CommitTransition, CommitUnset
<1>2. /\ p \in DOMAIN providers /\ loaded \in Providers /\ TesterOK(tester[e])
      /\ tester[e].request = request
      /\ DOMAIN tester' = Editors /\ raced \subseteq raced' /\ raced' \subseteq DOMAIN providers
      /\ \A d \in Editors : tester'[d] = tester[d] \/ tester'[d] = NoTest
  BY <1>1, Finished
<1>3. providers[p] \in Providers /\ Targeted(p) /\ (p \notin raced => Settled(p))
  BY <1>2, SeqElement DEF ProvidersInv, ProvidersOK
<1>4. PICK row : /\ providers' = [providers EXCEPT ![p] = row] /\ row \in Providers
                 /\ row.app = providers[p].app /\ row.fallback = providers[p].fallback
                 /\ row.policy = providers[p].policy /\ row.health = providers[p].health
                 /\ row.secret = providers[p].secret /\ row.verified = providers[p].verified
                 /\ row.revision = providers[p].revision
  <2>1. CASE CommitTransition(e)
    <3> DEFINE active == Written(providers[p].active, loaded.active, tester[e].changes)
    <3>1. providers' = [providers EXCEPT ![p] = [providers[p] EXCEPT !.active = active]]
      BY <2>1 DEF CommitTransition, CommitRow, Before
    <3>2. active \in BOOLEAN
      <4>1. tester[e].changes \in BOOLEAN
        BY <2>1, <1>2 DEF CommitTransition, Finishing, TesterOK
      <4> QED BY <4>1, <1>3 DEF Written, Providers
    <3> HIDE DEF active, p
    <3> WITNESS [providers[p] EXCEPT !.active = active]
    <3> QED BY <3>1, <3>2, <1>3 DEF Providers
  <2>2. CASE CommitUnset(e)
    <3> DEFINE default == Written(providers[p].default, loaded.default, FALSE)
    <3>1. providers' = [providers EXCEPT ![p] = [providers[p] EXCEPT !.default = default]]
      BY <2>2 DEF CommitUnset, CommitRow, Before
    <3>2. default \in BOOLEAN
      BY <1>3 DEF Written, Providers
    <3> HIDE DEF default, p
    <3> WITNESS [providers[p] EXCEPT !.default = default]
    <3> QED BY <3>1, <3>2, <1>3 DEF Providers
  <2> QED BY <2>1, <2>2
<1> HIDE DEF p, loaded
<1> QED BY <1>2, <1>3, <1>4, RowKeeps DEF Targeted, Settled

-----------------------------------------------------------------------------
(* What the checks of each request guarantee on the rows it has loaded.    *)
LEMMA BeginCreateKeeps ==
    ASSUME ProvidersInv, NEW e \in Editors, NEW app \in BOOLEAN, NEW default \in BOOLEAN,
           NEW policy \in Policies, NEW fallback \in {0} \cup DOMAIN providers,
           BeginCreate(e, app, default, policy, fallback)
    PROVE  ProvidersInv'
<1> DEFINE row == Untested(app, default, policy, fallback)
           new == [request |-> "create", of |-> 0, changes |-> row, loaded |-> providers]
<1>1. /\ providers \in Seq(Providers) /\ Len(providers) \in Nat /\ fallback \in Nat
  BY SeqDomain DEF ProvidersInv, ProvidersOK
<1>2. /\ row \in Providers /\ row.app = app /\ row.default = default /\ row.policy = policy
      /\ row.fallback = fallback /\ row.health = "unknown"
  BY <1>1 DEF Untested, Providers
<1>3. /\ BeginRequest(e, 0, "create", row)
      /\ policy = "explicit_failover" => fallback # 0
      /\ TargetIn(providers, app, fallback)
      /\ default => \A q \in DOMAIN providers : ~(providers[q].default /\ ~providers[q].app)
  BY DEF BeginCreate, DefaultAdmitted, Defaults, SameScope, TargetIn
<1> HIDE DEF row
<1>4. TesterOK(new)
  BY <1>1, <1>2, <1>3 DEF TesterOK, CreateOK, ProviderRequests
<1> QED BY <1>3, <1>4, BeginRequestKeeps

LEMMA BeginUpdateKeeps ==
    ASSUME ProvidersInv, NEW e \in Editors, NEW p \in DOMAIN providers,
           NEW changes \in Updates, BeginUpdate(e, p, changes)
    PROVE  ProvidersInv'
<1> DEFINE new == [request |-> "update", of |-> p, changes |-> changes, loaded |-> providers]
<1>1. /\ providers \in Seq(Providers) /\ Len(providers) \in Nat
      /\ DOMAIN providers = 1 .. Len(providers)
  BY SeqDomain DEF ProvidersInv, ProvidersOK
<1>2. /\ changes.default \in {TRUE, None} /\ changes.policy \in {None, "explicit_failover"}
      /\ changes.fallback = None \/ changes.fallback \in Nat
  <2> DEFINE targets == {None, 0} \cup DOMAIN providers
  <2>1. targets \subseteq {None} \cup Nat
    BY <1>1
  <2> HIDE DEF targets
  <2>2. CASE changes \in [default : {None}, policy : {None, "explicit_failover"},
                         fallback : targets]
    BY <2>1, <2>2
  <2>3. CASE changes = [default |-> TRUE, policy |-> None, fallback |-> None]
    BY <2>3
  <2> QED BY <2>2, <2>3 DEF Updates, targets
<1>3. /\ BeginRequest(e, p, "update", changes)
      /\ FailoverNamed(changes, providers[p])
      /\ changes.fallback \notin {None, 0}
           => changes.fallback # p /\ SameScope(providers[p].app, changes.fallback)
  BY DEF BeginUpdate
<1>4. changes.fallback # None
         => changes.fallback # p /\ TargetIn(providers, providers[p].app, changes.fallback)
  BY <1>1, <1>3 DEF SameScope, TargetIn
<1>5. /\ new.request = "update" /\ new.of = p /\ new.changes = changes
      /\ new.loaded = providers
  OBVIOUS
<1> HIDE DEF new
<1>6. UpdateOK(new)
  BY <1>1, <1>2, <1>3, <1>4, <1>5 DEF UpdateOK
<1>7. TesterOK(new)
  BY <1>1, <1>5, <1>6 DEF TesterOK, ProviderRequests
<1> QED BY <1>3, <1>7, BeginRequestKeeps DEF new

LEMMA BeginOtherKeeps ==
    ASSUME ProvidersInv, NEW e \in Editors, NEW p \in DOMAIN providers,
           \/ BeginTest(e, p) \/ BeginDefault(e, p) \/ BeginReplace(e, p)
           \/ BeginUnset(e, p) \/ BeginArchive(e, p)
           \/ \E active \in BOOLEAN : BeginTransition(e, p, active)
    PROVE  ProvidersInv'
<1>1. providers \in Seq(Providers) /\ Len(providers) \in Nat
  BY DEF ProvidersInv, ProvidersOK
<1>2. PICK request, changes :
         /\ BeginRequest(e, p, request, changes)
         /\ request \in ProviderRequests \ {"create", "update"}
         /\ request = "transition" => changes \in BOOLEAN
  BY DEF BeginTest, BeginDefault, BeginReplace, BeginUnset, BeginArchive, BeginTransition,
         ProviderRequests
<1> DEFINE new == [request |-> request, of |-> p, changes |-> changes, loaded |-> providers]
<1>3. TesterOK(new)
  BY <1>1, <1>2 DEF TesterOK
<1> QED BY <1>2, <1>3, BeginRequestKeeps

LEMMA ProvidersFrame ==
    ASSUME ProvidersInv, UNCHANGED providerVars
    PROVE  ProvidersInv'
<1>1. /\ UNCHANGED <<providers, tester, raced>> /\ DOMAIN tester' = Editors
      /\ providers' \in Seq(Providers) /\ Len(providers) <= Len(providers')
  BY DEF providerVars, ProvidersInv, ProvidersOK, TestersOK
<1>2. TestersOK'
  BY <1>1, TestersKeep
<1>3. ProvidersOK'
  BY <1>1 DEF ProvidersInv, ProvidersOK, Targeted, TargetIn, Settled
<1> QED BY <1>2, <1>3 DEF ProvidersInv

LEMMA ProvidersKeep ==
    ASSUME budget \in Bounds, ProvidersInv, ProvidersNext
    PROVE  ProvidersInv'
<1>1. budget.editors \subseteq Editors
  BY DEF Bounds
<1>2. ASSUME NEW e \in budget.editors, NEW app \in BOOLEAN, NEW default \in BOOLEAN,
             NEW policy \in Policies, NEW fallback \in {0} \cup DOMAIN providers,
             BeginCreate(e, app, default, policy, fallback)
      PROVE  ProvidersInv'
  BY <1>1, <1>2, BeginCreateKeeps
<1>3. ASSUME NEW e \in budget.editors, NEW p \in DOMAIN providers,
             \/ BeginTest(e, p) \/ BeginDefault(e, p) \/ BeginReplace(e, p)
             \/ BeginUnset(e, p) \/ BeginArchive(e, p)
             \/ \E active \in BOOLEAN : BeginTransition(e, p, active)
             \/ \E changes \in Updates : BeginUpdate(e, p, changes)
      PROVE  ProvidersInv'
  BY <1>1, <1>3, BeginOtherKeeps, BeginUpdateKeeps
<1>4. ASSUME NEW e \in Editors,
             \/ CommitCreate(e) \/ CommitTest(e) \/ CommitUpdate(e) \/ CommitDefault(e)
             \/ CommitReplace(e) \/ CommitTransition(e) \/ CommitUnset(e) \/ CommitArchive(e)
      PROVE  ProvidersInv'
  BY <1>4, CommitCreateKeeps, CommitTestKeeps, CommitUpdateKeeps, CommitDefaultKeeps,
     CommitReplaceKeeps, CommitFlagKeeps, CommitArchiveKeeps
<1> QED BY <1>2, <1>3, <1>4 DEF ProvidersNext

(* Targets are other providers of the scope, and those that no request     *)
(* wrote on stale reads fail over to one and are healthy as configured:    *)
(* the inductive invariant of the providers, with what running tests read. *)
THEOREM ProvidersInvariant == Spec => []ProvidersInv
<1>1. AdmissionInv /\ ProvidersInv /\ [Next]_vars => ProvidersInv'
  <2> SUFFICES ASSUME AdmissionInv, ProvidersInv, [Next]_vars PROVE ProvidersInv'
    OBVIOUS
  <2>1. ProvidersNext \/ UNCHANGED providerVars
    BY DEF Next, vars
  <2> QED BY <2>1, ProvidersKeep, ProvidersFrame DEF AdmissionInv
<1> QED BY <1>1, ProvidersStart, AdmissionInvariant, PTL DEF Spec

(* Whatever provider an application would send with has a secret and       *)
(* passed its test as it is configured now, unless test_provider,          *)
(* update_provider or replace_provider_secret wrote it when another        *)
(* request had changed it since they had loaded it.                        *)
THEOREM ResolvedWasVerified == Spec => []ResolvedIsVerified
<1>1. ProvidersInv => ResolvedIsVerified
  <2> SUFFICES ASSUME ProvidersInv, NEW p \in Resolved \ raced
               PROVE  providers[p].secret /\ providers[p].verified = providers[p].revision
    BY DEF ResolvedIsVerified
  <2>1. p \in DOMAIN providers /\ providers[p].health = "healthy"
    <3>1. CASE AppProviders = {}
      BY <3>1 DEF Resolved, Defaults, Available
    <3>2. CASE AppProviders # {}
      <4> DEFINE primary == CHOOSE r \in AppProviders : \A q \in AppProviders : q <= r
      <4>1. AppProviders \subseteq 1 .. Len(providers) /\ Len(providers) \in Nat
        BY SeqDomain DEF AppProviders, ProvidersInv, ProvidersOK
      <4>2. \E r \in AppProviders : \A q \in AppProviders : q <= r
        BY <4>1, <3>2, NewestExists
      <4>3. primary \in AppProviders
        BY <4>2
      <4>4. (p = primary /\ Available(primary)) \/ (p \in AppProviders /\ Available(p))
        BY <3>2 DEF Resolved
      <4> HIDE DEF primary
      <4> QED BY <4>3, <4>4 DEF AppProviders, Available
    <3> QED BY <3>1, <3>2
  <2> QED BY <2>1 DEF ProvidersInv, ProvidersOK, Settled
<1> QED BY <1>1, ProvidersInvariant, PTL

(* A provider told to fail over names another one of its scope, whatever   *)
(* is archived (delete_provider), unless an update of it and an archive of *)
(* the other have overlapped, whichever of them commits last.              *)
THEOREM FailoverNamesTarget == Spec => []FailoverHasTarget
<1>1. ProvidersInv => FailoverHasTarget
  BY DEF ProvidersInv, ProvidersOK, Settled, Targeted, TargetIn, FailoverHasTarget
<1> QED BY <1>1, ProvidersInvariant, PTL

(* A second default, between which an application's choice is left open,   *)
(* comes only of an update, which never asks, or of a request that read    *)
(* the rows before another one wrote (create_provider_record,              *)
(* set_default_provider).                                                  *)
THEOREM SecondDefaultUnchecked == Spec => SecondDefaultOnlyUnchecked
<1> DEFINE Unchecked ==
      \E e \in Editors :
         /\ tester[e] # NoTest /\ tester'[e] = NoTest
         /\ tester[e].request = "update" \/ tester[e].loaded # providers
<1>1. AdmissionInv /\ ProvidersInv /\ [Next]_vars
         => [Cardinality(Defaults) <= 1 /\ Cardinality(Defaults') > 1 => Unchecked]_providers
  <2> SUFFICES ASSUME AdmissionInv, ProvidersInv, [Next]_vars, providers' # providers,
                      Cardinality(Defaults) <= 1, Cardinality(Defaults') > 1
               PROVE  Unchecked
    OBVIOUS
  <2>1. ProvidersNext
    BY DEF Next, vars, providerVars
  <2>2. \A q \in DOMAIN providers : providers[q] \in Providers
    BY SeqElement DEF ProvidersInv, ProvidersOK
  <2>3. IsFiniteSet(Defaults)
    <3>1. Defaults \subseteq 1 .. Len(providers) /\ Len(providers) \in Nat
      BY SeqDomain DEF Defaults, ProvidersInv, ProvidersOK
    <3>2. IsFiniteSet(1 .. Len(providers))
      BY <3>1, FS_Interval
    <3> QED BY <3>1, <3>2, FS_Subset
  <2>4. ASSUME Defaults' \subseteq Defaults PROVE FALSE
    <3>1. Cardinality(Defaults') <= Cardinality(Defaults)
      BY <2>3, <2>4, FS_Subset
    <3>2. Cardinality(Defaults) \in Nat /\ Cardinality(Defaults') \in Nat
      BY <2>3, <2>4, FS_Subset, FS_CardinalityType
    <3> QED BY <3>1, <3>2
  <2>5. ASSUME NEW x, Defaults' \subseteq {x} PROVE FALSE
    <3>1. IsFiniteSet({x}) /\ Cardinality({x}) = 1
      BY FS_Singleton
    <3>2. Cardinality(Defaults') <= 1 /\ Cardinality(Defaults') \in Nat
      BY <2>5, <3>1, FS_Subset, FS_CardinalityType
    <3> QED BY <3>2
  <2>6. ASSUME NEW e, NEW p, NEW request, NEW changes, BeginRequest(e, p, request, changes)
        PROVE  FALSE
    BY <2>6 DEF BeginRequest
  <2>7. ASSUME NEW e \in Editors,
               CommitReplace(e) \/ CommitTransition(e) \/ CommitUnset(e)
        PROVE  FALSE
    <3> DEFINE p == tester[e].of
               loaded == tester[e].loaded[p]
    <3>1. PICK request, rows :
             request \in {"replace", "transition", "unset"} /\ Finishing(e, request, rows)
      BY <2>7 DEF CommitReplace, CommitTransition, CommitUnset
    <3>2. p \in DOMAIN providers /\ loaded \in Providers /\ providers[p] \in Providers
      BY <3>1, <2>2, Finished
    <3>3. PICK row : /\ providers' = [providers EXCEPT ![p] = row] /\ row.app = providers[p].app
                     /\ row.default => providers[p].default
      <4>1. CASE CommitReplace(e)
        <5> DEFINE new == Replaced(providers[p], loaded)
        <5>1. providers' = [providers EXCEPT ![p] = new]
          BY <4>1 DEF CommitReplace, CommitRow, Before
        <5>2. new.app = providers[p].app /\ new.default = providers[p].default
          <6> HIDE DEF p, loaded
          <6> QED BY <3>2, ReplacedRow
        <5> HIDE DEF new, p
        <5> WITNESS new
        <5> QED BY <5>1, <5>2
      <4>2. CASE CommitTransition(e)
        <5> DEFINE active == Written(providers[p].active, loaded.active, tester[e].changes)
        <5>1. providers' = [providers EXCEPT ![p] = [providers[p] EXCEPT !.active = active]]
          BY <4>2 DEF CommitTransition, CommitRow, Before
        <5> HIDE DEF active, p
        <5> WITNESS [providers[p] EXCEPT !.active = active]
        <5> QED BY <5>1, <3>2 DEF Providers
      <4>3. CASE CommitUnset(e)
        <5> DEFINE default == Written(providers[p].default, loaded.default, FALSE)
        <5>1. providers' = [providers EXCEPT ![p] = [providers[p] EXCEPT !.default = default]]
          BY <4>3 DEF CommitUnset, CommitRow, Before
        <5>2. default => providers[p].default
          BY DEF Written
        <5> HIDE DEF default, p
        <5> WITNESS [providers[p] EXCEPT !.default = default]
        <5> QED BY <5>1, <5>2, <3>2 DEF Providers
      <4> QED BY <2>7, <4>1, <4>2, <4>3
    <3> HIDE DEF p, loaded
    <3>4. Defaults' \subseteq Defaults
      BY <3>2, <3>3 DEF Defaults
    <3> QED BY <3>4, <2>4
  <2>8. ASSUME NEW e \in Editors, CommitArchive(e) PROVE FALSE
    <3> DEFINE p == tester[e].of
               loaded == tester[e].loaded
    <3>1. ASSUME NEW q \in DOMAIN providers
          PROVE  providers'[q].app = providers[q].app
                 /\ providers'[q].default = providers[q].default
      <4>1. CASE q = p
        <5>1. PICK rows : Finishing(e, "archive", rows)
          BY <2>8 DEF CommitArchive
        <5>2. loaded[q] \in Providers
          BY <5>1, <4>1, Finished
        <5>3. providers'[q] = Archived(providers[q], loaded[q])
          BY <2>8, <4>1 DEF CommitArchive
        <5> QED BY <5>2, <5>3, <2>2, ArchivedRow
      <4>2. CASE q # p /\ q \in Dependents(e)
        <5>1. providers'[q] = WithoutTarget(providers[q], loaded[q])
          BY <2>8, <4>2 DEF CommitArchive
        <5> QED BY <5>1, <2>2, WithoutTargetRow
      <4>3. CASE q # p /\ q \notin Dependents(e)
        BY <2>8, <4>3 DEF CommitArchive
      <4> QED BY <4>1, <4>2, <4>3
    <3>2. DOMAIN providers' = DOMAIN providers
      BY <2>8 DEF CommitArchive
    <3> QED BY <3>1, <3>2, <2>4 DEF Defaults
  <2>9. ASSUME NEW e \in Editors, CommitTest(e) PROVE FALSE
    <3> DEFINE p == tester[e].of
               loaded == tester[e].loaded[p]
    <3>1. PICK valid \in BOOLEAN :
             providers' = [providers EXCEPT ![p] = Tested(providers[p], loaded, valid)]
      BY <2>9 DEF CommitTest, CommitRow, Before
    <3>2. p \in DOMAIN providers
      BY <2>9, Finished DEF CommitTest
    <3>3. /\ Tested(providers[p], loaded, valid).app = providers[p].app
          /\ Tested(providers[p], loaded, valid).default = providers[p].default
      <4>1. providers[p] \in Providers
        BY <3>2, <2>2
      <4> HIDE DEF p, loaded
      <4> QED BY <4>1 DEF Tested, Providers
    <3>4. Defaults' \subseteq Defaults
      BY <3>1, <3>2, <3>3 DEF Defaults
    <3> QED BY <3>4, <2>4
  <2>10. ASSUME NEW e \in Editors, NEW request \in {"create", "update", "default"}, NEW rows,
                Finishing(e, request, rows),
                request = "update" \/ tester[e].loaded # providers
         PROVE  Unchecked
    BY <2>10 DEF Finishing, NoTest, ProvidersInv, TestersOK
  <2>11. ASSUME NEW e \in Editors, CommitCreate(e), tester[e].loaded = providers PROVE FALSE
    <3> DEFINE row == tester[e].changes
               last == Len(providers) + 1
    <3>1. /\ Finishing(e, "create", {}) /\ providers' = Append(providers, row)
      BY <2>11 DEF CommitCreate
    <3>2. CreateOK(tester[e])
      BY <3>1, Finished DEF TesterOK
    <3>3. row \in Providers /\ (row.default => Defaults = {})
      BY <3>2, <2>11 DEF CreateOK, Defaults
    <3> HIDE DEF row
    <3>4. /\ DOMAIN providers' = DOMAIN providers \cup {last} /\ providers'[last] = row
          /\ \A q \in DOMAIN providers : providers'[q] = providers[q]
      BY <3>1, <3>3, SeqAppended DEF ProvidersInv, ProvidersOK
    <3>5. Defaults' \subseteq Defaults \/ Defaults' \subseteq {last}
      BY <3>3, <3>4 DEF Defaults
    <3> QED BY <3>5, <2>4, <2>5
  <2>12. ASSUME NEW e \in Editors, CommitDefault(e), tester[e].loaded = providers PROVE FALSE
    <3>1. ASSUME NEW q \in DOMAIN providers, q # tester[e].of,
                 providers'[q].default, ~providers'[q].app
          PROVE  FALSE
      <4> DEFINE seen == providers[q].default /\ ~providers[q].app
      <4>1. providers'[q] = IF seen
               THEN [providers[q] EXCEPT !.default = Written(providers[q].default,
                                                             providers[q].default, FALSE)]
               ELSE providers[q]
        BY <2>12, <3>1 DEF CommitDefault
      <4>2. CASE seen
        <5>1. providers'[q] = [providers[q] EXCEPT !.default = FALSE]
          BY <4>1, <4>2, WrittenFresh
        <5> QED BY <5>1, <3>1, <2>2 DEF Providers
      <4>3. CASE ~seen
        BY <4>1, <4>3, <3>1
      <4> QED BY <4>2, <4>3
    <3>2. DOMAIN providers' = DOMAIN providers
      BY <2>12 DEF CommitDefault
    <3>3. Defaults' \subseteq {tester[e].of}
      BY <3>1, <3>2 DEF Defaults
    <3> QED BY <3>3, <2>5
  <2>13. \E e \in Editors : CommitCreate(e) \/ CommitUpdate(e) \/ CommitDefault(e)
    BY <2>1, <2>6, <2>7, <2>8, <2>9
    DEF ProvidersNext, BeginCreate, BeginTest, BeginDefault, BeginUpdate, BeginReplace,
        BeginTransition, BeginUnset, BeginArchive
  <2> QED
    BY <2>10, <2>11, <2>12, <2>13 DEF CommitCreate, CommitUpdate, CommitDefault
<1> QED BY <1>1, AdmissionInvariant, ProvidersInvariant, PTL
        DEF Spec, SecondDefaultOnlyUnchecked

-----------------------------------------------------------------------------
(* The type of every variable of the management API and of admission.      *)
THEOREM ControlPlaneTypes == Spec => []ControlPlaneTypeOK
<1>1. CatalogInv => SchemasTypeOK /\ TemplateTypeOK
  BY DEF CatalogInv, CatalogOK, SchemaRows, SchemasTypeOK, TemplateTypeOK, RequestOK
<1>2. ProvidersInv => ProvidersTypeOK
  <2> SUFFICES ASSUME ProvidersInv PROVE ProvidersTypeOK
    OBVIOUS
  <2>1. ASSUME NEW p \in DOMAIN providers PROVE providers[p].fallback \in 0 .. Len(providers)
    <3>1. Targeted(p) /\ Len(providers) \in Nat /\ DOMAIN providers = 1 .. Len(providers)
      BY SeqDomain DEF ProvidersInv, ProvidersOK
    <3> QED BY <3>1 DEF Targeted, TargetIn
  <2> QED BY <2>1 DEF ProvidersInv, ProvidersOK, TestersOK, TesterOK, ProvidersTypeOK
<1>3. CredentialsInv => CredentialsTypeOK
  BY DEF CredentialsInv, CredentialsTypeOK
<1>4. Spec => [](application \in BOOLEAN)
  <2>1. Init => application \in BOOLEAN
    BY DEF Init, AdmissionInit
  <2>2. application \in BOOLEAN /\ [Next]_vars => (application \in BOOLEAN)'
    BY DEF Next, vars, admissionVars, AdmissionNext, Submit, ReadQuota, Unblock, Commit,
           TransitionApplication, NextMinute
  <2> QED BY <2>1, <2>2, PTL DEF Spec
<1>5. AdmissionInv /\ application \in BOOLEAN => AdmissionTypeOK
  <2> SUFFICES ASSUME AdmissionInv, application \in BOOLEAN PROVE AdmissionTypeOK
    OBVIOUS
  <2>1. \A b \in Buckets : bucket[b] \in Nat \cup {None} /\ admitted[b] \in Nat
    BY DEF AdmissionInv, BucketsOK
  <2>2. \A s \in Sessions : session[s] = NoSession \/ session[s].stage \in Stages
    BY DEF AdmissionInv, SessionsOK, Entering
  <2>3. \A a \in answers : a.of \in {None} \cup DOMAIN notifications
    BY DEF AdmissionInv, AnswersOK
  <2>4. notifications \in Seq([key : Keys, body : Bodies]) /\ minute \in 1 .. 2
    BY DEF AdmissionInv, AnswersOK, BucketsOK
  <2> DEFINE rows == Seq([key : Keys, body : Bodies])
  <2>5. notifications \in rows
    BY <2>4
  <2> HIDE DEF rows
  <2> QED BY <2>1, <2>2, <2>3, <2>4, <2>5 DEF AdmissionTypeOK
<1>6. Spec => []AdmissionTypeOK
  BY <1>4, <1>5, AdmissionInvariant, PTL
<1> QED
  BY <1>1, <1>2, <1>3, <1>6, CatalogInvariant, ProvidersInvariant, CredentialsInvariant, PTL
  DEF ControlPlaneTypeOK
=============================================================================
