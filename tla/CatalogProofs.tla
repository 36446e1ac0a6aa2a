----------------------------- MODULE CatalogProofs -----------------------------
(***************************************************************************)
(* Event schemas and template versions for any schemas, contents, editors  *)
(* and scenarios: what a chain of compatible schemas promises, and what    *)
(* requests that do not overlap keep of the published version.             *)
(***************************************************************************)
EXTENDS AdmissionProofs

SchemaRows == [schema : Candidates, mode : Modes]

(* A sequence that is rewritten at every index stays one of its length.    *)
LEMMA SeqRewritten ==
    ASSUME NEW S, NEW s \in Seq(S), NEW T, NEW t,
           t = [k \in DOMAIN s |-> t[k]], \A k \in DOMAIN s : t[k] \in T
    PROVE  t \in Seq(T) /\ Len(t) = Len(s) /\ DOMAIN t = DOMAIN s
<1>1. Len(s) \in Nat /\ DOMAIN s = 1 .. Len(s)
  OBVIOUS
<1>2. t \in [1 .. Len(s) -> T]
  BY <1>1
<1> QED BY <1>1, <1>2

LEMMA SeqAppended ==
    ASSUME NEW S, NEW s \in Seq(S), NEW x \in S
    PROVE  /\ Append(s, x) \in Seq(S)
           /\ Len(Append(s, x)) = Len(s) + 1
           /\ DOMAIN Append(s, x) = DOMAIN s \cup {Len(s) + 1}
           /\ Len(s) + 1 \notin DOMAIN s
           /\ Append(s, x)[Len(s) + 1] = x
           /\ \A k \in DOMAIN s : Append(s, x)[k] = s[k]
OBVIOUS

LEMMA SeqElement ==
    ASSUME NEW S, NEW s \in Seq(S), NEW k \in DOMAIN s
    PROVE  s[k] \in S /\ k \in Nat /\ 1 <= k /\ k <= Len(s)
OBVIOUS

LEMMA SeqDomain ==
    ASSUME NEW S, NEW s \in Seq(S)
    PROVE  /\ Len(s) \in Nat /\ DOMAIN s = 1 .. Len(s)
           /\ s # <<>> <=> Len(s) # 0
OBVIOUS

-----------------------------------------------------------------------------
(* What a request in progress was admitted for, on the rows it has loaded. *)
(* The rows are never fewer than it saw, and schema versions never change, *)
(* so that all of this stays true until it commits.                        *)
RequestOK(r) ==
    /\ r.request \in Requests
    /\ r.versions \in Seq(Versions) /\ Len(r.versions) <= Len(versions)
    /\ r.published \in 0 .. Len(r.versions)
    /\ r.schema \in DOMAIN schemas
    /\ r.request # "schema" => r.version \in DOMAIN r.versions
    /\ r.request = "edit"
           => /\ r.argument \in Contents
              /\ r.versions[r.version].state \in {"draft", "validated"}
    /\ r.request = "validate" => r.versions[r.version].state \in {"draft", "validated"}
    /\ r.request = "publish" => r.versions[r.version].state = "validated"
    /\ r.request = "rollback" => r.versions[r.version].state \in {"published", "deprecated"}
    /\ r.request = "schema"
           => /\ r.argument \in SchemaRows
              /\ Compatible(schemas[r.schema].schema, r.argument.schema, r.argument.mode)

CatalogOK ==
    /\ schemas \in Seq(SchemaRows)
    /\ eventActive \in BOOLEAN
    /\ versions \in Seq(Versions)
    /\ published \in 0 .. Len(versions)
    /\ status \in {"active", "disabled", "archived"}
    /\ overlapped \in BOOLEAN
    /\ versions # <<>> => schemas # <<>>
    /\ DOMAIN editor = Editors
    /\ \A e \in Editors : editor[e] = Idle \/ RequestOK(editor[e])

(* The updates from version i to version j were checked as backward        *)
(* compatible, and no property is without a type on the way.               *)
Chained(i, j) ==
    /\ \A k \in i + 1 .. j : schemas[k].mode \in {"backward", "full"}
    /\ \A k \in i .. j : \A name \in Declared(schemas[k].schema) :
          schemas[k].schema.type[name] # "any"

(* What version i declares and accepts, version j does as well.            *)
Extended(i, j) ==
    /\ Declared(schemas[i].schema) \subseteq Declared(schemas[j].schema)
    /\ \A data \in Data :
          /\ DOMAIN data \subseteq Declared(schemas[i].schema)
          /\ Accepts(schemas[i].schema, data)
          => Accepts(schemas[j].schema, data)

ChainsOK == \A i, j \in DOMAIN schemas : i < j /\ Chained(i, j) => Extended(i, j)

Backward == \A k \in DOMAIN schemas : schemas[k].mode \in {"backward", "full"}

(* What requests that never overlap keep: the one in progress has loaded   *)
(* the rows as they are, a version that is no draft passed validation as   *)
(* it stands - against the current schema, if updates only ever extend     *)
(* it - and the published one is the one the template names.               *)
VersionOK(v) ==
    /\ versions[v].state # "draft" => <<v, versions[v].content>> \in validated
    /\ versions[v].state = "published" <=> v = published
    /\ versions[v].state # "draft" /\ Backward
          => versions[v].content \subseteq Declared(schemas[Current].schema)

SequentialOK ==
    /\ \A d, e \in Editors : editor[d] # Idle /\ editor[e] # Idle => d = e
    /\ \A e \in Editors : editor[e] # Idle
          => /\ editor[e].schema = Current
             /\ editor[e].request # "schema"
                    => editor[e].versions = versions /\ editor[e].published = published
    /\ \A v \in DOMAIN versions : VersionOK(v)

CatalogInv == CatalogOK /\ ChainsOK /\ (overlapped \/ SequentialOK)

LEMMA CatalogStarts == Init => CatalogInv
<1> SUFFICES ASSUME Init PROVE CatalogInv
  OBVIOUS
<1>1. budget \in Bounds
  BY ScenariosAssumption DEF Init, PlatformInit
<1>2. PICK schema \in budget.schemas, content \in Contents :
         IF budget.running
         THEN /\ content \subseteq Declared(schema)
              /\ schemas = <<[schema |-> schema, mode |-> "backward"]>>
              /\ versions = <<[Draft(content) EXCEPT !.state = "published"]>>
              /\ published = 1
              /\ validated = {<<1, content>>}
         ELSE schemas = <<>> /\ versions = <<>> /\ published = 0 /\ validated = {}
  BY DEF Init, CatalogInit
<1>3. /\ eventActive = TRUE /\ status = "active" /\ overlapped = FALSE
      /\ editor = [e \in Editors |-> Idle]
  BY DEF Init, CatalogInit
<1> DEFINE row == [state |-> "published", content |-> content, errors |-> FALSE]
           first == [schema |-> schema, mode |-> "backward"]
<1>4. row \in Versions /\ first \in SchemaRows
  BY <1>1, <1>2 DEF Versions, States, SchemaRows, Modes, Bounds
<1>5. CASE budget.running
  <2>1. versions = <<row>> /\ schemas = <<first>> /\ published = 1 /\ validated = {<<1, content>>}
        /\ content \subseteq Declared(schema)
    BY <1>2, <1>5 DEF Draft
  <2>2. row.state = "published" /\ row.content = content /\ first.schema = schema
    OBVIOUS
  <2> HIDE DEF row, first
  <2>3. /\ versions \in Seq(Versions) /\ Len(versions) = 1 /\ versions[1] = row
        /\ DOMAIN versions = {1}
        /\ schemas \in Seq(SchemaRows) /\ Len(schemas) = 1 /\ schemas[1] = first
        /\ DOMAIN schemas = {1}
    BY <2>1, <1>4
  <2>4. CatalogOK
    <3>1. schemas # <<>> /\ published \in 0 .. Len(versions)
      BY <2>1, <2>3
    <3>2. DOMAIN editor = Editors /\ \A e \in Editors : editor[e] = Idle
      BY <1>3
    <3> QED BY <3>1, <3>2, <2>3, <1>3 DEF CatalogOK
  <2>5. ChainsOK
    BY <2>3 DEF ChainsOK
  <2>6. SequentialOK
    BY <2>1, <2>2, <2>3, <1>3 DEF SequentialOK, VersionOK, Current
  <2> QED BY <2>4, <2>5, <2>6 DEF CatalogInv
<1>6. CASE ~budget.running
  <2>1. versions = <<>> /\ schemas = <<>> /\ published = 0
    BY <1>2, <1>6
  <2>2. versions \in Seq(Versions) /\ Len(versions) = 0 /\ DOMAIN versions = {}
        /\ schemas \in Seq(SchemaRows) /\ DOMAIN schemas = {}
    BY <2>1
  <2>3. CatalogOK
    <3>1. published \in 0 .. Len(versions)
      BY <2>1, <2>2
    <3>2. DOMAIN editor = Editors /\ \A e \in Editors : editor[e] = Idle
      BY <1>3
    <3> QED BY <3>1, <3>2, <2>1, <2>2, <1>3 DEF CatalogOK
  <2>4. ChainsOK /\ SequentialOK
    BY <2>2, <1>3 DEF ChainsOK, SequentialOK
  <2> QED BY <2>3, <2>4 DEF CatalogInv
<1> QED BY <1>5, <1>6

(* One update that is checked as backward compatible. *)
LEMMA UpdateExtends ==
    ASSUME NEW previous, NEW candidate, NEW mode \in {"backward", "full"},
           Compatible(previous, candidate, mode),
           \A name \in Declared(previous) : previous.type[name] # "any",
           \A name \in Declared(candidate) : candidate.type[name] # "any"
    PROVE  /\ Declared(previous) \subseteq Declared(candidate)
           /\ \A data \in Data :
                 /\ DOMAIN data \subseteq Declared(previous)
                 /\ Accepts(previous, data)
                 => Accepts(candidate, data)
<1>1. /\ candidate.required \subseteq previous.required
      /\ Declared(previous) \subseteq Declared(candidate)
      /\ ChangedType(previous, candidate) = {}
  BY DEF Compatible
<1>2. \A name \in Declared(previous) : previous.type[name] = candidate.type[name]
  BY <1>1 DEF ChangedType
<1>3. ASSUME NEW data \in Data, DOMAIN data \subseteq Declared(previous), Accepts(previous, data)
      PROVE  Accepts(candidate, data)
  <2>1. ASSUME NEW name \in DOMAIN data PROVE candidate.type[name] = data[name]
    BY <2>1, <1>2, <1>3 DEF Accepts
  <2> QED BY <2>1, <1>1, <1>3 DEF Accepts
<1> QED BY <1>1, <1>3

(* A compatible version at the end of the chain.                           *)
LEMMA ChainsAppended ==
    ASSUME CatalogOK, ChainsOK, NEW row \in SchemaRows, schemas' = Append(schemas, row),
           schemas # <<>> => Compatible(schemas[Current].schema, row.schema, row.mode)
    PROVE  ChainsOK'
<1> DEFINE last == Len(schemas) + 1
<1>1. /\ schemas \in Seq(SchemaRows) /\ Len(schemas) \in Nat
      /\ DOMAIN schemas = 1 .. Len(schemas)
      /\ DOMAIN schemas' = 1 .. last /\ schemas'[last] = row
      /\ \A k \in DOMAIN schemas : schemas'[k] = schemas[k]
  BY SeqAppended, SeqDomain DEF CatalogOK
<1>2. ASSUME NEW i \in DOMAIN schemas', NEW j \in DOMAIN schemas', i < j, Chained(i, j)'
      PROVE  Extended(i, j)'
  <2>1. CASE j # last
    <3>1. i \in DOMAIN schemas /\ j \in DOMAIN schemas
      BY <1>1, <1>2, <2>1
    <3>2. Chained(i, j)
      BY <1>1, <1>2, <3>1 DEF Chained
    <3>3. Extended(i, j)
      BY <3>1, <3>2, <1>2 DEF ChainsOK
    <3> QED BY <3>1, <3>3, <1>1 DEF Extended
  <2>2. CASE j = last
    <3> DEFINE previous == Len(schemas)
    <3>1. i \in DOMAIN schemas /\ previous \in DOMAIN schemas /\ i <= previous
          /\ schemas # <<>> /\ previous = Current
      BY <1>1, <1>2, <2>2 DEF Current
    <3>2. /\ row.mode \in {"backward", "full"}
          /\ \A name \in Declared(schemas[previous].schema) :
                schemas[previous].schema.type[name] # "any"
          /\ \A name \in Declared(row.schema) : row.schema.type[name] # "any"
      BY <1>1, <1>2, <2>2, <3>1 DEF Chained
    <3>3. /\ Declared(schemas[previous].schema) \subseteq Declared(row.schema)
          /\ \A data \in Data :
                /\ DOMAIN data \subseteq Declared(schemas[previous].schema)
                /\ Accepts(schemas[previous].schema, data)
                => Accepts(row.schema, data)
      BY <3>1, <3>2, UpdateExtends
    <3>4. CASE i = previous
      BY <3>1, <3>3, <3>4, <1>1, <2>2 DEF Extended
    <3>5. CASE i < previous
      <4>1. Chained(i, previous)
        BY <1>1, <1>2, <3>1, <2>2 DEF Chained
      <4>2. Extended(i, previous)
        BY <4>1, <3>1, <3>5 DEF ChainsOK
      <4> QED BY <4>2, <3>1, <3>3, <1>1, <2>2 DEF Extended
    <3> QED BY <3>1, <3>4, <3>5, <1>1
  <2> QED BY <2>1, <2>2
<1> QED BY <1>2 DEF ChainsOK

-----------------------------------------------------------------------------
(* Beginning and ending of requests.                                       *)
LEMMA WrittenType ==
    ASSUME NEW S, NEW column \in S, NEW loaded, NEW value \in S
    PROVE  Written(column, loaded, value) \in S
BY DEF Written

(* A request that saw the row as it is writes what it means to. *)
LEMMA WrittenFresh ==
    ASSUME NEW column, NEW value
    PROVE  Written(column, column, value) = value
BY DEF Written

LEMMA BeginKeeps ==
    ASSUME CatalogInv, NEW e \in Editors, NEW request, NEW version, NEW argument,
           Begin(e, request, version, argument),
           RequestOK(Pending(request, version, argument))
    PROVE  CatalogInv'
<1> DEFINE new == Pending(request, version, argument)
<1>1. UNCHANGED <<schemas, eventActive, versions, published, status, validated>>
  BY DEF Begin
<1>2. editor' = [editor EXCEPT ![e] = new] /\ editor[e] = Idle
  BY DEF Begin
<1>3. /\ new.request = request /\ new.version = version /\ new.argument = argument
      /\ new.versions = versions /\ new.published = published /\ new.schema = Current
  BY DEF Pending
<1>4. overlapped' = (overlapped \/ \E d \in Editors : editor[d] # Idle)
  BY DEF Begin
<1> HIDE DEF new
<1>5. RequestOK(new)
  BY DEF new
<1>6. /\ DOMAIN editor' = Editors /\ editor'[e] = new
      /\ \A d \in Editors \ {e} : editor'[d] = editor[d]
  BY <1>2 DEF CatalogInv, CatalogOK
<1>7. CatalogOK'
  <2>1. ASSUME NEW d \in Editors PROVE editor'[d] = Idle \/ RequestOK(editor[d])'
    <3>1. CASE d = e
      <4>1. editor'[d] = new
        BY <3>1, <1>6
      <4> QED BY <4>1, <1>1, <1>5 DEF RequestOK
    <3>2. CASE d # e
      BY <3>2, <1>1, <1>6 DEF CatalogInv, CatalogOK, RequestOK
    <3> QED BY <3>1, <3>2
  <2>2. overlapped' \in BOOLEAN
    BY <1>4 DEF CatalogInv, CatalogOK
  <2> QED BY <2>1, <2>2, <1>1, <1>6 DEF CatalogInv, CatalogOK
<1>8. ChainsOK'
  BY <1>1 DEF CatalogInv, ChainsOK, Chained, Extended
<1>9. overlapped' \/ SequentialOK'
  <2> SUFFICES ASSUME ~overlapped' PROVE SequentialOK'
    OBVIOUS
  <2>1. SequentialOK /\ \A d \in Editors : editor[d] = Idle
    BY <1>4 DEF CatalogInv
  <2>2. \A d \in Editors \ {e} : editor'[d] = Idle
    BY <2>1, <1>6
  <2>3. \A v \in DOMAIN versions' : VersionOK(v)'
    BY <2>1, <1>1 DEF SequentialOK, VersionOK, Backward, Current
  <2>4. Current' = Current
    BY <1>1 DEF Current
  <2> QED BY <2>2, <2>3, <2>4, <1>1, <1>3, <1>6 DEF SequentialOK
<1> QED BY <1>7, <1>8, <1>9 DEF CatalogInv

(* Rows that only grow leave the other requests what they were. *)
LEMMA EndingKeeps ==
    ASSUME CatalogInv, NEW e \in Editors, NEW request \in Requests, Ending(e, request),
           schemas' \in Seq(SchemaRows), DOMAIN schemas \subseteq DOMAIN schemas',
           \A k \in DOMAIN schemas : schemas'[k] = schemas[k],
           versions' \in Seq(Versions), Len(versions) <= Len(versions'),
           published' \in 0 .. Len(versions'),
           versions' # <<>> => schemas' # <<>>, ChainsOK',
           ~overlapped /\ SequentialOK => \A v \in DOMAIN versions' : VersionOK(v)'
    PROVE  CatalogInv'
<1>1. editor' = [editor EXCEPT ![e] = Idle] /\ UNCHANGED <<eventActive, status, overlapped>>
  BY DEF Ending
<1>2. /\ DOMAIN editor' = Editors /\ editor'[e] = Idle
      /\ \A d \in Editors \ {e} : editor'[d] = editor[d]
  BY <1>1 DEF CatalogInv, CatalogOK
<1>3. ASSUME NEW d \in Editors PROVE editor'[d] = Idle \/ RequestOK(editor[d])'
  <2> SUFFICES ASSUME d # e, RequestOK(editor[d]) PROVE RequestOK(editor[d])'
    BY <1>2 DEF CatalogInv, CatalogOK
  <2>1. editor'[d] = editor[d]
    BY <1>2
  <2>2. /\ Len(versions) \in Nat /\ Len(versions') \in Nat
        /\ Len(editor[d].versions) \in Nat
    BY DEF CatalogInv, CatalogOK, RequestOK
  <2> QED BY <2>1, <2>2 DEF RequestOK
<1>4. CatalogOK'
  BY <1>1, <1>2, <1>3 DEF CatalogInv, CatalogOK
<1>5. overlapped' \/ SequentialOK'
  <2> SUFFICES ASSUME ~overlapped' PROVE SequentialOK'
    OBVIOUS
  <2>1. SequentialOK /\ editor[e] # Idle
    BY <1>1 DEF CatalogInv, Ending, Idle, Requests
  <2>2. \A d \in Editors : editor'[d] = Idle
    BY <2>1, <1>2 DEF SequentialOK
  <2> QED BY <2>1, <2>2, <1>1 DEF SequentialOK
<1> QED BY <1>4, <1>5 DEF CatalogInv

(* Every request is admitted on rows that satisfy what RequestOK says.     *)
LEMMA AdmittedKeeps ==
    ASSUME CatalogInv, NEW e \in Editors, NEW request \in Requests \ {"schema"},
           NEW version \in DOMAIN versions, NEW argument,
           Begin(e, request, version, argument),
           request = "edit" => argument \in Contents /\ Editable(version),
           request = "validate" => Editable(version),
           request = "publish" => versions[version].state = "validated",
           request = "rollback" => versions[version].state \in {"published", "deprecated"}
    PROVE  CatalogInv'
<1> DEFINE new == Pending(request, version, argument)
<1>1. /\ new.request = request /\ new.version = version /\ new.argument = argument
      /\ new.versions = versions /\ new.published = published /\ new.schema = Current
  BY DEF Pending
<1>2. Current \in DOMAIN schemas
  <2>1. versions # <<>>
    OBVIOUS
  <2> QED BY <2>1, SeqDomain DEF CatalogInv, CatalogOK, Current
<1>3. Len(versions) \in Nat
  BY DEF CatalogInv, CatalogOK
<1> HIDE DEF new
<1>4. RequestOK(new)
  BY <1>1, <1>2, <1>3 DEF RequestOK, CatalogInv, CatalogOK, Editable
<1> QED BY <1>4, BeginKeeps DEF new

LEMMA BeginSchemaKeeps ==
    ASSUME CatalogInv, NEW e \in Editors, NEW schema \in Candidates, NEW mode \in Modes,
           BeginSchema(e, schema, mode)
    PROVE  CatalogInv'
<1> DEFINE argument == [schema |-> schema, mode |-> mode]
           new == Pending("schema", 0, argument)
<1>1. /\ new.request = "schema" /\ new.argument = argument
      /\ new.versions = versions /\ new.published = published /\ new.schema = Current
  BY DEF Pending
<1>2. Current \in DOMAIN schemas
  BY SeqDomain DEF BeginSchema, UpdateAdmitted, CatalogInv, CatalogOK, Current
<1>3. /\ argument \in SchemaRows /\ argument.schema = schema /\ argument.mode = mode
      /\ Compatible(schemas[Current].schema, schema, mode)
  BY DEF BeginSchema, UpdateAdmitted, SchemaRows
<1>4. Len(versions) \in Nat
  BY DEF CatalogInv, CatalogOK
<1>5. Begin(e, "schema", 0, argument)
  BY DEF BeginSchema
<1> HIDE DEF argument, new
<1>6. RequestOK(new)
  BY <1>1, <1>2, <1>3, <1>4 DEF RequestOK, Requests, CatalogInv, CatalogOK
<1> QED BY <1>5, <1>6, BeginKeeps DEF new

(* What a request that did not overlap has loaded is what is there.        *)
LEMMA Undisturbed ==
    ASSUME CatalogInv, SequentialOK, NEW e \in Editors, editor[e] # Idle,
           editor[e].request # "schema"
    PROVE  /\ Loaded(e) = versions[editor[e].version]
           /\ editor[e].versions = versions /\ editor[e].published = published
           /\ editor[e].schema = Current
BY DEF SequentialOK, Loaded

LEMMA CommitEditKeeps ==
    ASSUME CatalogInv, NEW e \in Editors, CommitEdit(e)
    PROVE  CatalogInv'
<1> DEFINE v == editor[e].version
           row == Edited(versions[v], Loaded(e), editor[e].argument)
<1>1. Ending(e, "edit") /\ UNCHANGED <<schemas, published, validated>>
      /\ versions' = [versions EXCEPT ![v] = row]
  BY DEF CommitEdit
<1>2. /\ RequestOK(editor[e]) /\ editor[e].request = "edit" /\ editor[e] # Idle
  BY <1>1 DEF CatalogInv, CatalogOK, Ending, Idle
<1>3. /\ v \in DOMAIN editor[e].versions /\ editor[e].argument \in Contents
      /\ Loaded(e).state \in {"draft", "validated"} /\ v \in DOMAIN versions
  <2>1. /\ editor[e].versions \in Seq(Versions) /\ Len(editor[e].versions) <= Len(versions)
        /\ versions \in Seq(Versions)
    BY <1>2 DEF RequestOK, CatalogInv, CatalogOK
  <2> QED BY <2>1, <1>2, SeqDomain DEF RequestOK, Loaded
<1>4. versions[v] \in Versions /\ Loaded(e) \in Versions
  BY <1>2, <1>3, SeqElement DEF RequestOK, CatalogInv, CatalogOK, Loaded
<1>5. row \in Versions
  <2>1. /\ Written(versions[v].state, Loaded(e).state, "draft") \in States
        /\ Written(versions[v].content, Loaded(e).content, editor[e].argument) \in Contents
        /\ Written(versions[v].errors, Loaded(e).errors, FALSE) \in BOOLEAN
    BY <1>3, <1>4 DEF Written, Versions, States
  <2> QED BY <2>1 DEF Edited, Versions
<1>6. /\ versions' \in Seq(Versions) /\ Len(versions') = Len(versions)
      /\ DOMAIN versions' = DOMAIN versions /\ versions'[v] = row
      /\ \A k \in DOMAIN versions \ {v} : versions'[k] = versions[k]
  <2>1. \A k \in DOMAIN versions : versions'[k] = IF k = v THEN row ELSE versions[k]
    BY <1>1
  <2>2. \A k \in DOMAIN versions : versions[k] \in Versions
    BY SeqElement DEF CatalogInv, CatalogOK
  <2>3. versions' = [k \in DOMAIN versions |-> versions'[k]]
    BY <1>1
  <2> QED BY <2>1, <2>2, <2>3, <1>3, <1>5, SeqRewritten DEF CatalogInv, CatalogOK
<1>7. ASSUME SequentialOK, NEW k \in DOMAIN versions PROVE VersionOK(k)'
  <2>1. CASE k = v
    <3>1. Loaded(e) = versions[v] /\ VersionOK(v)
      BY <1>2, <1>3, <1>7, Undisturbed DEF SequentialOK
    <3>2. row.state = "draft"
      BY <3>1, WrittenFresh DEF Edited
    <3> HIDE DEF row
    <3>3. v # published
      BY <3>1, <1>3 DEF VersionOK
    <3> QED BY <2>1, <3>2, <3>3, <1>1, <1>6 DEF VersionOK
  <2>2. CASE k # v
    BY <2>2, <1>1, <1>6, <1>7 DEF SequentialOK, VersionOK, Backward, Current
  <2> QED BY <2>1, <2>2
<1>8. ChainsOK'
  BY <1>1 DEF CatalogInv, ChainsOK, Chained, Extended
<1>9. versions' # <<>> => schemas' # <<>>
  BY <1>1, <1>3 DEF CatalogInv, CatalogOK
<1>10. Len(versions) \in Nat
  BY DEF CatalogInv, CatalogOK
<1> HIDE DEF row, v
<1>11. published' \in 0 .. Len(versions')
  BY <1>1, <1>6 DEF CatalogInv, CatalogOK
<1> QED
  BY <1>1, <1>6, <1>7, <1>8, <1>9, <1>10, <1>11, EndingKeeps
  DEF CatalogInv, CatalogOK, Requests

(* A request on a version has loaded a version that is still there.        *)
LEMMA LoadedVersion ==
    ASSUME CatalogInv, NEW e \in Editors, NEW request \in Requests \ {"schema"},
           Ending(e, request)
    PROVE  /\ RequestOK(editor[e]) /\ editor[e] # Idle /\ editor[e].request = request
           /\ editor[e].version \in DOMAIN editor[e].versions
           /\ DOMAIN editor[e].versions \subseteq DOMAIN versions
           /\ editor[e].version \in DOMAIN versions
           /\ Loaded(e) \in Versions /\ versions[editor[e].version] \in Versions
           /\ versions # <<>> /\ schemas # <<>> /\ Len(versions) \in Nat
<1>1. RequestOK(editor[e]) /\ editor[e].request = request /\ editor[e] # Idle
  BY DEF CatalogInv, CatalogOK, Ending, Idle, Requests
<1>2. /\ editor[e].versions \in Seq(Versions) /\ Len(editor[e].versions) <= Len(versions)
      /\ versions \in Seq(Versions)
  BY <1>1 DEF RequestOK, CatalogInv, CatalogOK
<1>3. /\ editor[e].version \in DOMAIN editor[e].versions
      /\ DOMAIN editor[e].versions \subseteq DOMAIN versions
  BY <1>1, <1>2, SeqDomain DEF RequestOK
<1> QED BY <1>1, <1>2, <1>3, SeqElement DEF Loaded, CatalogInv, CatalogOK

(* Rows written in place. *)
LEMMA WrittenInPlace ==
    ASSUME CatalogInv, versions' = [k \in DOMAIN versions |-> versions'[k]],
           \A k \in DOMAIN versions : versions'[k] \in Versions
    PROVE  /\ versions' \in Seq(Versions) /\ Len(versions') = Len(versions)
           /\ DOMAIN versions' = DOMAIN versions
BY SeqRewritten DEF CatalogInv, CatalogOK

LEMMA ChainsFrame ==
    ASSUME CatalogInv, UNCHANGED schemas
    PROVE  ChainsOK'
BY DEF CatalogInv, ChainsOK, Chained, Extended

LEMMA CommitValidateKeeps ==
    ASSUME CatalogInv, NEW e \in Editors, CommitValidate(e)
    PROVE  CatalogInv'
<1> DEFINE v == editor[e].version
<1>0. PICK passes \in BOOLEAN :
        /\ Ending(e, "validate")
        /\ passes => Passes(Loaded(e).content, schemas[editor[e].schema].schema)
        /\ versions' = [versions EXCEPT ![v] = Judged(@, Loaded(e), passes)]
        /\ validated' = IF passes
                        THEN validated \cup {<<v, Loaded(e).content>>}
                        ELSE validated
        /\ UNCHANGED <<schemas, published>>
  BY DEF CommitValidate
<1> DEFINE verdict == IF passes THEN "validated" ELSE "draft"
           row == Judged(versions[v], Loaded(e), passes)
<1>1. /\ RequestOK(editor[e]) /\ editor[e] # Idle /\ editor[e].request = "validate"
      /\ v \in DOMAIN versions /\ versions[v] \in Versions /\ Loaded(e) \in Versions
      /\ schemas # <<>> /\ Len(versions) \in Nat
  BY <1>0, LoadedVersion DEF Requests
<1>2. versions' = [versions EXCEPT ![v] = row]
  BY <1>0
<1>3. /\ row \in Versions /\ row.content = versions[v].content
      /\ row.state = Written(versions[v].state, Loaded(e).state, verdict)
  <2>1. /\ Written(versions[v].state, Loaded(e).state, verdict) \in States
        /\ Written(versions[v].errors, Loaded(e).errors, ~passes) \in BOOLEAN
    BY <1>1 DEF Written, Versions, States
  <2> QED BY <2>1, <1>1 DEF Versions, Judged
<1> HIDE DEF row
<1>4. /\ versions' \in Seq(Versions) /\ Len(versions') = Len(versions)
      /\ DOMAIN versions' = DOMAIN versions /\ versions'[v] = row
      /\ \A k \in DOMAIN versions \ {v} : versions'[k] = versions[k]
  <2>1. \A k \in DOMAIN versions : versions'[k] = IF k = v THEN row ELSE versions[k]
    BY <1>2
  <2>2. \A k \in DOMAIN versions : versions[k] \in Versions
    BY SeqElement DEF CatalogInv, CatalogOK
  <2>3. versions' = [k \in DOMAIN versions |-> versions'[k]]
    BY <1>2
  <2> QED BY <2>1, <2>2, <2>3, <1>1, <1>3, WrittenInPlace
<1>5. ASSUME SequentialOK, NEW k \in DOMAIN versions PROVE VersionOK(k)'
  <2>1. CASE k = v
    <3>1. Loaded(e) = versions[v] /\ VersionOK(v) /\ editor[e].schema = Current
      BY <1>1, <1>5, Undisturbed DEF SequentialOK
    <3>2. row.state = verdict
      BY <3>1, <1>3, WrittenFresh
    <3>3. v # published
      BY <3>1, <1>1 DEF VersionOK, RequestOK, Loaded
    <3>4. passes => /\ <<v, row.content>> \in validated'
                    /\ row.content \subseteq Declared(schemas[Current].schema)
      BY <3>1, <1>0, <1>3 DEF Passes
    <3> QED BY <2>1, <3>2, <3>3, <3>4, <1>0, <1>4 DEF VersionOK, Current
  <2>2. CASE k # v
    <3>1. VersionOK(k) /\ versions'[k] = versions[k] /\ validated \subseteq validated'
      BY <2>2, <1>0, <1>4, <1>5 DEF SequentialOK
    <3> QED BY <3>1, <1>0 DEF VersionOK, Backward, Current
  <2> QED BY <2>1, <2>2
<1>6. ChainsOK'
  BY <1>0, ChainsFrame
<1> HIDE DEF v
<1>7. published' \in 0 .. Len(versions')
  BY <1>0, <1>4 DEF CatalogInv, CatalogOK
<1> QED
  BY <1>0, <1>1, <1>4, <1>5, <1>6, <1>7, EndingKeeps DEF CatalogInv, CatalogOK, Requests

LEMMA CommitPublishKeeps ==
    ASSUME CatalogInv, NEW e \in Editors, CommitPublish(e)
    PROVE  CatalogInv'
<1> DEFINE v == editor[e].version
           old == editor[e].published
<1>0. PICK request \in {"publish", "rollback"} : Ending(e, request)
  BY DEF CommitPublish
<1>1. versions' = Promoted(e, v) /\ published' = Written(published, old, v)
      /\ UNCHANGED <<schemas, validated>>
  BY DEF CommitPublish
<1>2. /\ RequestOK(editor[e]) /\ editor[e] # Idle /\ editor[e].request = request
      /\ v \in DOMAIN versions /\ versions[v] \in Versions /\ Loaded(e) \in Versions
      /\ DOMAIN editor[e].versions \subseteq DOMAIN versions
      /\ schemas # <<>> /\ Len(versions) \in Nat
  BY <1>0, LoadedVersion DEF Requests
<1>3. ASSUME NEW k \in DOMAIN versions
      PROVE  /\ versions'[k] \in Versions /\ versions'[k].content = versions[k].content
             /\ versions'[k].state = IF k = v
                   THEN Written(versions[k].state, Loaded(e).state, "published")
                   ELSE IF k = old
                   THEN Written(versions[k].state, editor[e].versions[k].state, "deprecated")
                   ELSE versions[k].state
  <2>1. versions[k] \in Versions
    BY SeqElement DEF CatalogInv, CatalogOK
  <2> DEFINE new == IF k = v
                    THEN Written(versions[k].state, Loaded(e).state, "published")
                    ELSE Written(versions[k].state, editor[e].versions[k].state, "deprecated")
  <2>2. new \in States
    BY <2>1 DEF Written, Versions, States
  <2>3. versions'[k] = IF k = v \/ k = old THEN [versions[k] EXCEPT !.state = new]
                       ELSE versions[k]
    BY <1>1 DEF Promoted
  <2> HIDE DEF new
  <2>4. [versions[k] EXCEPT !.state = new] \in Versions
        /\ [versions[k] EXCEPT !.state = new].state = new
        /\ [versions[k] EXCEPT !.state = new].content = versions[k].content
    BY <2>1, <2>2 DEF Versions
  <2> QED BY <2>1, <2>3, <2>4 DEF new
<1>4. /\ versions' \in Seq(Versions) /\ Len(versions') = Len(versions)
      /\ DOMAIN versions' = DOMAIN versions
  <2>1. versions' = [k \in DOMAIN versions |-> versions'[k]]
    BY <1>1 DEF Promoted
  <2> QED BY <2>1, <1>3, WrittenInPlace
<1>5. ASSUME SequentialOK, NEW k \in DOMAIN versions PROVE VersionOK(k)'
  <2>1. /\ Loaded(e) = versions[v] /\ VersionOK(k) /\ VersionOK(v)
        /\ editor[e].versions = versions /\ old = published
    BY <1>0, <1>2, <1>5, Undisturbed DEF SequentialOK
  <2>2. published' = v
    BY <2>1, <1>1, WrittenFresh
  <2>3. versions[v].state # "draft"
    BY <2>1, <1>0, <1>2 DEF RequestOK, Loaded
  <2>4. versions'[k].state = IF k = v THEN "published"
                             ELSE IF k = published THEN "deprecated" ELSE versions[k].state
    BY <2>1, <1>3, WrittenFresh
  <2>5. versions[k].state # "draft" \/ versions'[k].state = "draft"
    BY <2>1, <2>3, <2>4 DEF VersionOK
  <2>6. versions'[k].state = "published" <=> k = v
    BY <2>1, <2>4 DEF VersionOK
  <2> HIDE DEF v, old
  <2> QED BY <2>1, <2>2, <2>5, <2>6, <1>1, <1>3 DEF VersionOK, Backward, Current
<1>6. ChainsOK'
  BY <1>1, ChainsFrame
<1>7. v \in 0 .. Len(versions)
  BY <1>2, SeqElement DEF CatalogInv, CatalogOK
<1>8. published' \in 0 .. Len(versions')
  BY <1>1, <1>4, <1>7 DEF CatalogInv, CatalogOK, Written
<1>9. request \in Requests
  BY DEF Requests
<1> QED
  BY <1>0, <1>1, <1>2, <1>4, <1>5, <1>6, <1>8, <1>9, EndingKeeps DEF CatalogInv, CatalogOK

LEMMA CommitNextKeeps ==
    ASSUME CatalogInv, NEW e \in Editors, CommitNext(e)
    PROVE  CatalogInv'
<1> DEFINE new == Draft(Loaded(e).content)
<1>1. Ending(e, "next") /\ UNCHANGED <<schemas, published, validated>>
      /\ versions' = IF Len(versions) = editor[e].version THEN Append(versions, new)
                     ELSE versions
  BY DEF CommitNext
<1>2. /\ Loaded(e) \in Versions /\ schemas # <<>> /\ Len(versions) \in Nat
  BY <1>1, LoadedVersion DEF Requests
<1>3. new \in Versions /\ new.state = "draft"
  BY <1>2 DEF Draft, Versions, States
<1>4. versions \in Seq(Versions) /\ published \in 0 .. Len(versions)
  BY DEF CatalogInv, CatalogOK
<1> HIDE DEF new
<1>5. /\ versions' \in Seq(Versions) /\ Len(versions) <= Len(versions') /\ Len(versions') \in Nat
      /\ \A k \in DOMAIN versions' : \/ k \in DOMAIN versions /\ versions'[k] = versions[k]
                                     \/ versions'[k] = new /\ k > Len(versions)
  <2>1. CASE versions' = versions
    BY <2>1, <1>2, <1>4
  <2>2. CASE versions' = Append(versions, new)
    BY <2>2, <1>2, <1>3, <1>4, SeqAppended
  <2> QED BY <2>1, <2>2, <1>1
<1>6. ASSUME SequentialOK, NEW k \in DOMAIN versions' PROVE VersionOK(k)'
  <2>1. CASE k \in DOMAIN versions /\ versions'[k] = versions[k]
    BY <2>1, <1>1, <1>6 DEF SequentialOK, VersionOK, Backward, Current
  <2>2. CASE versions'[k] = new /\ k > Len(versions)
    BY <2>2, <1>1, <1>2, <1>3, <1>4 DEF VersionOK
  <2> QED BY <2>1, <2>2, <1>5
<1>7. ChainsOK'
  BY <1>1, ChainsFrame
<1>8. published' \in 0 .. Len(versions')
  BY <1>1, <1>2, <1>4, <1>5
<1> QED
  BY <1>1, <1>2, <1>5, <1>6, <1>7, <1>8, EndingKeeps DEF CatalogInv, CatalogOK, Requests

(* Updates that are checked as backward compatible only add properties.    *)
LEMMA CommitSchemaKeeps ==
    ASSUME CatalogInv, NEW e \in Editors, CommitSchema(e)
    PROVE  CatalogInv'
<1> DEFINE row == editor[e].argument
           new == [schema |-> row.schema, mode |-> row.mode]
           last == Len(schemas) + 1
<1>1. Ending(e, "schema") /\ UNCHANGED <<versions, published, validated>>
      /\ \/ schemas' = Append(schemas, new) /\ Current = editor[e].schema
         \/ UNCHANGED schemas
  BY DEF CommitSchema, AddSchema
<1>2. RequestOK(editor[e]) /\ editor[e].request = "schema"
  BY <1>1 DEF CatalogInv, CatalogOK, Ending, Idle
<1>3. row = new /\ new \in SchemaRows /\ new.schema = row.schema /\ new.mode = row.mode
      /\ Compatible(schemas[editor[e].schema].schema, row.schema, row.mode)
  BY <1>2 DEF RequestOK, SchemaRows
<1> HIDE DEF new, row
<1>4. schemas \in Seq(SchemaRows) /\ versions \in Seq(Versions) /\ Len(versions) \in Nat
      /\ (versions # <<>> => schemas # <<>>) /\ published \in 0 .. Len(versions)
  BY DEF CatalogInv, CatalogOK
<1>5. CASE UNCHANGED schemas
  <2>1. ChainsOK'
    BY <1>5, ChainsFrame
  <2>2. SequentialOK => \A v \in DOMAIN versions' : VersionOK(v)'
    BY <1>1, <1>5 DEF SequentialOK, VersionOK, Backward, Current
  <2> QED BY <2>1, <2>2, <1>1, <1>4, <1>5, EndingKeeps DEF Requests
<1>6. CASE schemas' = Append(schemas, new) /\ Current = editor[e].schema
  <2>1. /\ schemas' \in Seq(SchemaRows) /\ Len(schemas') = last /\ schemas'[last] = new
        /\ DOMAIN schemas' = DOMAIN schemas \cup {last} /\ Len(schemas) \in Nat
        /\ \A k \in DOMAIN schemas : schemas'[k] = schemas[k]
    BY <1>3, <1>4, <1>6, SeqAppended
  <2>2. ChainsOK'
    BY <1>3, <1>6, ChainsAppended DEF CatalogInv
  <2>3. ASSUME SequentialOK, NEW v \in DOMAIN versions PROVE VersionOK(v)'
    <3>1. ASSUME Backward'
          PROVE  Backward /\ Declared(schemas[Current].schema) \subseteq Declared(new.schema)
      <4>1. Backward /\ new.mode \in {"backward", "full"}
        BY <3>1, <2>1 DEF Backward
      <4> QED BY <4>1, <1>3, <1>6 DEF Compatible
    <3>2. schemas'[Len(schemas')] = new
      BY <2>1
    <3> QED BY <3>1, <3>2, <2>3, <1>1 DEF SequentialOK, VersionOK, Current
  <2>4. versions' # <<>> => schemas' # <<>>
    BY <2>1, <1>4
  <2> QED BY <2>1, <2>2, <2>3, <2>4, <1>1, <1>4, EndingKeeps DEF Requests
<1> QED BY <1>1, <1>5, <1>6

(* The first version of the template, and of the schema.                   *)
LEMMA CreateTemplateKeeps ==
    ASSUME CatalogInv, NEW content \in Contents, CreateTemplate(content)
    PROVE  CatalogInv'
<1> DEFINE new == Draft(content)
<1>1. /\ UNCHANGED <<schemas, eventActive, published, status, editor, overlapped, validated>>
      /\ versions = <<>> /\ versions' = <<new>> /\ schemas # <<>>
  BY DEF CreateTemplate
<1>2. new \in Versions /\ new.state = "draft"
  BY DEF Draft, Versions, States
<1> HIDE DEF new
<1>3. /\ versions' \in Seq(Versions) /\ Len(versions') = 1 /\ versions'[1] = new
      /\ DOMAIN versions' = {1} /\ Len(versions) = 0 /\ published = 0 /\ DOMAIN versions = {}
  BY <1>1, <1>2 DEF CatalogInv, CatalogOK
<1>4. ASSUME NEW d \in Editors, RequestOK(editor[d]) PROVE RequestOK(editor[d])' /\ editor[d].request = "schema"
  <2>1. Len(editor[d].versions) = 0 /\ DOMAIN editor[d].versions = {}
    BY <1>3, <1>4 DEF RequestOK
  <2> QED BY <2>1, <1>1, <1>3, <1>4 DEF RequestOK
<1>5. CatalogOK'
  BY <1>1, <1>3, <1>4 DEF CatalogInv, CatalogOK
<1>6. ChainsOK'
  BY <1>1, ChainsFrame
<1>7. SequentialOK => SequentialOK'
  <2> SUFFICES ASSUME SequentialOK PROVE SequentialOK'
    OBVIOUS
  <2>1. \A v \in DOMAIN versions' : VersionOK(v)'
    BY <1>1, <1>2, <1>3 DEF VersionOK
  <2>2. \A d \in Editors : editor[d] # Idle => editor[d].request = "schema"
    BY <1>4 DEF CatalogInv, CatalogOK
  <2> QED BY <2>1, <2>2, <1>1 DEF SequentialOK, Current
<1> QED BY <1>1, <1>5, <1>6, <1>7 DEF CatalogInv

LEMMA NewEventKeeps ==
    ASSUME CatalogInv, NEW schema \in Candidates, NEW mode \in Modes, NewEvent(schema, mode)
    PROVE  CatalogInv'
<1> DEFINE new == [schema |-> schema, mode |-> mode]
<1>1. /\ UNCHANGED templateVars /\ eventActive' = TRUE
      /\ schemas = <<>> /\ schemas' = <<new>>
  BY DEF NewEvent, CreateEvent
<1>2. new \in SchemaRows
  BY DEF SchemaRows
<1> HIDE DEF new
<1>3. /\ schemas' \in Seq(SchemaRows) /\ DOMAIN schemas' = {1} /\ schemas' # <<>>
      /\ DOMAIN schemas = {} /\ versions = <<>> /\ DOMAIN versions = {}
  BY <1>1, <1>2 DEF CatalogInv, CatalogOK
<1>4. \A d \in Editors : editor[d] = Idle
  BY <1>3 DEF CatalogInv, CatalogOK, RequestOK
<1>5. CatalogOK'
  BY <1>1, <1>3, <1>4 DEF CatalogInv, CatalogOK, templateVars
<1>6. ChainsOK'
  BY <1>3 DEF ChainsOK
<1>7. SequentialOK'
  BY <1>1, <1>3, <1>4 DEF SequentialOK, templateVars
<1> QED BY <1>5, <1>6, <1>7 DEF CatalogInv

(* Transitions, and the steps of the rest of the platform. *)
LEMMA CatalogFrame ==
    ASSUME CatalogInv, UNCHANGED <<schemas, versions, published, editor, overlapped, validated>>,
           eventActive' \in BOOLEAN, status' \in {"active", "disabled", "archived"}
    PROVE  CatalogInv'
<1>1. CatalogOK'
  BY DEF CatalogInv, CatalogOK, RequestOK
<1>2. ChainsOK'
  BY ChainsFrame
<1>3. SequentialOK => SequentialOK'
  BY DEF SequentialOK, VersionOK, Backward, Current
<1> QED BY <1>1, <1>2, <1>3 DEF CatalogInv

LEMMA CatalogKeeps ==
    ASSUME budget \in Bounds, CatalogInv, CatalogNext
    PROVE  CatalogInv'
<1>1. budget.editors \subseteq Editors /\ budget.schemas \subseteq Candidates
  BY DEF Bounds
<1>2. ASSUME NEW e \in budget.editors, NEW v \in DOMAIN versions,
             \/ \E content \in Contents : BeginEdit(e, v, content)
             \/ BeginValidate(e, v) \/ BeginPublish(e, v) \/ BeginRollback(e, v)
      PROVE  CatalogInv'
  BY <1>1, <1>2, AdmittedKeeps
  DEF BeginEdit, BeginValidate, BeginPublish, BeginRollback, Editable, Requests
<1>3. ASSUME NEW e \in budget.editors, BeginNext(e) PROVE CatalogInv'
  <2>1. Len(versions) \in DOMAIN versions
    BY <1>3, SeqDomain DEF BeginNext, CatalogInv, CatalogOK
  <2> QED BY <2>1, <1>1, <1>3, AdmittedKeeps DEF BeginNext, Requests
<1>4. ASSUME NEW e \in budget.editors,
             \E schema \in budget.schemas, mode \in Modes : BeginSchema(e, schema, mode)
      PROVE  CatalogInv'
  BY <1>1, <1>4, BeginSchemaKeeps
<1>5. ASSUME NEW e \in budget.editors,
             \/ CommitEdit(e) \/ CommitValidate(e) \/ CommitPublish(e)
             \/ CommitNext(e) \/ CommitSchema(e)
      PROVE  CatalogInv'
  BY <1>1, <1>5, CommitEditKeeps, CommitValidateKeeps, CommitPublishKeeps, CommitNextKeeps,
     CommitSchemaKeeps
<1>6. ASSUME NEW to \in {"disabled", "archived"}, TransitionTemplate(to) PROVE CatalogInv'
  BY <1>6, CatalogFrame DEF TransitionTemplate, CatalogInv, CatalogOK
<1>7. ASSUME TransitionEvent PROVE CatalogInv'
  BY <1>7, CatalogFrame DEF TransitionEvent, DisableEvent, templateVars, CatalogInv, CatalogOK
<1> QED
  BY <1>1, <1>2, <1>3, <1>4, <1>5, <1>6, <1>7, CreateTemplateKeeps, NewEventKeeps DEF CatalogNext

-----------------------------------------------------------------------------
(* A step is one of the catalog, or leaves it alone. *)
LEMMA CatalogSteps ==
    ASSUME [Next]_vars
    PROVE  CatalogNext \/ UNCHANGED catalogVars
BY DEF Next, vars

(* The inductive invariant: what the requests in progress were admitted    *)
(* for, that schema chains extend, and what holds as long as requests have *)
(* not overlapped.                                                         *)
THEOREM CatalogInvariant == Spec => []CatalogInv
<1>1. AdmissionInv /\ CatalogInv /\ [Next]_vars => CatalogInv'
  <2> SUFFICES ASSUME AdmissionInv, CatalogInv, [Next]_vars PROVE CatalogInv'
    OBVIOUS
  <2>1. CASE CatalogNext
    BY <2>1, CatalogKeeps DEF AdmissionInv
  <2>2. CASE UNCHANGED catalogVars
    BY <2>2, CatalogFrame DEF catalogVars, templateVars, CatalogInv, CatalogOK
  <2> QED BY <2>1, <2>2, CatalogSteps
<1> QED BY <1>1, CatalogStarts, AdmissionInvariant, PTL DEF Spec

(* However long the chain of updates, each checked against its predecessor *)
(* only (update_event, compatibility_errors): what a version accepts every *)
(* later one does.                                                         *)
THEOREM SchemaChainsExtend == Spec => []SchemasStayCompatible
<1>1. CatalogInv => SchemasStayCompatible
  BY DEF CatalogInv, ChainsOK, Chained, Extended, SchemasStayCompatible
<1> QED BY <1>1, CatalogInvariant, PTL

(* Without overlapping requests, what is or was published passed its       *)
(* validation as it stands (edit_template_version resets the verdict).     *)
THEOREM PublishedWasValidated == Spec => []PublishedIsValidated
<1>1. CatalogInv => PublishedIsValidated
  BY DEF CatalogInv, SequentialOK, VersionOK, PublishedIsValidated
<1> QED BY <1>1, CatalogInvariant, PTL

(* Without overlapping requests, the version the template names is the one *)
(* that is PUBLISHED (publish_template_version, rollback_template).        *)
THEOREM OneIsPublished == Spec => []OnePublished
<1>1. CatalogInv => OnePublished
  BY DEF CatalogInv, SequentialOK, VersionOK, OnePublished
<1> QED BY <1>1, CatalogInvariant, PTL

(* Without overlapping requests, and as long as updates are checked as     *)
(* backward compatible, the current schema declares every variable of the  *)
(* published version.                                                      *)
THEOREM PublishedStaysRenderable == Spec => []PublishedIsRenderable
<1>1. CatalogInv => PublishedIsRenderable
  <2> SUFFICES ASSUME CatalogInv, ~overlapped, published # 0,
                      \A k \in DOMAIN schemas : schemas[k].mode \notin {"none", "forward"}
               PROVE  versions[published].content \subseteq Declared(schemas[Current].schema)
    BY DEF PublishedIsRenderable
  <2>1. Backward
    <3>1. ASSUME NEW k \in DOMAIN schemas PROVE schemas[k].mode \in Modes
      <4>1. schemas[k] \in SchemaRows
        BY SeqElement DEF CatalogInv, CatalogOK
      <4> QED BY <4>1 DEF SchemaRows
    <3> QED BY <3>1 DEF Backward, Modes
  <2>2. published \in DOMAIN versions
    BY DEF CatalogInv, CatalogOK
  <2> QED BY <2>1, <2>2 DEF CatalogInv, SequentialOK, VersionOK
<1> QED BY <1>1, CatalogInvariant, PTL

(* Overlapping or not, content that is or was published changes only by an *)
(* edit that loaded the version before (edit_template_version).            *)
THEOREM PublishedEdits == Spec => PublishedEditedOnlyByStaleEditor
<1> DEFINE StaleEdit ==
      \A v \in DOMAIN versions :
          /\ versions[v].state \in {"published", "deprecated"}
          /\ versions'[v].content # versions[v].content
          => \E e \in Editors : /\ editor[e].request = "edit"
                                /\ editor[e].version = v
                                /\ Loaded(e).state \in {"draft", "validated"}
<1>1. AdmissionInv /\ CatalogInv /\ [Next]_vars => [StaleEdit]_versions
  <2> SUFFICES ASSUME AdmissionInv, CatalogInv, [Next]_vars, versions' # versions,
                      NEW v \in DOMAIN versions, versions'[v].content # versions[v].content
               PROVE  \E e \in Editors : /\ editor[e].request = "edit"
                                         /\ editor[e].version = v
                                         /\ Loaded(e).state \in {"draft", "validated"}
    OBVIOUS
  <2>1. CatalogNext /\ budget.editors \subseteq Editors
    BY CatalogSteps DEF catalogVars, templateVars, AdmissionInv, Bounds
  <2>2. ASSUME NEW e \in Editors, CommitEdit(e)
        PROVE  /\ editor[e].request = "edit" /\ editor[e].version = v
               /\ Loaded(e).state \in {"draft", "validated"}
    <3>1. editor[e].request = "edit" /\ RequestOK(editor[e])
      BY <2>2 DEF CommitEdit, Ending, CatalogInv, CatalogOK, Idle
    <3>2. editor[e].version = v
      BY <2>2 DEF CommitEdit
    <3> QED BY <3>1, <3>2 DEF RequestOK, Loaded
  <2>3. ASSUME NEW e \in Editors, CommitValidate(e) PROVE FALSE
    <3>1. PICK passes \in BOOLEAN :
             versions' = [versions EXCEPT ![editor[e].version] = Judged(@, Loaded(e), passes)]
      BY <2>3 DEF CommitValidate
    <3>2. versions[v] \in Versions
      BY SeqElement DEF CatalogInv, CatalogOK
    <3> QED BY <3>1, <3>2 DEF Judged, Versions
  <2>4. ASSUME NEW e \in Editors, CommitPublish(e) PROVE FALSE
    <3>1. versions' = Promoted(e, editor[e].version)
      BY <2>4 DEF CommitPublish
    <3>2. versions[v] \in Versions
      BY SeqElement DEF CatalogInv, CatalogOK
    <3> QED BY <3>1, <3>2 DEF Promoted, Versions
  <2>5. ASSUME NEW e \in Editors, CommitNext(e) PROVE FALSE
    <3>1. versions \in Seq(Versions) /\ versions' = Append(versions, Draft(Loaded(e).content))
      BY <2>5 DEF CommitNext, CatalogInv, CatalogOK
    <3> HIDE DEF StaleEdit
    <3> QED BY <3>1
  <2>6. \E e \in Editors :
           CommitEdit(e) \/ CommitValidate(e) \/ CommitPublish(e) \/ CommitNext(e)
    <3>1. versions # <<>>
      OBVIOUS
    <3>2. ASSUME NEW e, NEW request, NEW version, NEW argument,
                 Begin(e, request, version, argument)
          PROVE  FALSE
      BY <3>2 DEF Begin
    <3> QED
      BY <2>1, <3>1, <3>2 DEF CatalogNext, BeginEdit, BeginValidate, BeginPublish,
         BeginRollback, BeginNext, BeginSchema, CommitSchema, CreateTemplate,
         TransitionTemplate, TransitionEvent, NewEvent, templateVars
  <2> QED BY <2>2, <2>3, <2>4, <2>5, <2>6
<1> QED BY <1>1, AdmissionInvariant, CatalogInvariant, PTL
        DEF Spec, PublishedEditedOnlyByStaleEditor
=============================================================================
