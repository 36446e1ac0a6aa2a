--------------------------- MODULE TemplateLifecycle ---------------------------
(***************************************************************************)
(* The versions of a template (management_api.py) and the editors that     *)
(* change them, and the schema they are validated against, concurrently.   *)
(* Every request loads its rows and tests their state when it begins, and  *)
(* commits what it decided on those; only the constraints of the database  *)
(* hold between the two.  One template stands for all: rows of different   *)
(* templates never meet.                                                   *)
(***************************************************************************)
EXTENDS EventSchemas

CONSTANT Contents   \* each by the set of variables it uses

VARIABLES
    versions,    \* template_versions, by version
    published,   \* templates.published_version; 0 is NULL
    status,      \* templates.status
    editor,      \* the requests in progress
    overlapped,  \* history: two of them were in progress at the same time
    validated    \* history: the contents that passed, with their version

templateVars == <<versions, published, status, editor, overlapped, validated>>
catalogVars == <<schemas, eventActive, templateVars>>

States == {"draft", "validated", "published", "deprecated"}

Versions == [state : States, content : Contents, errors : BOOLEAN]

Draft(content) == [state |-> "draft", content |-> content, errors |-> FALSE]

Requests == {"edit", "validate", "publish", "next", "rollback", "schema"}

Idle == [request |-> "none"]

(* argument: the new content, or schema and mode.  versions, published and *)
(* schema: what was loaded.                                                *)
Pending(request, version, argument) ==
    [request |-> request, version |-> version, argument |-> argument,
     versions |-> versions, published |-> published, schema |-> Current]

TemplateTypeOK ==
    /\ versions \in Seq(Versions)
    /\ published \in 0 .. Len(versions)
    /\ status \in {"active", "disabled", "archived"}
    /\ \A e \in Editors : editor[e] = Idle \/ editor[e].request \in Requests
    /\ overlapped \in BOOLEAN

-----------------------------------------------------------------------------
Begin(e, request, version, argument) ==
    /\ editor[e] = Idle
    /\ Spend("edits")
    /\ editor' = [editor EXCEPT ![e] = Pending(request, version, argument)]
    /\ overlapped' = (overlapped \/ \E d \in Editors : editor[d] # Idle)
    /\ UNCHANGED <<schemas, eventActive, versions, published, status, validated>>

(* Faulty: every version may be edited but the published one. *)
EditableUnlessPublished(v) == versions[v].state # "published"

Editable(v) == versions[v].state \in {"draft", "validated"}

BeginEdit(e, v, content) == Editable(v) /\ Begin(e, "edit", v, content)

BeginValidate(e, v) ==
    versions[v].state \in {"draft", "validated"} /\ Begin(e, "validate", v, None)

BeginPublish(e, v) ==
    /\ versions[v].state = "validated"
    /\ ~versions[v].errors
    /\ Begin(e, "publish", v, None)

BeginNext(e) == versions # <<>> /\ Begin(e, "next", Len(versions), None)

BeginRollback(e, v) ==
    versions[v].state \in {"published", "deprecated"} /\ Begin(e, "rollback", v, None)

BeginSchema(e, schema, mode) ==
    UpdateAdmitted(schema, mode)
        /\ Begin(e, "schema", 0, [schema |-> schema, mode |-> mode])

(* Two create requests meet the unique identity of the template.           *)
CreateTemplate(content) ==
    /\ schemas # <<>>
    /\ versions = <<>>
    /\ Spend("edits")
    /\ versions' = <<Draft(content)>>
    /\ UNCHANGED <<schemas, eventActive, published, status, editor, overlapped, validated>>

-----------------------------------------------------------------------------
Loaded(e) == editor[e].versions[editor[e].version]

Ending(e, request) ==
    /\ editor[e].request = request
    /\ editor' = [editor EXCEPT ![e] = Idle]
    /\ UNCHANGED <<eventActive, status, overlapped, budget>>

(* Faulty: the verdict on the old content is kept. *)
EditedStillValidated(row, loaded, content) == [row EXCEPT !.content = content]

Edited(row, loaded, content) ==
    [state |-> Written(row.state, loaded.state, "draft"),
     content |-> Written(row.content, loaded.content, content),
     errors |-> Written(row.errors, loaded.errors, FALSE)]

CommitEdit(e) ==
    /\ Ending(e, "edit")
    /\ versions' = [versions EXCEPT
           ![editor[e].version] = Edited(@, Loaded(e), editor[e].argument)]
    /\ UNCHANGED <<schemas, published, validated>>

(* Faulty: only the sample data is checked. *)
PassesAlways(content, schema) == TRUE

(* What validate_template_content asks of the variables: each is declared. *)
(* Other checks, of the fields and the sample data, may fail as well.      *)
Passes(content, schema) == content \subseteq Declared(schema)

Judged(row, loaded, passes) ==
    [row EXCEPT !.errors = Written(row.errors, loaded.errors, ~passes),
                !.state = Written(row.state, loaded.state,
                                  IF passes THEN "validated" ELSE "draft")]

CommitValidate(e) ==
    \E passes \in BOOLEAN :
        /\ Ending(e, "validate")
        /\ passes => Passes(Loaded(e).content, schemas[editor[e].schema].schema)
        /\ versions' = [versions EXCEPT ![editor[e].version] = Judged(@, Loaded(e), passes)]
        /\ validated' = IF passes
                        THEN validated \cup {<<editor[e].version, Loaded(e).content>>}
                        ELSE validated
        /\ UNCHANGED <<schemas, published>>

(* Faulty: the version published so far is left alone. *)
PublishedBesides(e, v) ==
    [k \in DOMAIN versions |->
        IF k = v
        THEN [versions[k] EXCEPT !.state = Written(@, Loaded(e).state, "published")]
        ELSE versions[k]]

(* The version published when e began becomes DEPRECATED, v PUBLISHED. *)
Promoted(e, v) ==
    [k \in DOMAIN versions |->
        IF k = v
        THEN [versions[k] EXCEPT !.state = Written(@, Loaded(e).state, "published")]
        ELSE IF k = editor[e].published
        THEN [versions[k] EXCEPT
                 !.state = Written(@, editor[e].versions[k].state, "deprecated")]
        ELSE versions[k]]

(* publish and rollback differ in what they admit only. *)
CommitPublish(e) ==
    LET v == editor[e].version IN
    /\ Ending(e, "publish") \/ Ending(e, "rollback")
    /\ versions' = Promoted(e, v)
    /\ published' = Written(published, editor[e].published, v)
    /\ UNCHANGED <<schemas, validated>>

(* A version number that was taken meanwhile fails the request. *)
CommitNext(e) ==
    /\ Ending(e, "next")
    /\ versions' = IF Len(versions) = editor[e].version
                   THEN Append(versions, Draft(Loaded(e).content))
                   ELSE versions
    /\ UNCHANGED <<schemas, published, validated>>

CommitSchema(e) ==
    /\ Ending(e, "schema")
    /\ AddSchema(editor[e].schema, editor[e].argument.schema, editor[e].argument.mode)
    /\ UNCHANGED <<versions, published, validated>>

TransitionTemplate(to) ==
    /\ versions # <<>>
    /\ Spend("transitions")
    /\ status' = to
    /\ UNCHANGED <<schemas, eventActive, versions, published, editor, overlapped, validated>>

TransitionEvent ==
    /\ Spend("transitions")
    /\ DisableEvent
    /\ UNCHANGED templateVars

NewEvent(schema, mode) ==
    /\ Spend("edits")
    /\ CreateEvent(schema, mode)
    /\ UNCHANGED templateVars

-----------------------------------------------------------------------------
(* resolve_template finds the template. *)
TemplateResolvable ==
    /\ status = "active"
    /\ published # 0
    /\ versions[published].state = "published"

CatalogInit ==
    /\ eventActive = TRUE
    /\ status = "active"
    /\ editor = [e \in Editors |-> Idle]
    /\ overlapped = FALSE
    /\ \E schema \in budget.schemas, content \in Contents :
          IF budget.running
          THEN /\ content \subseteq Declared(schema)
               /\ schemas = <<[schema |-> schema, mode |-> "backward"]>>
               /\ versions = <<[Draft(content) EXCEPT !.state = "published"]>>
               /\ published = 1
               /\ validated = {<<1, content>>}
          ELSE schemas = <<>> /\ versions = <<>> /\ published = 0 /\ validated = {}

CatalogNext ==
    \/ \E e \in budget.editors :
          \/ \E v \in DOMAIN versions :
                \/ \E content \in Contents : BeginEdit(e, v, content)
                \/ BeginValidate(e, v) \/ BeginPublish(e, v) \/ BeginRollback(e, v)
          \/ BeginNext(e)
          \/ \E schema \in budget.schemas, mode \in Modes : BeginSchema(e, schema, mode)
          \/ CommitEdit(e) \/ CommitValidate(e) \/ CommitPublish(e)
          \/ CommitNext(e) \/ CommitSchema(e)
    \/ \E content \in Contents : CreateTemplate(content)
    \/ \E to \in {"disabled", "archived"} : TransitionTemplate(to)
    \/ TransitionEvent
    \/ \E schema \in budget.schemas, mode \in Modes : NewEvent(schema, mode)

-----------------------------------------------------------------------------
(* Data that was valid stays valid: through any chain of updates checked   *)
(* as backward compatible, each against its predecessor only, what an old  *)
(* version accepts every later one accepts - as far as data has declared   *)
(* properties only and none of them is left without a type on the way.     *)
SchemasStayCompatible ==
    \A i, j \in DOMAIN schemas :
        /\ i < j
        /\ \A k \in i + 1 .. j : schemas[k].mode \in {"backward", "full"}
        /\ \A k \in i .. j : \A name \in Declared(schemas[k].schema) :
              schemas[k].schema.type[name] # "any"
        => \A data \in Data :
              /\ DOMAIN data \subseteq Declared(schemas[i].schema)
              /\ Accepts(schemas[i].schema, data)
              => Accepts(schemas[j].schema, data)

(* What is or was published passed validation as it stands, and at most    *)
(* one version, the one the template names, is PUBLISHED.  Requests that   *)
(* overlap break both, against what the documentation says of publication; *)
(* a sequence of requests never does.                                      *)
PublishedIsValidated ==
    overlapped \/ \A v \in DOMAIN versions :
        versions[v].state \in {"published", "deprecated"}
            => <<v, versions[v].content>> \in validated

OnePublished ==
    overlapped \/ \A v \in DOMAIN versions :
        versions[v].state = "published" <=> v = published

(* The schema does not leave a published version behind: unless requests   *)
(* overlapped, or an update was not checked for backward compatibility,    *)
(* the variables of the published version are declared in the current      *)
(* schema, so that rendering finds them.                                   *)
PublishedIsRenderable ==
    \/ overlapped
    \/ \E k \in DOMAIN schemas : schemas[k].mode \in {"none", "forward"}
    \/ published = 0
    \/ versions[published].content \subseteq Declared(schemas[Current].schema)

(* Published template versions are immutable, as the documentation and the *)
(* answer of edit_template_version say: no step changes the content of a   *)
(* version that is or was published.                                       *)
PublishedIsImmutable ==
    [][\A v \in DOMAIN versions :
          versions[v].state \in {"published", "deprecated"}
              => versions'[v].content = versions[v].content]_versions

(* PublishedIsImmutable fails by one race only: the state is tested on the *)
(* loaded row, so a request that loaded the version before it was          *)
(* published still commits its content afterwards.  Nothing else - no      *)
(* validation, publication, rollback or later edit - ever changes content  *)
(* that is or was published.                                               *)
PublishedEditedOnlyByStaleEditor ==
    [][\A v \in DOMAIN versions :
          /\ versions[v].state \in {"published", "deprecated"}
          /\ versions'[v].content # versions[v].content
          => \E e \in Editors : /\ editor[e].request = "edit"
                                /\ editor[e].version = v
                                /\ Loaded(e).state \in {"draft", "validated"}]_versions
=============================================================================
