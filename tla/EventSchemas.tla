----------------------------- MODULE EventSchemas -----------------------------
(***************************************************************************)
(* The schema versions of an event and their compatibility check (api.py). *)
(* A schema gives its declared properties a type, or "any" where the JSON  *)
(* schema has none, and requires some of them; undeclared properties of a  *)
(* notification's data are not restricted.                                 *)
(***************************************************************************)
EXTENDS Platform

CONSTANTS
    Names,     \* property names
    Candidates \* the schemas clients try

Types == {"string", "integer"}

Modes == {"none", "backward", "forward", "full"}

Schemas == UNION {[required : SUBSET Names, type : [declared -> Types \cup {"any"}]] :
                     declared \in SUBSET Names}

ASSUME CandidatesAssumption == Candidates \subseteq Schemas

VARIABLES
    schemas,      \* its event_schema_versions, by version
    eventActive

(* The number of the current version: two updates that add the same one    *)
(* meet the unique constraint on (event_id, version), so that              *)
(* current_schema_version is always the last.                              *)
Current == Len(schemas)

SchemasTypeOK ==
    /\ schemas \in Seq([schema : Candidates, mode : Modes])
    /\ eventActive \in BOOLEAN

-----------------------------------------------------------------------------
Declared(schema) == DOMAIN schema.type

ChangedType(previous, candidate) ==
    {name \in Declared(previous) \cap Declared(candidate) :
        /\ previous.type[name] # candidate.type[name]
        /\ "any" \notin {previous.type[name], candidate.type[name]}}

(* Faulty: the types are only compared for the mode "full". *)
CompatibleButTypes(previous, candidate, mode) ==
    \/ mode = "none"
    \/ /\ mode \in {"backward", "full"}
             => /\ candidate.required \subseteq previous.required
                /\ Declared(previous) \subseteq Declared(candidate)
       /\ mode \in {"forward", "full"} => previous.required \subseteq candidate.required
       /\ mode = "full" => ChangedType(previous, candidate) = {}

(* compatibility_errors is empty. *)
Compatible(previous, candidate, mode) ==
    \/ mode = "none"
    \/ /\ mode \in {"backward", "full"}
             => /\ candidate.required \subseteq previous.required
                /\ Declared(previous) \subseteq Declared(candidate)
       /\ mode \in {"forward", "full"} => previous.required \subseteq candidate.required
       /\ ChangedType(previous, candidate) = {}

Data == UNION {[given -> Types] : given \in SUBSET Names}

(* Draft202012Validator(schema).validate(data). *)
Accepts(schema, data) ==
    /\ schema.required \subseteq DOMAIN data
    /\ \A name \in DOMAIN data \cap Declared(schema) :
          schema.type[name] \in {"any", data[name]}

-----------------------------------------------------------------------------
CreateEvent(schema, mode) ==
    /\ schemas = <<>>
    /\ schemas' = <<[schema |-> schema, mode |-> mode]>>
    /\ eventActive' = TRUE

(* The check of update_event against the version it has loaded. *)
UpdateAdmitted(schema, mode) ==
    schemas # <<>> /\ Compatible(schemas[Current].schema, schema, mode)

(* Its commit; seen is the number of the current version it has loaded.    *)
AddSchema(seen, schema, mode) ==
    IF Current = seen
    THEN schemas' = Append(schemas, [schema |-> schema, mode |-> mode])
    ELSE UNCHANGED schemas

DisableEvent ==
    /\ eventActive
    /\ eventActive' = FALSE
    /\ UNCHANGED schemas
=============================================================================
