----------------------------- MODULE ControlPlane -----------------------------
(***************************************************************************)
(* The management API and the admission of notifications on the rows they  *)
(* share.                                                                  *)
(***************************************************************************)
EXTENDS Admission

vars == <<budget, catalogVars, providerVars, credentialVars, admissionVars>>

ControlPlaneTypeOK ==
    /\ SchemasTypeOK
    /\ TemplateTypeOK
    /\ ProvidersTypeOK
    /\ CredentialsTypeOK
    /\ AdmissionTypeOK

Init ==
    /\ PlatformInit
    /\ CatalogInit
    /\ ProvidersInit
    /\ CredentialsInit
    /\ AdmissionInit

Next ==
    \/ CatalogNext /\ UNCHANGED <<providerVars, credentialVars, admissionVars>>
    \/ ProvidersNext /\ UNCHANGED <<catalogVars, credentialVars, admissionVars>>
    \/ CredentialsNext /\ UNCHANGED <<catalogVars, providerVars, admissionVars>>
    \/ AdmissionNext /\ UNCHANGED <<catalogVars, providerVars, credentialVars>>

Spec == Init /\ [][Next]_vars
=============================================================================
