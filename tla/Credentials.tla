------------------------------ MODULE Credentials ------------------------------
(***************************************************************************)
(* The API keys of an application: api.py, and the test of a bearer key in *)
(* security.py (get_app_principal).  Requests are short and each is one    *)
(* step.                                                                   *)
(***************************************************************************)
EXTENDS Platform

VARIABLES
    credentials,  \* application_credentials, in the order of creation
    expired       \* the expiry date that clients choose has passed

credentialVars == <<credentials, expired>>

(* overlap: overlap_ends_at, as it compares with now; replaced:            *)
(* replaced_by_id is not NULL; expires: the key has that expiry date; of,  *)
(* history: the key this one descends from by rotation.                    *)
Credentials ==
    [revoked : BOOLEAN, replaced : BOOLEAN, overlap : {"none", "open", "ended"},
     expires : BOOLEAN, of : Nat]

Fresh(expires, of) ==
    [revoked |-> FALSE, replaced |-> FALSE, overlap |-> "none",
     expires |-> expires, of |-> of]

CredentialsTypeOK ==
    credentials \in Seq(Credentials) /\ expired \in BOOLEAN

Usable(c) ==
    /\ ~credentials[c].revoked
    /\ ~(credentials[c].replaced /\ credentials[c].overlap = "ended")
    /\ ~(credentials[c].expires /\ expired)

-----------------------------------------------------------------------------
CreateCredential(expires) ==
    /\ Spend("keys")
    /\ credentials' = Append(credentials, Fresh(expires, Len(credentials) + 1))
    /\ UNCHANGED expired

(* Faulty: rotating clears the mark of a revocation. *)
RotatedAfresh(row, overlap) ==
    [row EXCEPT !.replaced = TRUE, !.overlap = IF overlap THEN "open" ELSE "ended",
                !.revoked = ~overlap]

Rotated(row, overlap) ==
    [row EXCEPT !.replaced = TRUE, !.overlap = IF overlap THEN "open" ELSE "ended",
                !.revoked = @ \/ ~overlap]

(* Faulty: the new key never expires. *)
RotateForever(c, overlap) ==
    /\ Spend("keys")
    /\ credentials' = Append([credentials EXCEPT ![c] = Rotated(@, overlap)],
                             Fresh(FALSE, credentials[c].of))
    /\ UNCHANGED expired

(* overlap: overlap_seconds is not 0.  Whether the key still works is not  *)
(* asked.                                                                  *)
RotateCredential(c, overlap) ==
    /\ Spend("keys")
    /\ credentials' = Append([credentials EXCEPT ![c] = Rotated(@, overlap)],
                             Fresh(credentials[c].expires, credentials[c].of))
    /\ UNCHANGED expired

RevokeCredential(c) ==
    /\ Spend("keys")
    /\ credentials' = [credentials EXCEPT ![c].revoked = TRUE]
    /\ UNCHANGED expired

EndOverlap(c) ==
    /\ credentials[c].overlap = "open"
    /\ credentials' = [credentials EXCEPT ![c].overlap = "ended"]
    /\ UNCHANGED <<expired, budget>>

Expire ==
    /\ \E c \in DOMAIN credentials : credentials[c].expires
    /\ ~expired
    /\ expired' = TRUE
    /\ UNCHANGED <<credentials, budget>>

CredentialsInit ==
    /\ credentials = IF budget.running THEN <<Fresh(FALSE, 1)>> ELSE <<>>
    /\ expired = FALSE

CredentialsNext ==
    \/ \E expires \in BOOLEAN : CreateCredential(expires)
    \/ \E c \in DOMAIN credentials :
          \/ \E overlap \in BOOLEAN : RotateCredential(c, overlap)
          \/ RevokeCredential(c) \/ EndOverlap(c)
    \/ Expire

-----------------------------------------------------------------------------
(* A key that stopped working stays dead, but for one case: a key neither  *)
(* revoked nor expired, whose overlap has ended, works again when it is    *)
(* rotated once more with an overlap.                                      *)
DeadKeysReviveOnlyByRotation ==
    [][\A c \in DOMAIN credentials :
          ~Usable(c) /\ Usable(c)'
              => /\ ~credentials[c].revoked
                 /\ credentials[c].overlap = "ended"
                 /\ Len(credentials') = Len(credentials) + 1]_credentials

(* Rotating a chain of keys never extends the life it was given, and locks *)
(* nobody out: before that date, some key of the chain works unless one of *)
(* them was revoked.                                                       *)
RotationKeepsAccess ==
    \A c \in DOMAIN credentials :
        LET chain == {d \in DOMAIN credentials : credentials[d].of = credentials[c].of}
            newest == CHOOSE d \in chain : \A b \in chain : b <= d
        IN  IF credentials[c].expires /\ expired
            THEN \A d \in chain : ~Usable(d)
            ELSE Usable(newest) \/ credentials[newest].revoked
=============================================================================
