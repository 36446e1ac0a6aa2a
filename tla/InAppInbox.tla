------------------------------ MODULE InAppInbox ------------------------------
(***************************************************************************)
(* The inbox requests of users (in_app.py): acknowledge, read, unread,     *)
(* dismiss, read-all and preferences.  Each but the last is a session that *)
(* loads recipient rows, and in a second step commits the columns it       *)
(* changed and publishes the notification to the streams of its user.      *)
(***************************************************************************)
EXTENDS InAppStream

CONSTANT Sessions   \* concurrent requests

VARIABLE session

Requests == AckStatuses \cup {"read", "unread", "dismiss"}

(* of: the recipient rows <<notification, recipient>> that were loaded. *)
SessionStates == [request : Requests \cup {"read-all", "none"}, user : Users \cup {None},
                  of : SUBSET (Notifications \X Recipients),
                  loaded : RecipientRows]

IdleSession == [request |-> "none", user |-> None, of |-> {}, loaded |-> NewRecipient]

InboxTypeOK == session \in [Sessions -> SessionStates]

InboxInit == session = [s \in Sessions |-> IdleSession]

Start(s, request, u, of, loaded) ==
    /\ session[s].request = "none"
    /\ Spend("requests")
    /\ session' = [session EXCEPT ![s] =
           [request |-> request, user |-> u, of |-> of, loaded |-> loaded]]
    /\ UNCHANGED <<deliveryRows, inboxRows, disturbed, stream>>

(* find_visible_recipient: dismissed notifications are found as well.      *)
BeginRequest(s, request, u, n) ==
    \E t \in Visible(n, u) : Start(s, request, u, {<<n, t>>}, recipient[n][t])

BeginReadAll(s, u) ==
    Start(s, "read-all", u,
          {r \in Notifications \X {u, Everyone} :
              /\ r[2] \in Visible(r[1], u)
              /\ ~recipient[r[1]][r[2]].dismissed /\ ~recipient[r[1]][r[2]].read},
          NewRecipient)

-----------------------------------------------------------------------------
(* What the columns become; `or now` keeps a timestamp that is set. *)
Changed(r, request, loaded) ==
    CASE request \in AckStatuses ->
           [r EXCEPT !.reached = @ \cup {request},
                     !.read = @ \/ (request = "opened" /\ ~loaded.read),
                     !.status = IF loaded.status = request THEN @ ELSE request,
                     !.count = loaded.count + 1]
      [] request \in {"read", "read-all"} -> [r EXCEPT !.read = TRUE]
      [] request = "unread" -> [r EXCEPT !.read = @ /\ ~loaded.read]
      [] request = "dismiss" -> [r EXCEPT !.dismissed = TRUE]

(* Faulty: the first attempt row of the stream is counted, too. *)
AckNumberAfterFirst(loaded) == loaded.count + 2

AckNumber(loaded) == loaded.count + 1

Commit(s) ==
    LET request == session[s].request
        loaded == session[s].loaded
    IN  /\ request # "none"
        /\ recipient' = [n \in Notifications |-> [t \in Recipients |->
               IF <<n, t>> \in session[s].of
               THEN Changed(recipient[n][t], request, loaded)
               ELSE recipient[n][t]]]
        /\ acks' = [n \in Notifications |-> [t \in Recipients |->
               IF <<n, t>> \in session[s].of /\ request \in AckStatuses
               THEN acks[n][t] \cup {AckNumber(loaded)}
               ELSE acks[n][t]]]
        /\ IF request \in AckStatuses \cup {"read", "unread"}
           THEN \E r \in session[s].of : Publish({session[s].user}, r[1])
           ELSE UNCHANGED stream
        /\ session' = [session EXCEPT ![s] = IdleSession]
        /\ UNCHANGED <<deliveryRows, preference, budget, disturbed>>

(* One row per user and event key: a lookup and an insert or update. *)
UpdatePreference(u, key, enabled) ==
    /\ Spend("requests")
    /\ preference' = [preference EXCEPT ![u][key] = enabled]
    /\ UNCHANGED <<deliveryRows, recipient, acks, disturbed, stream, session>>

InboxNext ==
    \/ \E s \in Sessions :
          \/ \E u \in Users :
                \/ \E n \in Notifications, request \in Requests : BeginRequest(s, request, u, n)
                \/ BeginReadAll(s, u)
          \/ Commit(s)
    \/ \E u \in Users, key \in EventKeys, enabled \in {"allow", "deny"} :
          UpdatePreference(u, key, enabled)
=============================================================================
