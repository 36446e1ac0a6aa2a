------------------------- MODULE MCNotificationSystem -------------------------
(***************************************************************************)
(* Model checking of NotificationSystem: the symmetry of interchangeable   *)
(* workers, publishers and sessions for the safety runs, and the part of   *)
(* the states that the run clients_and_publishers explores.                *)
(***************************************************************************)
EXTENDS NotificationSystem, TLC

ActorSymmetry ==
    Permutations(Workers) \cup Permutations(Publishers) \cup Permutations(Sessions)

(* Clients and providers act on one notification, one publisher at a time, *)
(* as long as no scheduled notification is submitted: up to three outbox   *)
(* rows, one of the submission and two of retries and replays.             *)
ClientsOnOne ==
    /\ \A n \in Notifications : Len(outbox[n]) <= 3
    /\ \A n \in Scheduled : notif[n].status = "absent"
    /\ \A p, q \in Publishers :
          publisher[p] # IdlePublisher /\ publisher[q] # IdlePublisher => p = q

(* From then on publishers compete for the first row of each notification, *)
(* without requests or callbacks.                                          *)
PublishersCompete ==
    /\ \A n \in Scheduled : notif[n].status # "absent"
    /\ \A n \in Notifications : events[n] = {} /\ Len(outbox[n]) <= 1
    /\ \A s \in Sessions : session[s] = IdleSession
    /\ faults.operations = 0

OneQuestion == ClientsOnOne \/ PublishersCompete
=============================================================================
