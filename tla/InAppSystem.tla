----------------------------- MODULE InAppSystem -----------------------------
(***************************************************************************)
(* In-app delivery as a whole: delivery workers, the live streams of users *)
(* and their inbox requests on the shared rows.                            *)
(***************************************************************************)
EXTENDS InAppDelivery, InAppInbox

vars == <<storeVars, stream, worker, session>>

InAppTypeOK == StoreTypeOK /\ StreamTypeOK /\ DeliveryTypeOK /\ InboxTypeOK

Init == StoreInit /\ StreamInit /\ DeliveryInit /\ InboxInit

Accepting(n) == Accept(n) /\ UNCHANGED <<stream, worker, session>>

Driving(n) ==
    /\ Reconcile(n) \/ Repeat(n) \/ RetryNotification(n)
    /\ UNCHANGED <<stream, worker, session>>

Connecting(u) ==
    /\ Connect(u, {n \in Notifications : Uncommitted(n)})
    /\ UNCHANGED <<worker, session>>

Next ==
    \/ \E n \in Notifications : Accepting(n) \/ Driving(n)
    \/ DeliveryNext /\ UNCHANGED session
    \/ \E u \in Users : Connecting(u)
    \/ StreamNext /\ UNCHANGED <<worker, session>>
    \/ InboxNext /\ UNCHANGED worker

Spec == Init /\ [][Next]_vars

(* Tasks go on, messages are consumed, leases run out and the reconciler   *)
(* finds them; nothing is assumed of clients.                              *)
Fairness ==
    /\ \A w \in Workers, n \in Notifications :
          /\ SF_vars((Load(w, n) \/ Discard(w, n)) /\ UNCHANGED session)
          /\ WF_vars(Processing(w) /\ UNCHANGED session)
    /\ \A n \in Notifications :
          /\ WF_vars(ExpireLease(n) /\ UNCHANGED session)
          /\ WF_vars(Reconcile(n) /\ UNCHANGED <<stream, worker, session>>)

LiveSpec == Spec /\ Fairness

-----------------------------------------------------------------------------
(* However often a notification is processed, and whoever else carries its *)
(* deduplication key, the inbox gets one row of it and one row of the key: *)
(* a second insert of the same source is undone by the attempt it cannot   *)
(* record.                                                                 *)
OneInAppRow ==
    /\ \A n \in Notifications : inApp[n] <= 1
    /\ \A key \in {row[n].body.key : n \in {m \in Notifications : inApp[m] > 0}} \ {None} :
          Cardinality(Keyed(key)) <= 1

(* The one delivery attempt tells what became of a notification for good:  *)
(* DELIVERED stands on a delivered attempt and an inbox row, and after a   *)
(* failed attempt no operator retry ever puts it in front of a user.       *)
AttemptTellsOutcome ==
    \A n \in Notifications :
        /\ row[n].status = "delivered" => attempt[n] = "delivered" /\ inApp[n] = 1
        /\ attempt[n] = "failed" => \A t \in Recipients : recipient[n][t] = None

(* PROCESSING without a lease, which no reconciler ever finds, is only     *)
(* left behind by the answer to a duplicate: another notification with the *)
(* same deduplication key and content is in the inbox.                     *)
UnleasedProcessingIsDuplicate ==
    \A n \in Notifications :
        row[n].status = "processing" /\ row[n].lease = "none"
            => \E m \in Notifications \ {n} :
                  /\ inApp[m] > 0
                  /\ row[m].body.key = row[n].body.key
                  /\ Fingerprint(row[m].body) = Fingerprint(row[n].body)

(* What the operations guide says: a notification that is stuck in         *)
(* PROCESSING is one the reconciler recovers.                              *)
StuckIsRecoverable ==
    \A n \in Notifications : row[n].status = "processing" => row[n].lease # "none"

(* Concurrent acknowledgements of a recipient read the same counter; they  *)
(* may share a number, but leave no gap, and the counter never leaves the  *)
(* numbers that were given.                                                *)
AckNumbersGapless ==
    \A n \in Notifications, t \in Recipients :
        /\ acks[n][t] = 1 .. Cardinality(acks[n][t])
        /\ recipient[n][t] # None /\ acks[n][t] # {} => recipient[n][t].count \in acks[n][t]

(* A client only ever shows what is addressed to its user and stored, or   *)
(* is about to be: an event published before the commit is a phantom only  *)
(* where a crash or a second delivery undid the transaction.               *)
ShownBelongsToUser ==
    \A u \in Users : \A n \in stream[u].shown :
        \/ Visible(n, u) # {}
        \/ \E w \in Workers : /\ worker[w].of = n
                              /\ worker[w].stage = "inserted"
                              /\ u \in worker[w].picked
        \/ disturbed

(* Subscribing before the replay leaves no gap between the two: of the     *)
(* active notifications addressed to its user by id, a live stream shows   *)
(* or will show every one that was delivered after it subscribed and every *)
(* one that its replay sent.  The rest is exempt: what was published       *)
(* before it subscribed and committed after its replay, published in       *)
(* another process or dropped by a full queue, what is not among the first *)
(* 25 rows of the inbox, and what the replay skips because its id is not   *)
(* greater than Last-Event-ID.  (A broadcast only ever comes with a        *)
(* replay.)                                                                *)
NothingMissedWhileLive ==
    \A u \in Users :
        stream[u].stage = "live"
            => \A n \in Active(u) :
                  \/ n \in stream[u].shown \cup stream[u].waived
                  \/ \E i \in DOMAIN stream[u].queue : stream[u].queue[i] = n
                  \/ recipient[n][u] = None

(* What the implementation matrix says of a reconnect: the stream replays  *)
(* what is unread or was missed - all of it, but for what is still queued  *)
(* for the new connection.                                                 *)
MissedIsReplayed ==
    [][\A u \in Users :
          stream[u].stage = "subscribed" /\ stream'[u].stage = "live"
              => \A n \in Notifications, t \in Recipients :
                    t \in Visible(n, u) /\ ~recipient[n][t].read /\ ~recipient[n][t].dismissed
                        => \/ n \in stream'[u].shown
                           \/ \E i \in DOMAIN stream'[u].queue :
                                 stream'[u].queue[i] = n]_stream

=============================================================================
