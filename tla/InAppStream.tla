----------------------------- MODULE InAppStream -----------------------------
(***************************************************************************)
(* The live inbox of in_app.py: the process-local hub and the SSE stream   *)
(* of a user.  The stream subscribes to the hub first and replays the      *)
(* stored notifications afterwards, so that what is created meanwhile      *)
(* waits in its queue.                                                     *)
(***************************************************************************)
EXTENDS InAppStore

CONSTANTS
    QueueSize,    \* asyncio.Queue(maxsize=100)
    ReplayLimit   \* the replay is a page of the inbox: limit=25

ASSUME QueueSizeAssumption == QueueSize \in Nat \ {0}
ASSUME ReplayLimitAssumption == ReplayLimit \in Nat \ {0}

VARIABLE stream

streamVars == <<stream>>

(* last: what the client would send as Last-Event-ID, 0 when that is the   *)
(* id of a heartbeat, which every notification id compares greater to.     *)
(* shown: the notifications the client has received, over all connections. *)
(* waived: those this connection need not show: lost or skipped.           *)
Streams == [stage : {"closed", "subscribed", "live"}, queue : Seq(Notifications),
            last : Nat, shown : SUBSET Notifications, waived : SUBSET Notifications]

StreamTypeOK ==
    /\ stream \in [Users -> Streams]
    /\ \A u \in Users : Len(stream[u].queue) <= QueueSize

StreamInit ==
    stream = [u \in Users |-> [stage |-> "closed", queue |-> <<>>, last |-> 0,
                               shown |-> {}, waived |-> {}]]

-----------------------------------------------------------------------------
(* Faulty: the subscription comes after the replay. *)
ListeningOnceLive(u) == stream[u].stage = "live"

Listening(u) == stream[u].stage # "closed"

(* Faulty: one event too many. *)
FullBeyond(u) == Len(stream[u].queue) > QueueSize

Full(u) == Len(stream[u].queue) = QueueSize

(* LocalInAppHub.publish: a full queue drops the event. *)
Offer(u, n) ==
    IF ~Listening(u) THEN stream[u]
    ELSE IF Full(u) THEN [stream[u] EXCEPT !.waived = @ \cup {n}]
    ELSE [stream[u] EXCEPT !.queue = Append(@, n)]

(* Faulty: the subscribers of the whole application get the event. *)
PublishToAll(users, n) == stream' = [u \in Users |-> Offer(u, n)]

Publish(users, n) ==
    stream' = [u \in Users |-> IF u \in users THEN Offer(u, n) ELSE stream[u]]

(* Nobody in this process hears of n. *)
PublishElsewhere(n) ==
    stream' = [u \in Users |-> [stream[u] EXCEPT
                  !.waived = IF Listening(u) THEN @ \cup {n} ELSE @]]

-----------------------------------------------------------------------------
(* recipient_visibility and active_filter. *)
Visible(n, u) == {t \in {u, Everyone} : recipient[n][t] # None}

Active(u) ==
    {n \in Notifications : \E t \in Visible(n, u) : ~recipient[n][t].dismissed}

(* unpublished: the notifications whose transactions have published to the *)
(* hub already, but are not committed: neither queue nor replay has them.  *)
Connect(u, unpublished) ==
    /\ stream[u].stage = "closed"
    /\ Spend("connects")
    /\ stream' = [stream EXCEPT ![u].stage = "subscribed", ![u].queue = <<>>,
                                ![u].waived = unpublished]
    /\ UNCHANGED <<deliveryRows, inboxRows, disturbed>>

(* list_in_app_notifications: its first page.  The rows are ordered by     *)
(* priority and age, which are left out: any of them may be on it.         *)
Pages(u) ==
    IF Cardinality(Active(u)) <= ReplayLimit THEN {Active(u)}
    ELSE {page \in SUBSET Active(u) : Cardinality(page) = ReplayLimit}

(* The ids are compared as strings. *)
Replayed(u, page) == {n \in page : n > stream[u].last}

(* Any of those that are sent may be the last. *)
Replay(u) ==
    /\ stream[u].stage = "subscribed"
    /\ \E page \in Pages(u) :
          LET replayed == Replayed(u, page)
          IN  \E id \in IF replayed = {} THEN {0} ELSE replayed :
                 stream' = [stream EXCEPT
                     ![u].stage = "live", ![u].last = id,
                     ![u].shown = @ \cup replayed,
                     ![u].waived = @ \cup (Active(u) \ replayed)]
    /\ UNCHANGED storeVars

Show(u) ==
    /\ stream[u].stage = "live"
    /\ stream[u].queue # <<>>
    /\ stream' = [stream EXCEPT
           ![u].queue = Tail(@), ![u].last = Head(stream[u].queue),
           ![u].shown = @ \cup {Head(stream[u].queue)}]
    /\ UNCHANGED storeVars

(* queue.get() times out; the heartbeat carries an id of its own. *)
Heartbeat(u) ==
    /\ stream[u].stage = "live"
    /\ stream[u].queue = <<>>
    /\ stream[u].last # 0
    /\ stream' = [stream EXCEPT ![u].last = 0]
    /\ UNCHANGED storeVars

(* The finally block: unsubscribe, delete the connection row. *)
Disconnect(u) ==
    /\ stream[u].stage # "closed"
    /\ stream' = [stream EXCEPT ![u].stage = "closed", ![u].queue = <<>>, ![u].waived = {}]
    /\ UNCHANGED storeVars

StreamNext == \E u \in Users : Replay(u) \/ Show(u) \/ Heartbeat(u) \/ Disconnect(u)
=============================================================================
