------------------------------ MODULE AttemptLog ------------------------------
(***************************************************************************)
(* What delivery promises about provider calls, whatever the leases,       *)
(* messages and statuses do: a log of attempts per notification that only  *)
(* grows, by the next number, and only by the caller that made the call.   *)
(* A caller may forget its call - it crashed, or the number was taken - so *)
(* a provider can have accepted more than the log says, never less.        *)
(***************************************************************************)
EXTENDS Integers, FiniteSets

CONSTANTS Notifications, Callers, Answers, None

VARIABLES log, calls, accepted

vars == <<log, calls, accepted>>

NoCall == [target |-> None, answer |-> "none"]

Init ==
    /\ log = [n \in Notifications |-> {}]
    /\ calls = [c \in Callers |-> NoCall]
    /\ accepted = [n \in Notifications |-> 0]

Call(c, n) ==
    /\ calls[c] = NoCall
    /\ calls' = [calls EXCEPT ![c] = [target |-> n, answer |-> "none"]]
    /\ UNCHANGED <<log, accepted>>

(* An accepted call may look like a retryable failure to its caller. *)
Answer(c, answer) ==
    LET n == calls[c].target
    IN  /\ n # None /\ calls[c].answer = "none"
        /\ calls' = [calls EXCEPT ![c].answer = answer]
        /\ \/ answer = "accepted" /\ accepted' = [accepted EXCEPT ![n] = @ + 1]
           \/ answer = "retryable" /\ accepted' = [accepted EXCEPT ![n] = @ + 1]
           \/ answer # "accepted" /\ UNCHANGED accepted
        /\ UNCHANGED log

Record(c) ==
    LET n == calls[c].target
    IN  /\ n # None /\ calls[c].answer # "none"
        /\ log' = [log EXCEPT ![n] =
               @ \cup {[number |-> Cardinality(@) + 1, result |-> calls[c].answer]}]
        /\ calls' = [calls EXCEPT ![c] = NoCall]
        /\ UNCHANGED accepted

Forget(c) ==
    /\ calls[c] # NoCall
    /\ calls' = [calls EXCEPT ![c] = NoCall]
    /\ UNCHANGED <<log, accepted>>

Next ==
    \E c \in Callers :
        \/ \E n \in Notifications : Call(c, n)
        \/ \E answer \in Answers : Answer(c, answer)
        \/ Record(c)
        \/ Forget(c)

Spec == Init /\ [][Next]_vars
=============================================================================
