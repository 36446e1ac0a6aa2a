------------------------------- MODULE Platform -------------------------------
(***************************************************************************)
(* What the models of the management API have in common.  Requests are     *)
(* bounded by a scenario: how many of each kind a behaviour may contain,   *)
(* and whether it starts with a platform that is set up for sending.       *)
(***************************************************************************)
EXTENDS Integers, FiniteSets, Sequences

CONSTANTS
    None,
    Editors,    \* concurrent requests of administrators
    Scenarios   \* records of bounds: by kind of request, the number of
                \* editors at work, and running, paired : BOOLEAN, what is set
                \* up when it starts

VARIABLE budget

PlatformInit == budget \in Scenarios

Spend(what) ==
    /\ budget[what] > 0
    /\ budget' = [budget EXCEPT ![what] = @ - 1]

(* SQLAlchemy writes a column only where it differs from the row loaded. *)
Written(column, loaded, value) == IF value = loaded THEN column ELSE value
=============================================================================
