---------------------------- MODULE MCControlPlane ----------------------------
(***************************************************************************)
(* Model checking of ControlPlane.  Each behaviour follows one scenario:   *)
(* one part of the API alone, from an empty platform or from one set up    *)
(* for sending, or admission while a few requests change what it reads.    *)
(***************************************************************************)
EXTENDS ControlPlane, TLC

CONSTANTS e1, e2, s1, s2, k1, k2, k3, k4

(* Of scenarios that differ in the names of their editors, one is there. *)
Symmetry == Permutations({e1, e2}) \cup Permutations({s1, s2})

Schema(required, type) == [required |-> required, type |-> type]

First == Schema({"a"}, [a |-> "string"])

MCCandidates ==
    {First,
     Schema({"a"}, [a |-> "string", b |-> "any"]),
     Schema({}, [a |-> "string", b |-> "integer"]),
     Schema({"b"}, [b |-> "string"]),
     Schema({"a"}, [a |-> "integer"])}

MCContents == {{"a"}, {"b"}}

Body(data) == [data |-> data, deliverable |-> TRUE]
Plain == Body([a |-> "string"])
Other == Body([a |-> "string", b |-> "integer"])
Undeliverable == [Plain EXCEPT !.deliverable = FALSE]

MCBodies == {Plain, Other, Undeliverable}

Quiet ==
    [edits |-> 0, transitions |-> 0, configs |-> 0, keys |-> 0, submissions |-> 0,
     editors |-> {e1}, schemas |-> {First}, requested |-> {}, bodies |-> {}, running |-> TRUE,
     paired |-> FALSE]

MCScenarios ==
    {[Quiet EXCEPT !.edits = 4, !.schemas = MCCandidates, !.running = FALSE],
     [Quiet EXCEPT !.edits = 3, !.schemas = MCCandidates],
     [Quiet EXCEPT !.edits = 5],
     [Quiet EXCEPT !.edits = 4, !.editors = {e1, e2}],
     [Quiet EXCEPT !.edits = 2, !.editors = {e1, e2}, !.schemas = MCCandidates],
     [Quiet EXCEPT !.configs = 4, !.running = FALSE],
     [Quiet EXCEPT !.configs = 2, !.editors = {e1, e2}, !.running = FALSE],
     [Quiet EXCEPT !.configs = 3, !.editors = {e1, e2}],
     [Quiet EXCEPT !.configs = 2, !.editors = {e1, e2}, !.running = FALSE, !.paired = TRUE],
     [Quiet EXCEPT !.keys = 4, !.running = FALSE],
     [Quiet EXCEPT !.submissions = 4, !.requested = {k1, k2, k3, k4}, !.bodies = {Plain}],
     [Quiet EXCEPT !.submissions = 3, !.requested = {k1, k2}, !.bodies = MCBodies],
     [Quiet EXCEPT !.submissions = 2, !.requested = {k1}, !.bodies = {Plain},
                   !.transitions = 1, !.configs = 1, !.keys = 1]}
=============================================================================
