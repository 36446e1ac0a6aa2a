---------------------------- MODULE MCInAppSystem ----------------------------
(***************************************************************************)
(* Model checking of InAppSystem.  Each behaviour follows one of five      *)
(* scenarios: faults without clients; streams that reconnect while workers *)
(* deliver, or lose a worker; concurrent requests, and requests under a    *)
(* stream.                                                                 *)
(***************************************************************************)
EXTENDS InAppSystem

CONSTANTS u1, u2

MCUsers == {u1, u2}

Plain == [key |-> None, content |-> "a", targets |-> {u1}, flaw |-> "none"]
Keyed1 == [Plain EXCEPT !.key = "key"]
Keyed2 == [Keyed1 EXCEPT !.content = "b"]
Broadcast == [Plain EXCEPT !.targets = {Everyone}]
Flawed(flaw) == [Keyed1 EXCEPT !.flaw = flaw]

Scenario(bodies, submissions, disturbances, connects, requests) ==
    [bodies |-> bodies, submissions |-> submissions, disturbances |-> disturbances,
     connects |-> connects, requests |-> requests]

Flaws == {"content", "recipient", "repeated id"}

MCScenarios ==
    {Scenario({Keyed1, Keyed2} \cup {Flawed(f) : f \in Flaws}, 2, 1, 0, 0),
     Scenario({Plain, Broadcast}, 2, 0, 2, 0),
     Scenario({Plain}, 1, 1, 1, 0),
     Scenario({Plain, Broadcast}, 1, 0, 0, 2),
     Scenario({Plain}, 1, 0, 1, 1)}
=============================================================================
