---------------------------- MODULE MCMultiSource ----------------------------
(***************************************************************************)
(* A source byte with two players behind it: people who start and stop     *)
(* them, and calls that are lost.                                          *)
(***************************************************************************)
EXTENDS MultiSource

CONSTANTS air, spin, Scenarios

ConfiguredOrder == <<air, spin>>

Scenario(persons, lost) == [people |-> persons, losses |-> lost]

HouseScenarios == {Scenario(3, 0), Scenario(2, 1)}

\* Two people, one after the other.
SwitchScenarios == {Scenario(2, 0)}

MultiStarts == \E s \in Scenarios : MultiInit /\ people = s.people /\ losses = s.losses

MultiSpec == MultiStarts /\ [][MultiNext]_multiVars /\ MultiFairness

================================================================================
