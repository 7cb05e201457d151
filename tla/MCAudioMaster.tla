----------------------------- MODULE MCAudioMaster -----------------------------
(***************************************************************************)
(* Scenarios for AudioMaster: the sources under a user and their backends, *)
(* then the LIGHT channel by itself.                                       *)
(***************************************************************************)
EXTENDS AudioMaster

Scenario(keyed, user, streams, keys, late) ==
    [keyed |-> keyed, user |-> user, streams |-> streams, keys |-> keys, late |-> late]

HouseScenarios ==
    {Scenario(Providers, 2, 3, 0, FALSE), Scenario(Providers, 1, 2, 0, TRUE),
     Scenario({CHOOSE p \in Providers : TRUE}, 2, 2, 0, TRUE),
     Scenario(Providers, 0, 0, 4, FALSE)}

================================================================================
