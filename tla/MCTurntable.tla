----------------------------- MODULE MCTurntable -----------------------------
(***************************************************************************)
(* The turntable behind the bridge, with a bound on what people press and  *)
(* on the messages redis refuses.                                          *)
(***************************************************************************)
EXTENDS Turntable

CONSTANTS Presses, Refusals

ASSUME PressesAssumption == {Presses, Refusals} \subseteq Nat

DeckStarts == TurntableInit /\ presses = Presses /\ errors = Refusals

DeckSpec == DeckStarts /\ [][TurntableNext]_deckVars /\ TurntableFairness

================================================================================
