----------------------------- MODULE MCProviders -----------------------------
(***************************************************************************)
(* Players behind one source, and the turntable, which is a source of its  *)
(* own: the two share no state, so a behaviour moves one of them.          *)
(***************************************************************************)
EXTENDS MCMultiSource, MCTurntable

VARIABLE moving     \* which of the two

vars == <<multiVars, deckVars, moving>>

OfPlayers(A) == moving = "players" /\ A /\ UNCHANGED <<deckVars, moving>>
OfTurntable(A) == moving = "turntable" /\ A /\ UNCHANGED <<multiVars, moving>>

Init ==
    /\ \/ moving = "players" /\ MultiStarts
       \/ moving = "turntable" /\ MultiInit /\ people = 0 /\ losses = 0
    /\ DeckStarts

Next == OfPlayers(MultiNext) \/ OfTurntable(TurntableNext)

\* MultiFairness and TurntableFairness, of the one that moves.
Fairness ==
    /\ \A c \in Callers : WF_vars(OfPlayers(Sweeping(c)))
    /\ WF_vars(OfPlayers(FanOut \/ Skip))
    /\ WF_vars(OfPlayers(Background))
    /\ WF_vars(OfTurntable(BusThread))
    /\ WF_vars(OfTurntable(SnoopThread))
    /\ WF_vars(OfTurntable(Begins))
    /\ WF_vars(OfTurntable(TimePasses))

Spec == Init /\ [][Next]_vars /\ Fairness

================================================================================
