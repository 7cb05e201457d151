----------------------------- MODULE AdcArbiter -----------------------------
(***************************************************************************)
(* What the protocol of core/adc.py promises about the bus listener: the   *)
(* turntable's claim takes the ADC away from it in the middle of whatever  *)
(* it records, and it does not come back before the claim is returned.     *)
(***************************************************************************)

VARIABLES
    listening,  \* the listener records from the ADC
    claimed     \* the turntable has asked for it

Init == listening = FALSE /\ claimed = FALSE

ListenerTakes ==
    /\ ~claimed /\ ~listening
    /\ listening' = TRUE
    /\ UNCHANGED claimed

ListenerLeaves ==
    /\ listening
    /\ listening' = FALSE
    /\ UNCHANGED claimed

\* Once turntable_start() returns, the listener has let go.
TurntableClaims ==
    /\ ~claimed
    /\ claimed' = TRUE
    /\ listening' = FALSE

TurntableReturns ==
    /\ claimed
    /\ claimed' = FALSE
    /\ UNCHANGED listening

Next == ListenerTakes \/ ListenerLeaves \/ TurntableClaims \/ TurntableReturns

Spec == Init /\ [][Next]_<<listening, claimed>>

=============================================================================
