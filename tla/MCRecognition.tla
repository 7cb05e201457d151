--------------------------- MODULE MCRecognition ---------------------------
EXTENDS Recognition

Silence == <<"none", 0>>

(* A change of song on a disc, with numbers; one on a tape, with AcoustID and a failure;    *)
(* discs and sources that change; failures while a disc is played again, and while a source *)
(* takes over.                                                                              *)
SomeScenarios == {
    [changes |-> 1, starts |-> 1, stops |-> 0, faults |-> 0, key |-> FALSE, units |-> {"cd"}],
    [changes |-> 1, starts |-> 1, stops |-> 0, faults |-> 1, key |-> TRUE, units |-> {"tape"}],
    [changes |-> 0, starts |-> 3, stops |-> 2, faults |-> 0, key |-> FALSE, units |-> Sources],
    [changes |-> 0, starts |-> 2, stops |-> 1, faults |-> 1, key |-> FALSE, units |-> {"cd"}],
    [changes |-> 0, starts |-> 2, stops |-> 0, faults |-> 1, key |-> FALSE, units |-> Sources] }

================================================================================
