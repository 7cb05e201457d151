----------------------------- MODULE MCGateway -----------------------------
EXTENDS GatewaySystem

\* The second one after an address was forgotten.
TwoFiles == {<<3, 192>>, <<192, NoAddress>>}

ThreeSettings == {"off", "listen only", "full"}

\* A link room releases to itself, and everything; a master reports its source, forwards a
\* key; a real MLGW sends one; one is short.
DeviceTelegrams == { <<AddrAll, 3, KeyRelease, 0>>, <<192, 3, KeyRelease, 0>>,
                     <<3, 3, GotoSource, 141>>, <<AddrMlgw, 192, SourceStatus, 141>>,
                     <<3, 192, SourceStatus, 141>>, <<AddrMlgw, 192, VirtualBeo4, 88>>,
                     <<AddrMlgw, 192, PictSound, 0>>, <<192, AddrMlgw, VirtualBeo4, 88>>,
                     <<192, 3, 1>> }

BridgeTelegrams == { <<AddrAll, 1, KeyRelease, 0>> }

SpoiledBytes == {<<AddrAll>>, Sync1, <<8>>}

None == [telegrams |-> 0, own |-> 0, saves |-> 0, drops |-> 0, logins |-> 1, faults |-> 0,
         learns |-> FALSE,
         settings |-> {"full"}]

(* Telegrams on a line that spoils a byte; Home Assistant learns, twice, while a device or   *)
(* the Pi sends or the configuration changes; two saves at a time and a lost connection, or *)
(* a file that cannot be read.                                                              *)
SomeScenarios == {
    [None EXCEPT !.telegrams = 3],
    [None EXCEPT !.telegrams = 2, !.faults = 1],
    [None EXCEPT !.telegrams = 1, !.own = 1, !.faults = 1],
    [None EXCEPT !.logins = 2, !.learns = TRUE, !.telegrams = 1],
    [None EXCEPT !.logins = 2, !.learns = TRUE, !.own = 1],
    [None EXCEPT !.logins = 2, !.learns = TRUE, !.saves = 1, !.settings = {"full", "listen only"}],
    [None EXCEPT !.logins = 0, !.saves = 3, !.drops = 1],
    [None EXCEPT !.logins = 1, !.saves = 2, !.faults = 1] }

================================================================================
