------------------------- MODULE StateTrackerProofs -------------------------
(***************************************************************************)
(* Theorems of StateTracker, for any masters, links, sources, sweep        *)
(* threads and bounds.                                                     *)
(***************************************************************************)
EXTENDS StateTracker, FiniteSetTheorems, SequenceTheorems, TLAPS

USE TrackerAssumption

-----------------------------------------------------------------------------
(***************************************************************************)
(* Sweeps are single-flight.  A thread between its entry and its departure *)
(* is the holder of the gate.                                              *)
(***************************************************************************)

Sweeping(w) == sweep[w].at \in {"probe", "publish", "leave"}

SweepStates ==
    [at : {"none", "spawned", "probe", "publish", "leave"}, sent : Nat]

SweepInv ==
    /\ sweep \in [Sweepers -> SweepStates]
    /\ \A w \in Sweepers : Sweeping(w) => gate = w

\* A thread goes on: it takes the gate when nobody holds it, it keeps what it
\* has, or it sweeps no longer.
LEMMA ThreadMoves ==
    ASSUME SweepInv, NEW w \in Sweepers, NEW s \in SweepStates,
           sweep' = [sweep EXCEPT ![w] = s],
           \/ gate = None /\ gate' = w
           \/ gate' = gate /\ Sweeping(w)
           \/ gate' = gate /\ s.at \in {"none", "spawned"}
           \/ gate = w /\ s.at = "none"
    PROVE  SweepInv'
<1>1. sweep' \in [Sweepers -> SweepStates] /\ sweep'[w] = s
  BY DEF SweepInv
<1>2. \A v \in Sweepers \ {w} : sweep'[v] = sweep[v]
  BY DEF SweepInv
<1>3. None \notin Sweepers
  OBVIOUS
<1>4. Sweeping(w)' => gate' = w
  BY <1>1 DEF SweepInv, Sweeping
<1>5. \A v \in Sweepers \ {w} : Sweeping(v)' => gate' = v
  BY <1>2, <1>3 DEF SweepInv, Sweeping
<1>6. QED
  BY <1>1, <1>4, <1>5 DEF SweepInv

LEMMA InitSweepInv == Init => SweepInv
  BY DEF Init, SweepInv, Sweeping, SweepStates

LEMMA NextSweepInv == SweepInv /\ [Next]_vars => SweepInv'
<1> SUFFICES ASSUME SweepInv, [Next]_vars PROVE SweepInv'
  OBVIOUS
<1>1. CASE UNCHANGED <<gate, sweep>>
  BY <1>1 DEF SweepInv, Sweeping
<1>2. ASSUME NEW w \in Sweepers, NEW at \in {"none", "probe", "publish", "leave"},
             Moves(w, at)
      PROVE  \E s \in SweepStates : s.at = at /\ sweep' = [sweep EXCEPT ![w] = s]
  <2>1. sweep[w] \in SweepStates
    BY DEF SweepInv
  <2>2. [sweep[w] EXCEPT !.at = at] \in SweepStates /\ [sweep[w] EXCEPT !.at = at].at = at
    BY <2>1 DEF SweepStates
  <2>3. sweep' = [sweep EXCEPT ![w] = [sweep[w] EXCEPT !.at = at]]
    BY <1>2, Zenon DEF Moves
  <2>4. QED
    BY <2>2, <2>3
<1>3. CASE Take
  <2>1. UNCHANGED gate
    BY <1>3 DEF Take
  <2>2. \/ UNCHANGED sweep
        \/ \E w \in Sweepers : sweep' = [sweep EXCEPT ![w] = [at |-> "spawned", sent |-> 0]]
    BY <1>3, Zenon DEF Take
  <2>3. [at |-> "spawned", sent |-> 0] \in SweepStates
    BY DEF SweepStates
  <2>4. QED
    BY <1>1, <2>1, <2>2, <2>3, ThreadMoves
<1>4. ASSUME NEW w \in Sweepers, SweepEnters(w) PROVE SweepInv'
  <2>1. \/ gate = None /\ gate' = w /\ Moves(w, "probe")
        \/ gate' = gate /\ Moves(w, "none")
    BY <1>4 DEF SweepEnters
  <2>2. QED
    BY <1>2, <2>1, ThreadMoves
<1>5. ASSUME NEW w \in Sweepers, SweepProbes(w) PROVE SweepInv'
  <2>1. sweep[w] \in SweepStates /\ Sweeping(w) /\ UNCHANGED gate
    BY <1>5 DEF SweepInv, Sweeping, SweepProbes
  <2>2. [sweep[w] EXCEPT !.sent = sweep[w].sent + 1] \in SweepStates
    BY <2>1 DEF SweepStates
  <2>3. sweep' = [sweep EXCEPT ![w] = [sweep[w] EXCEPT !.sent = sweep[w].sent + 1]]
    BY <1>5, Zenon DEF SweepProbes
  <2>4. QED
    BY <2>1, <2>2, <2>3, ThreadMoves
<1>6. ASSUME NEW w \in Sweepers, SweepPublishes(w) PROVE SweepInv'
  <2>1. UNCHANGED gate
    BY <1>6 DEF SweepPublishes
  <2>2. \/ UNCHANGED sweep
        \/ Sweeping(w) /\ (Moves(w, "publish") \/ Moves(w, "leave"))
    BY <1>6 DEF SweepPublishes, Sweeping
  <2>3. QED
    BY <1>1, <1>2, <2>1, <2>2, ThreadMoves
<1>7. ASSUME NEW w \in Sweepers, SweepLeaves(w) PROVE SweepInv'
  <2>1. gate = w /\ Moves(w, "none")
    BY <1>7 DEF SweepLeaves, SweepInv, Sweeping
  <2>2. QED
    BY <1>2, <2>1, ThreadMoves
<1>8. CASE Environment \/ Disconnect \/ UNCHANGED vars
  BY <1>1, <1>8 DEF Environment, Disconnect, vars
<1>9. CASE ListenerDevices \/ Update \/ Publish \/ Resubscribe
  BY <1>1, <1>9 DEF ListenerDevices, Update, Publish, Resubscribe
<1>10. CASE Query
  BY <1>1, <1>10 DEF Query, QueryAsks, QueryJoins, QueryGivesUp
<1>11. QED
  BY <1>3, <1>4, <1>5, <1>6, <1>7, <1>8, <1>9, <1>10 DEF Next, Listen, SweepStep

\* Two sweeps would both hold the gate.
LEMMA OneHoldsTheGate == SweepInv => OneSweep
<1> SUFFICES ASSUME SweepInv PROVE OneSweep
  OBVIOUS
<1> DEFINE S == {w \in Sweepers : sweep[w].at \in {"probe", "publish", "leave"}}
<1>1. S \subseteq {gate}
  BY DEF SweepInv, Sweeping
<1>2. IsFiniteSet({gate}) /\ Cardinality({gate}) = 1
  BY FS_Singleton
<1>3. Cardinality(S) <= Cardinality({gate})
  BY <1>1, <1>2, FS_Subset
<1>4. QED
  BY <1>2, <1>3 DEF OneSweep

\* The bus never sees two overlapping probe storms, whatever triggers come and
\* whatever redis does.
THEOREM SweepsAreSingle == Spec => []OneSweep
  BY InitSweepInv, NextSweepInv, OneHoldsTheGate, PTL DEF Spec

-----------------------------------------------------------------------------
(***************************************************************************)
(* The types of the daemon's state, and what the bus may bring: a telegram *)
(* under the address of a device comes from one that is there, but for our *)
(* own.                                                                    *)
(***************************************************************************)

Senders == Addresses \cup {Other, None, "BG", "SYS"}
Contents == Audio \cup Video \cup {None, "playing", "standby"}
Kinds == {"status", "release", "current", "goto", "pong", "tx", "dl", "discover"}
Telegrams ==
    [kind : Kinds, frm : Senders, src : Contents, active : BOOLEAN, track : 0..2]
Unobserved == {"tx", "dl", "discover"}

\* What may be in the inbox.
Heard ==
    {t \in Telegrams : t.kind \in Unobserved \/ t.frm \in present \/ t.frm \notin Addresses}

WorldInv ==
    /\ present \subseteq Addresses /\ AM \in present
    /\ amPlays \in Audio \cup {None}
InboxInv == inbox \in Seq(Heard)
HandlerInv ==
    /\ pc \in {"idle", "devices", "update", "publish"}
    /\ pc # "idle" => msg \in Telegrams
SlotInv ==
    /\ am \in Slots /\ am.source \in Audio \cup {None}
    /\ vm \in Slots
    /\ key \in [am : Slots, vm : Slots]

-----------------------------------------------------------------------------
(* Each kind of telegram belongs to the set.                               *)

LEMMA DeliverTyped ==
    ASSUME NEW T, inbox \in Seq(T), NEW ts \in Seq(T), Deliver(ts)
    PROVE  inbox' \in Seq(T)
  BY DEF Deliver

LEMMA HeardFromDevice ==
    ASSUME NEW t \in Telegrams, t.frm \in present \/ t.frm = Other \/ t.kind \in Unobserved
    PROVE  t \in Heard
<1>1. Other \notin Addresses
  BY DEF Addresses, Masters
<1>2. QED
  BY <1>1 DEF Heard

LEMMA TelegramHeard ==
    ASSUME NEW kind \in Kinds, NEW frm \in Senders,
           NEW src \in Contents, NEW active \in BOOLEAN, NEW track \in 0..2,
           frm \in present \/ frm = Other \/ kind \in Unobserved
    PROVE  Telegram(kind, frm, src, active, track) \in Heard
<1> DEFINE t == Telegram(kind, frm, src, active, track)
<1>1. t \in Telegrams /\ t.kind = kind /\ t.frm = frm
  BY DEF Telegram, Telegrams
<1>2. QED
  BY <1>1, HeardFromDevice

LEMMA OneDelivered ==
    ASSUME InboxInv, NEW t \in Heard, Deliver(<<t>>)
    PROVE  inbox' \in Seq(Heard)
<1>1. <<t>> \in Seq(Heard)
  OBVIOUS
<1>2. QED
  BY <1>1, DeliverTyped DEF InboxInv

LEMMA TwoDelivered ==
    ASSUME InboxInv, NEW t \in Heard, NEW u \in Heard, Deliver(<<t, u>>)
    PROVE  inbox' \in Seq(Heard)
<1>1. <<t, u>> \in Seq(Heard)
  OBVIOUS
<1>2. QED
  BY <1>1, DeliverTyped DEF InboxInv

LEMMA StatusHeard ==
    ASSUME NEW m \in Masters, m \in present, NEW s \in Audio \cup Video,
           NEW active \in BOOLEAN, NEW track \in 0..1
    PROVE  Status(m, s, active, track) \in Heard
<1>1. s \in Contents /\ "status" \in Kinds /\ m \in Senders /\ track \in 0..2
  BY DEF Contents, Kinds, Senders, Addresses
<1>2. QED
  BY <1>1, TelegramHeard DEF Status

LEMMA ReleaseHeard ==
    ASSUME NEW s \in Audio \cup Video
    PROVE  Release(Other, s) \in Heard
<1>1. s \in Contents /\ "release" \in Kinds /\ Other \in Senders
      /\ FALSE \in BOOLEAN /\ 0 \in 0..2
  BY DEF Contents, Kinds, Senders
<1>2. QED
  BY <1>1, TelegramHeard DEF Release

LEMMA GotoHeard ==
    ASSUME VM \in present, NEW s \in Audio \cup Video
    PROVE  Goto(VM, s) \in Heard
<1>1. s \in Contents /\ "goto" \in Kinds /\ VM \in Senders
      /\ TRUE \in BOOLEAN /\ 2 \in 0..2
  BY DEF Contents, Kinds, Senders, Addresses, Masters
<1>2. QED
  BY <1>1, TelegramHeard DEF Goto

LEMMA StandbyHeard == ASSUME VM \in present PROVE SourcelessStandby \in Heard
<1>1. None \in Contents /\ "release" \in Kinds /\ VM \in Senders
      /\ FALSE \in BOOLEAN /\ 0 \in 0..2
  BY DEF Contents, Kinds, Senders, Addresses, Masters
<1>2. QED
  BY <1>1, TelegramHeard DEF SourcelessStandby

LEMMA CurrentSourceHeard ==
    ASSUME AM \in present, NEW s \in Audio
    PROVE  CurrentSource(s) \in Heard
<1>1. s \in Contents /\ "current" \in Kinds /\ AM \in Senders
      /\ TRUE \in BOOLEAN /\ 0 \in 0..2
  BY DEF Contents, Kinds, Senders, Addresses, Masters
<1>2. QED
  BY <1>1, TelegramHeard DEF CurrentSource

LEMMA PongHeard == ASSUME NEW a \in Addresses, a \in present PROVE Pong(a) \in Heard
<1>1. None \in Contents /\ "pong" \in Kinds /\ a \in Senders
      /\ FALSE \in BOOLEAN /\ 0 \in 0..2
  BY DEF Contents, Kinds, Senders
<1>2. QED
  BY <1>1, TelegramHeard DEF Pong

\* Whatever address is probed, under whatever name.
LEMMA ProbeHeard == ASSUME NEW a PROVE Probe(a) \in Heard
<1> DEFINE sender == IF a = VM THEN AM ELSE VM
<1>1. None \in Contents /\ "tx" \in Kinds /\ sender \in Senders
      /\ FALSE \in BOOLEAN /\ 0 \in 0..2
  BY DEF Contents, Kinds, Senders, Addresses, Masters
<1>2. "tx" \in Unobserved
  BY DEF Unobserved
<1>3. QED
  BY <1>1, <1>2, TelegramHeard DEF Probe

LEMMA DatalinkHeard ==
    ASSUME NEW d \in {"BG", "SYS"}, NEW t \in {"playing", "standby"}
    PROVE  Datalink(d, t) \in Heard
<1>1. t \in Contents /\ "dl" \in Kinds /\ d \in Senders
      /\ FALSE \in BOOLEAN /\ 0 \in 0..2
  BY DEF Contents, Kinds, Senders
<1>2. "dl" \in Unobserved
  BY DEF Unobserved
<1>3. QED
  BY <1>1, <1>2, TelegramHeard DEF Datalink

LEMMA DiscoverHeard == Discover \in Heard
<1>1. None \in Contents /\ "discover" \in Kinds /\ None \in Senders
      /\ FALSE \in BOOLEAN /\ 0 \in 0..2
  BY DEF Contents, Kinds, Senders
<1>2. "discover" \in Unobserved
  BY DEF Unobserved
<1>3. QED
  BY <1>1, <1>2, TelegramHeard DEF Discover

-----------------------------------------------------------------------------
(* The environment, the sweeps and the query put in what may be heard.     *)

LEMMA EnvironmentHeard ==
    ASSUME WorldInv, InboxInv, Environment
    PROVE  /\ present' = present /\ amPlays' \in Audio \cup {None}
           /\ inbox' \in Seq(Heard)
<1> USE DEF WorldInv
<1>0. AM \in Masters /\ VM \in Masters /\ TRUE \in BOOLEAN /\ FALSE \in BOOLEAN /\ 0 \in 0..1
  BY DEF Masters
<1>1. CASE AmAnnounces
  <2>1. PICK s \in Audio, track \in 0..1 :
            amPlays' = s /\ Deliver(<<Status(AM, s, TRUE, track)>>)
    BY <1>1 DEF AmAnnounces
  <2>2. Status(AM, s, TRUE, track) \in Heard
    BY <1>0, StatusHeard
  <2>3. QED
    BY <1>1, <2>1, <2>2, OneDelivered DEF AmAnnounces
<1>2. CASE AmStops
  <2>1. \/ Deliver(<<Release(Other, amPlays)>>)
        \/ \E s \in Audio : Deliver(<<Status(AM, s, FALSE, 0)>>)
    BY <1>2 DEF AmStops
  <2>2. amPlays \in Audio /\ amPlays' = None /\ present' = present
    BY <1>2 DEF AmStops
  <2>3. Release(Other, amPlays) \in Heard
    BY <2>2, ReleaseHeard
  <2>4. \A s \in Audio : Status(AM, s, FALSE, 0) \in Heard
    BY <1>0, StatusHeard
  <2>5. QED
    BY <2>1, <2>2, <2>3, <2>4, OneDelivered
<1>3. CASE VmShowsVideo
  <2>1. PICK v \in Video : Deliver(<<SourcelessStandby, Goto(VM, v)>>)
    BY <1>3 DEF VmShowsVideo
  <2>2. VM \in present /\ UNCHANGED <<present, amPlays>>
    BY <1>3 DEF VmShowsVideo
  <2>3. SourcelessStandby \in Heard /\ Goto(VM, v) \in Heard
    BY <2>2, StandbyHeard, GotoHeard
  <2>4. QED
    BY <2>1, <2>2, <2>3, TwoDelivered
<1>4. CASE VmOff
  <2>1. PICK v \in Video : Deliver(<<Status(VM, v, FALSE, 0)>>)
    BY <1>4 DEF VmOff
  <2>2. VM \in present /\ UNCHANGED <<present, amPlays>>
    BY <1>4 DEF VmOff
  <2>3. Status(VM, v, FALSE, 0) \in Heard
    BY <1>0, <2>2, StatusHeard
  <2>4. QED
    BY <2>1, <2>2, <2>3, OneDelivered
<1>5. CASE VmToAudio
  <2>1. PICK s \in Audio : amPlays' = s /\ Deliver(<<Goto(VM, s)>>)
    BY <1>5 DEF VmToAudio
  <2>2. VM \in present /\ present' = present
    BY <1>5 DEF VmToAudio
  <2>3. Goto(VM, s) \in Heard
    BY <2>2, GotoHeard
  <2>4. QED
    BY <2>1, <2>2, <2>3, OneDelivered
<1>6. CASE LateRelease
  <2>1. PICK s \in Audio \cup Video : Deliver(<<Release(Other, s)>>)
    BY <1>6 DEF LateRelease
  <2>2. Release(Other, s) \in Heard
    BY ReleaseHeard
  <2>3. UNCHANGED <<present, amPlays>>
    BY <1>6 DEF LateRelease, world
  <2>4. QED
    BY <2>1, <2>2, <2>3, OneDelivered
<1>7. CASE DatalinkByte
  <2>1. PICK d \in {"BG", "SYS"}, t \in {"playing", "standby"} :
            Deliver(<<Datalink(d, t), Datalink(d, t)>>)
    BY <1>7 DEF DatalinkByte
  <2>2. Datalink(d, t) \in Heard
    BY DatalinkHeard
  <2>3. UNCHANGED <<present, amPlays>>
    BY <1>7 DEF DatalinkByte, world
  <2>4. QED
    BY <2>1, <2>2, <2>3, TwoDelivered
<1>8. CASE Trigger
  <2>1. Deliver(<<Discover>>) /\ UNCHANGED <<present, amPlays>>
    BY <1>8 DEF Trigger, world
  <2>2. QED
    BY <2>1, DiscoverHeard, OneDelivered
<1>9. QED
  BY <1>1, <1>2, <1>3, <1>4, <1>5, <1>6, <1>7, <1>8 DEF Environment

LEMMA SweepHeard ==
    ASSUME WorldInv, InboxInv, NEW w \in Sweepers, SweepProbes(w)
    PROVE  /\ present' = present /\ amPlays' = amPlays
           /\ inbox' \in Seq(Heard)
<1> DEFINE a == SweepOrder[sweep[w].sent + 1]
<1>1. UNCHANGED <<present, amPlays>>
  BY DEF SweepProbes, world
<1>2. Probe(a) \in Heard
  BY ProbeHeard
<1>3. \/ Deliver(<<Probe(a)>>)
      \/ a \in present /\ Deliver(<<Probe(a)>> \o <<Pong(a)>>)
      \/ a \notin present /\ Deliver(<<Probe(a)>> \o <<>>)
  BY DEF SweepProbes
<1>4. CASE Deliver(<<Probe(a)>>)
  BY <1>1, <1>2, <1>4, OneDelivered
<1>5. CASE a \in present /\ Deliver(<<Probe(a)>> \o <<Pong(a)>>)
  <2>1. Pong(a) \in Heard
    BY <1>5, PongHeard DEF WorldInv
  <2>2. <<Probe(a)>> \o <<Pong(a)>> \in Seq(Heard)
    BY <1>2, <2>1
  <2>3. QED
    BY <1>1, <1>5, <2>2, DeliverTyped DEF InboxInv
<1>6. CASE Deliver(<<Probe(a)>> \o <<>>)
  <2>1. <<Probe(a)>> \o <<>> \in Seq(Heard)
    BY <1>2
  <2>2. QED
    BY <1>1, <1>6, <2>1, DeliverTyped DEF InboxInv
<1>7. QED
  BY <1>3, <1>4, <1>5, <1>6

LEMMA QueryHeard ==
    ASSUME WorldInv, InboxInv, SlotInv, Query
    PROVE  /\ present' = present /\ amPlays' \in Audio \cup {None}
           /\ inbox' \in Seq(Heard)
<1> USE DEF WorldInv
<1>1. CASE QueryAsks
  <2>1. UNCHANGED <<present, amPlays>>
    BY <1>1 DEF QueryAsks, world
  <2>2. \/ amPlays # None /\ Deliver(<<CurrentSource(amPlays)>>)
        \/ UNCHANGED inbox
    BY <1>1 DEF QueryAsks
  <2>3. amPlays # None => CurrentSource(amPlays) \in Heard
    BY CurrentSourceHeard
  <2>4. QED
    BY <2>1, <2>2, <2>3, OneDelivered DEF InboxInv
<1>2. CASE QueryJoins
  <2>1. CASE UNCHANGED <<world, inbox>>
    BY <2>1 DEF world, InboxInv
  <2>2. CASE /\ am.source # None /\ amPlays' = am.source /\ present' = present
             /\ Deliver(<<Status(AM, am.source, TRUE, 1)>>)
    <3>1. am.source \in Audio
      BY <2>2 DEF SlotInv
    <3>2. AM \in Masters /\ TRUE \in BOOLEAN /\ 1 \in 0..1
      BY DEF Masters
    <3>3. Status(AM, am.source, TRUE, 1) \in Heard
      BY <3>1, <3>2, StatusHeard
    <3>4. QED
      BY <2>2, <3>1, <3>3, OneDelivered
  <2>3. QED
    BY <1>2, <2>1, <2>2 DEF QueryJoins
<1>3. CASE QueryGivesUp
  BY <1>3 DEF QueryGivesUp, world, InboxInv
<1>4. QED
  BY <1>1, <1>2, <1>3 DEF Query

-----------------------------------------------------------------------------
(* These four are inductive together.                                      *)

StateInv == WorldInv /\ InboxInv /\ HandlerInv /\ SlotInv

\* Nothing leaves or joins the bus, so what may be heard stays the same.
LEMMA NextInboxInv ==
    ASSUME StateInv, [Next]_vars
    PROVE  WorldInv' /\ InboxInv'
<1> USE DEF StateInv
<1>1. SUFFICES /\ present' = present /\ amPlays' \in Audio \cup {None}
               /\ inbox' \in Seq(Heard)
  <2>1. present' = present => Heard' = Heard
    BY DEF Heard
  <2>2. QED
    BY <1>1, <2>1 DEF WorldInv, InboxInv
<1>2. <<>> \in Seq(Heard)
  OBVIOUS
<1>3. CASE UNCHANGED <<present, amPlays>> /\ inbox' \in {inbox, <<>>}
  BY <1>2, <1>3 DEF WorldInv, InboxInv
<1>4. CASE Environment
  BY <1>4, EnvironmentHeard
<1>5. ASSUME NEW w \in Sweepers, SweepStep(w)
      PROVE  /\ present' = present /\ amPlays' \in Audio \cup {None}
             /\ inbox' \in Seq(Heard)
  <2>1. CASE SweepProbes(w)
    BY <2>1, SweepHeard DEF WorldInv
  <2>2. CASE SweepEnters(w) \/ SweepPublishes(w) \/ SweepLeaves(w)
    BY <1>3, <2>2 DEF SweepEnters, SweepPublishes, SweepLeaves, world
  <2>3. QED
    BY <1>5, <2>1, <2>2 DEF SweepStep
<1>6. CASE Query
  BY <1>6, QueryHeard
<1>7. CASE Take
  <2>1. inbox \in Seq(Heard) /\ inbox # <<>> /\ inbox' = Tail(inbox)
    BY <1>7 DEF Take, InboxInv
  <2>2. Tail(inbox) \in Seq(Heard)
    BY <2>1
  <2>3. UNCHANGED <<present, amPlays>>
    BY <1>7 DEF Take, world
  <2>4. QED
    BY <2>1, <2>2, <2>3 DEF WorldInv
<1>8. CASE ListenerDevices
  BY <1>3, <1>8 DEF ListenerDevices
<1>9. CASE Update \/ Resubscribe
  BY <1>3, <1>9 DEF Update, Resubscribe, world
<1>10. CASE Publish \/ Disconnect
  BY <1>3, <1>10 DEF Publish, Disconnect
<1>11. CASE UNCHANGED vars
  BY <1>3, <1>11 DEF vars, world
<1>12. QED
  BY <1>4, <1>5, <1>6, <1>7, <1>8, <1>9, <1>10, <1>11 DEF Next, Listen

LEMMA NextHandlerInv ==
    ASSUME StateInv, [Next]_vars
    PROVE  HandlerInv'
<1> USE DEF StateInv, HandlerInv
<1>1. CASE UNCHANGED <<pc, msg>>
  BY <1>1
<1>2. CASE Take
  <2>1. inbox \in Seq(Telegrams) /\ inbox # <<>>
    <3>1. inbox \in Seq(Heard) /\ Heard \subseteq Telegrams /\ inbox # <<>>
      BY <1>2 DEF InboxInv, Heard, Take
    <3>2. QED
      BY <3>1
  <2>2. Head(inbox) \in Telegrams
    BY <2>1
  <2>3. \/ UNCHANGED <<pc, msg>>
        \/ msg' = Head(inbox) /\ pc' \in {"update", "devices"}
    BY <1>2 DEF Take
  <2>4. QED
    BY <2>2, <2>3
<1>3. CASE ListenerDevices
  BY <1>3 DEF ListenerDevices
<1>4. CASE Update
  BY <1>4 DEF Update
<1>5. CASE Publish
  BY <1>5 DEF Publish
<1>6. CASE Resubscribe \/ Disconnect \/ Environment \/ UNCHANGED vars
  BY <1>1, <1>6 DEF Resubscribe, Disconnect, Environment, vars
<1>7. ASSUME NEW w \in Sweepers, SweepStep(w) PROVE HandlerInv'
  BY <1>1, <1>7 DEF SweepStep, SweepEnters, SweepProbes, SweepPublishes, SweepLeaves
<1>8. CASE Query
  BY <1>1, <1>8 DEF Query, QueryAsks, QueryJoins, QueryGivesUp
<1>9. QED
  BY <1>2, <1>3, <1>4, <1>5, <1>6, <1>7, <1>8 DEF Next, Listen

\* A slot takes only sources of its kind.
LEMMA SlotsTyped ==
    ASSUME StateInv, NEW t \in Telegrams, CarriesSource(t)
    PROVE  /\ NextAm(t) \in Slots /\ NextAm(t).source \in Audio \cup {None}
           /\ NextVm(t) \in Slots
<1>1. t.src \in Audio \cup Video /\ t.track \in 0..2
  BY DEF CarriesSource, Telegrams
<1>2. ASSUME NEW slot \in Slots
      PROVE  Applied(slot, t) \in Slots /\ Applied(slot, t).source = t.src
  BY <1>1, <1>2 DEF Applied, Slots
<1>3. Silent \in Slots /\ Silent.source = None
  BY DEF Silent, Slots
<1>4. ASSUME NEW slot \in Slots, NEW m
      PROVE  ApplyOrClear(slot, t, m) \in {Applied(slot, t), Silent, slot}
  BY DEF ApplyOrClear
<1>5. Kind(t.src) = "am" => t.src \in Audio
  BY DEF Kind
<1>6. am \in Slots /\ am.source \in Audio \cup {None} /\ vm \in Slots
  BY DEF StateInv, SlotInv
<1>7. NextAm(t) \in Slots /\ NextAm(t).source \in Audio \cup {None}
  <2>1. CASE Kind(t.src) = "am"
    <3>1. NextAm(t) \in {Applied(am, t), Silent, am}
      BY <1>4, <1>6, <2>1 DEF NextAm
    <3>2. QED
      BY <1>2, <1>3, <1>5, <1>6, <2>1, <3>1
  <2>2. CASE Kind(t.src) # "am"
    BY <1>6, <2>2 DEF NextAm
  <2>3. QED
    BY <2>1, <2>2
<1>8. NextVm(t) \in Slots
  <2>1. NextVm(t) \in {ApplyOrClear(vm, t, VM), Silent, vm}
    BY DEF NextVm
  <2>2. NextVm(t) \in {Applied(vm, t), Silent, vm}
    BY <1>4, <1>6, <2>1
  <2>3. QED
    BY <1>2, <1>3, <1>6, <2>2
<1>9. QED
  BY <1>7, <1>8

LEMMA NextSlotInv ==
    ASSUME StateInv, [Next]_vars
    PROVE  SlotInv'
<1>1. CASE UNCHANGED <<am, vm, key>>
  BY <1>1 DEF StateInv, SlotInv
<1>2. CASE Update
  <2>1. key' = key
    BY <1>2 DEF Update
  <2>2. CASE CarriesSource(msg) /\ msg.kind # "dl"
    <3>1. am' = NextAm(msg) /\ vm' = NextVm(msg)
      BY <1>2, <2>2 DEF Update
    <3>2. msg \in Telegrams
      BY <1>2 DEF Update, StateInv, HandlerInv
    <3>3. /\ NextAm(msg) \in Slots /\ NextAm(msg).source \in Audio \cup {None}
          /\ NextVm(msg) \in Slots
      BY <2>2, <3>2, SlotsTyped
    <3>4. QED
      BY <2>1, <3>1, <3>3 DEF StateInv, SlotInv
  <2>3. CASE ~CarriesSource(msg) \/ msg.kind = "dl"
    <3>1. UNCHANGED <<am, vm>>
      BY <1>2, <2>3 DEF Update
    <3>2. QED
      BY <1>1, <2>1, <3>1
  <2>4. QED
    BY <2>2, <2>3
<1>3. CASE Publish
  <2>1. UNCHANGED <<am, vm>> /\ key' \in {key, [am |-> am, vm |-> vm]}
    BY <1>3 DEF Publish
  <2>2. QED
    BY <2>1 DEF StateInv, SlotInv
<1>4. CASE Take \/ ListenerDevices \/ Resubscribe
  BY <1>1, <1>4 DEF Take, ListenerDevices, Resubscribe, views
<1>5. CASE Disconnect \/ Environment \/ UNCHANGED vars
  BY <1>1, <1>5 DEF Disconnect, Environment, vars, views
<1>6. ASSUME NEW w \in Sweepers, SweepStep(w) PROVE SlotInv'
  BY <1>1, <1>6 DEF SweepStep, SweepEnters, SweepProbes, SweepPublishes, SweepLeaves, views
<1>7. CASE Query
  BY <1>1, <1>7 DEF Query, QueryAsks, QueryJoins, QueryGivesUp, views
<1>8. QED
  BY <1>2, <1>3, <1>4, <1>5, <1>6, <1>7 DEF Next, Listen

LEMMA StateInvariant == Spec => []StateInv
<1>1. Init => StateInv
  <2> SUFFICES ASSUME Init PROVE StateInv
    OBVIOUS
  <2>1. WorldInv
    BY DEF Init, WorldInv, Addresses, Masters
  <2>2. InboxInv
    BY DEF Init, InboxInv
  <2>3. HandlerInv
    BY DEF Init, HandlerInv
  <2>4. SlotInv
    BY DEF Init, SlotInv, Silent, Slots
  <2>5. QED
    BY <2>1, <2>2, <2>3, <2>4 DEF StateInv
<1>2. StateInv /\ [Next]_vars => StateInv'
  BY NextInboxInv, NextHandlerInv, NextSlotInv DEF StateInv
<1>3. QED
  BY <1>1, <1>2, PTL DEF Spec

-----------------------------------------------------------------------------
(***************************************************************************)
(* No phantoms.  Only devices that are there get into the inventory, into  *)
(* the snapshot a thread is about to publish, and into the key.            *)
(***************************************************************************)

Inventories == UNION {[D -> BOOLEAN] : D \in SUBSET present}

DeviceInv ==
    /\ devs \in Inventories /\ devKey \in Inventories
    /\ hand \in [Threads -> [step : {"none", "taken", "read"}, devs : Inventories]]

LEMMA NoDevicesTyped == NoDevices \in Inventories
<1>1. NoDevices \in [{} -> BOOLEAN] /\ {} \in SUBSET present
  BY DEF NoDevices
<1>2. QED
  BY <1>1 DEF Inventories

LEMMA ObserveTyped ==
    ASSUME NEW t \in Heard, t.kind \notin Unobserved, devs \in Inventories, Observe(t)
    PROVE  devs' \in Inventories
<1>1. CASE t.frm \notin Addresses
  BY <1>1 DEF Observe
<1>2. CASE t.frm \in Addresses
  <2>1. t.frm \in present
    BY <1>2 DEF Heard
  <2>2. PICK D \in SUBSET present : devs \in [D -> BOOLEAN]
    BY DEF Inventories
  <2>3. DOMAIN devs = D
    BY <2>2
  <2> DEFINE class == t.kind = "pong" \/ (t.frm \in DOMAIN devs /\ devs[t.frm])
             new == [a \in D \cup {t.frm} |-> IF a = t.frm THEN class ELSE devs[a]]
  <2>4. devs' = new
    BY <1>2, <2>3, Zenon DEF Observe
  <2>5. class \in BOOLEAN
    OBVIOUS
  <2>6. new \in [D \cup {t.frm} -> BOOLEAN]
    <3> HIDE DEF class
    <3>1. QED
      BY <2>2, <2>5
  <2>7. D \cup {t.frm} \in SUBSET present
    BY <2>1
  <2> HIDE DEF new
  <2>8. QED
    BY <2>4, <2>6, <2>7 DEF Inventories
<1>3. QED
  BY <1>1, <1>2

\* Publishing passes an inventory on from hand to hand.
LEMMA PublishingTyped ==
    ASSUME DeviceInv, NEW t \in Threads,
           \/ TakeDirty(t)
           \/ ReadInventory(t)
           \/ SetDevices(t)
           \/ hand' = [hand EXCEPT ![t] = EmptyHanded] /\ UNCHANGED <<devs, devKey>>
    PROVE  /\ devs' \in Inventories /\ devKey' \in Inventories
           /\ hand' \in [Threads -> [step : {"none", "taken", "read"}, devs : Inventories]]
<1> DEFINE Hands == [step : {"none", "taken", "read"}, devs : Inventories]
<1>1. hand \in [Threads -> Hands] /\ hand[t] \in Hands
  BY DEF DeviceInv
<1>2. ASSUME NEW h \in Hands, hand' = [hand EXCEPT ![t] = h]
      PROVE  hand' \in [Threads -> Hands]
  <2> HIDE DEF Hands
  <2>1. QED
    BY <1>1, <1>2
<1>3. CASE TakeDirty(t)
  <2>1. hand' = [hand EXCEPT ![t] = [hand[t] EXCEPT !.step = "taken"]]
    BY <1>3, Zenon DEF TakeDirty
  <2>2. [hand[t] EXCEPT !.step = "taken"] \in Hands
    BY <1>1
  <2>3. QED
    BY <1>2, <1>3, <2>1, <2>2 DEF TakeDirty, DeviceInv
<1>4. CASE ReadInventory(t)
  <2>1. [step |-> "read", devs |-> devs] \in Hands
    BY DEF DeviceInv
  <2>2. QED
    BY <1>2, <1>4, <2>1 DEF ReadInventory, DeviceInv
<1>5. EmptyHanded \in Hands
  BY NoDevicesTyped DEF EmptyHanded
<1>6. CASE SetDevices(t)
  <2>1. hand[t].devs \in Inventories
    BY <1>1
  <2>2. QED
    BY <1>2, <1>5, <1>6, <2>1 DEF SetDevices, DeviceInv
<1>7. CASE hand' = [hand EXCEPT ![t] = EmptyHanded] /\ UNCHANGED <<devs, devKey>>
  BY <1>2, <1>5, <1>7 DEF DeviceInv
<1>8. QED
  BY <1>3, <1>4, <1>6, <1>7

LEMMA NextDeviceInv ==
    ASSUME StateInv, DeviceInv, [Next]_vars
    PROVE  DeviceInv'
<1>1. present' = present
  BY DEF Next, vars, world, Environment, AmAnnounces, AmStops, VmShowsVideo, VmOff,
         VmToAudio, LateRelease, DatalinkByte, Trigger, Listen, Take, ListenerDevices,
         Update, Publish, Resubscribe, Disconnect, SweepStep, SweepEnters, SweepProbes,
         SweepPublishes, SweepLeaves, Query, QueryAsks, QueryJoins, QueryGivesUp
<1>2. Inventories' = Inventories
  BY <1>1 DEF Inventories
<1>3. SUFFICES /\ devs' \in Inventories /\ devKey' \in Inventories
               /\ hand' \in [Threads -> [step : {"none", "taken", "read"}, devs : Inventories]]
  BY <1>2 DEF DeviceInv
<1>4. CASE UNCHANGED <<devs, devKey, hand>>
  BY <1>4 DEF DeviceInv
<1>5. CASE Take
  <2>1. UNCHANGED <<devKey, hand>>
    BY <1>5 DEF Take
  <2>2. \/ UNCHANGED devs
        \/ Head(inbox).kind \notin Unobserved /\ Observe(Head(inbox))
    BY <1>5 DEF Take, Unobserved
  <2>3. Head(inbox) \in Heard
    BY <1>5 DEF Take, StateInv, InboxInv
  <2>4. devs' \in Inventories
    BY <2>2, <2>3, ObserveTyped DEF DeviceInv
  <2>5. QED
    BY <2>1, <2>4 DEF DeviceInv
<1>6. CASE ListenerDevices
  <2>1. Listener \in Threads
    BY DEF Threads
  <2>2. \/ TakeDirty(Listener)
        \/ UNCHANGED <<devs, devKey, hand>>
        \/ ReadInventory(Listener)
        \/ SetDevices(Listener)
        \/ hand' = [hand EXCEPT ![Listener] = EmptyHanded] /\ UNCHANGED <<devs, devKey>>
    BY <1>6 DEF ListenerDevices, inventory
  <2>3. QED
    BY <1>4, <2>1, <2>2, PublishingTyped
<1>7. ASSUME NEW w \in Sweepers, SweepPublishes(w)
      PROVE  /\ devs' \in Inventories /\ devKey' \in Inventories
             /\ hand' \in [Threads -> [step : {"none", "taken", "read"}, devs : Inventories]]
  <2>1. w \in Threads
    BY DEF Threads
  <2>2. \/ TakeDirty(w)
        \/ ReadInventory(w)
        \/ SetDevices(w)
        \/ hand' = [hand EXCEPT ![w] = EmptyHanded] /\ UNCHANGED <<devs, devKey>>
    BY <1>7 DEF SweepPublishes
  <2>3. QED
    BY <2>1, <2>2, PublishingTyped
<1>8. ASSUME NEW w \in Sweepers, SweepEnters(w) \/ SweepProbes(w) \/ SweepLeaves(w)
      PROVE  UNCHANGED <<devs, devKey, hand>>
  BY <1>8 DEF SweepEnters, SweepProbes, SweepLeaves, inventory
<1>9. CASE Update \/ Publish \/ Resubscribe \/ Disconnect
  BY <1>4, <1>9 DEF Update, Publish, Resubscribe, Disconnect, inventory
<1>10. CASE Environment \/ UNCHANGED vars
  BY <1>4, <1>10 DEF Environment, vars, inventory
<1>11. CASE Query
  BY <1>4, <1>11 DEF Query, QueryAsks, QueryJoins, QueryGivesUp, inventory
<1>12. QED
  BY <1>4, <1>5, <1>6, <1>7, <1>8, <1>9, <1>10, <1>11 DEF Next, Listen, SweepStep

LEMMA DeviceInvariant == Spec => [](StateInv /\ DeviceInv)
<1>1. Init => DeviceInv
  BY NoDevicesTyped DEF Init, DeviceInv, EmptyHanded
<1>2. StateInv /\ DeviceInv /\ [Next]_vars => DeviceInv'
  BY NextDeviceInv
<1>3. QED
  BY <1>1, <1>2, StateInvariant, PTL DEF Spec

LEMMA NoPhantomInvented == ASSUME DeviceInv PROVE NoPhantoms
<1>1. \A x \in Inventories : DOMAIN x \subseteq present
  BY DEF Inventories
<1>2. QED
  BY <1>1 DEF DeviceInv, NoPhantoms

\* Our own probes invent no device, and neither does anything that is said about
\* one: what the inventory and its key name is on the bus.
THEOREM PhantomFree == Spec => []NoPhantoms
  BY DeviceInvariant, NoPhantomInvented, PTL

-----------------------------------------------------------------------------
(***************************************************************************)
(* Type correctness: what is left to show is where sweeps and the query    *)
(* stand.                                                                  *)
(***************************************************************************)

CountInv ==
    /\ gate \in Sweepers \cup {None}
    /\ \A w \in Sweepers : sweep[w].sent \in 0..Len(SweepOrder)
    /\ query \in 0..(Attempts + 1)

LEMMA OrderLength == Len(SweepOrder) \in Nat
  OBVIOUS

LEMMA NextCountInv ==
    ASSUME SweepInv, CountInv, [Next]_vars
    PROVE  CountInv'
<1> USE OrderLength
<1>1. CASE UNCHANGED <<gate, sweep, query>>
  BY <1>1 DEF CountInv
<1>2. ASSUME NEW w \in Sweepers, NEW s \in SweepStates, s.sent \in 0..Len(SweepOrder),
             sweep' = [sweep EXCEPT ![w] = s],
             gate' \in {gate, w, None}, UNCHANGED query
      PROVE  CountInv'
  <2>1. \A v \in Sweepers : sweep'[v].sent \in 0..Len(SweepOrder)
    BY <1>2 DEF SweepInv, CountInv
  <2>2. QED
    BY <1>2, <2>1 DEF CountInv
<1>3. ASSUME NEW w \in Sweepers, NEW at \in {"none", "probe", "publish", "leave"},
             Moves(w, at), gate' \in {gate, w, None}, UNCHANGED query
      PROVE  CountInv'
  <2>1. sweep[w] \in SweepStates /\ sweep[w].sent \in 0..Len(SweepOrder)
    BY DEF SweepInv, CountInv
  <2>2. /\ [sweep[w] EXCEPT !.at = at] \in SweepStates
        /\ [sweep[w] EXCEPT !.at = at].sent \in 0..Len(SweepOrder)
    BY <2>1 DEF SweepStates
  <2>3. sweep' = [sweep EXCEPT ![w] = [sweep[w] EXCEPT !.at = at]]
    BY <1>3, Zenon DEF Moves
  <2>4. QED
    BY <1>2, <1>3, <2>2, <2>3
<1>4. CASE Take
  <2>1. UNCHANGED <<gate, query>>
    BY <1>4 DEF Take
  <2>2. \/ UNCHANGED sweep
        \/ \E w \in Sweepers : sweep' = [sweep EXCEPT ![w] = [at |-> "spawned", sent |-> 0]]
    BY <1>4, Zenon DEF Take
  <2>3. /\ [at |-> "spawned", sent |-> 0] \in SweepStates
        /\ [at |-> "spawned", sent |-> 0].sent \in 0..Len(SweepOrder)
    BY DEF SweepStates
  <2>4. QED
    BY <1>1, <1>2, <2>1, <2>2, <2>3
<1>5. ASSUME NEW w \in Sweepers, SweepProbes(w) PROVE CountInv'
  <2>1. /\ sweep[w] \in SweepStates
        /\ sweep[w].sent \in 0..Len(SweepOrder) /\ sweep[w].sent < Len(SweepOrder)
    BY <1>5 DEF SweepInv, CountInv, SweepProbes
  <2>2. /\ [sweep[w] EXCEPT !.sent = sweep[w].sent + 1] \in SweepStates
        /\ [sweep[w] EXCEPT !.sent = sweep[w].sent + 1].sent \in 0..Len(SweepOrder)
    BY <2>1 DEF SweepStates
  <2>3. sweep' = [sweep EXCEPT ![w] = [sweep[w] EXCEPT !.sent = sweep[w].sent + 1]]
    BY <1>5, Zenon DEF SweepProbes
  <2>4. UNCHANGED <<gate, query>>
    BY <1>5 DEF SweepProbes
  <2>5. QED
    BY <1>2, <2>2, <2>3, <2>4
<1>6. ASSUME NEW w \in Sweepers, SweepEnters(w) \/ SweepPublishes(w) \/ SweepLeaves(w)
      PROVE  CountInv'
  <2>1. /\ gate' \in {gate, w, None} /\ UNCHANGED query
        /\ UNCHANGED <<gate, sweep>> \/ \E at \in {"none", "probe", "publish", "leave"} : Moves(w, at)
    BY <1>6 DEF SweepEnters, SweepPublishes, SweepLeaves
  <2>2. QED
    BY <1>1, <1>3, <2>1
<1>7. CASE Query
  <2>1. UNCHANGED <<gate, sweep>>
    BY <1>7 DEF Query, QueryAsks, QueryJoins, QueryGivesUp
  <2>2. query' \in 0..(Attempts + 1)
    BY <1>7 DEF Query, QueryAsks, QueryJoins, QueryGivesUp, CountInv
  <2>3. QED
    BY <2>1, <2>2 DEF CountInv
<1>8. CASE ListenerDevices \/ Update \/ Publish \/ Resubscribe
  BY <1>1, <1>8 DEF ListenerDevices, Update, Publish, Resubscribe
<1>9. CASE Disconnect \/ Environment \/ UNCHANGED vars
  BY <1>1, <1>9 DEF Disconnect, Environment, vars
<1>10. QED
  BY <1>4, <1>5, <1>6, <1>7, <1>8, <1>9 DEF Next, Listen, SweepStep

\* The state of the daemon keeps its shape: slots hold sources of their kinds,
\* the inventory addresses, and the gate a thread.
THEOREM TypeCorrect == Spec => []TypeOK
<1>1. Init => CountInv
  BY OrderLength DEF Init, CountInv
<1>2. SweepInv /\ CountInv /\ [Next]_vars => CountInv'
  BY NextCountInv
<1>3. StateInv /\ DeviceInv /\ CountInv => TypeOK
  <2> SUFFICES ASSUME StateInv, DeviceInv, CountInv PROVE TypeOK
    OBVIOUS
  <2>1. NoPhantoms /\ present \subseteq Addresses
    BY NoPhantomInvented DEF StateInv, WorldInv
  <2>2. QED
    BY <2>1 DEF StateInv, SlotInv, HandlerInv, CountInv, NoPhantoms, TypeOK
<1>4. Spec => []SweepInv
  BY InitSweepInv, NextSweepInv, PTL DEF Spec
<1>5. QED
  BY <1>1, <1>2, <1>3, <1>4, DeviceInvariant, PTL DEF Spec

-----------------------------------------------------------------------------
(***************************************************************************)
(* No news without a change.  A view whose publication did not fail is in  *)
(* its key as it is, unless it is about to be published.                   *)
(***************************************************************************)

Published(v) ==
    IF v = "dl" THEN dl.key = <<dl.device, dl.transport>> ELSE key = [am |-> am, vm |-> vm]

PublishedInv ==
    /\ pc \in {"idle", "devices", "update", "publish"}
    /\ \A v \in {"ml", "dl"} \ missed :
          Published(v) <=> ~(pc = "publish" /\ View(msg) = v)
    /\ dl = [device |-> dl.device, transport |-> dl.transport, key |-> dl.key]

\* A change of a view always shows in its key.
LEMMA UpdatePublished ==
    ASSUME PublishedInv, Update
    PROVE  PublishedInv'
<1>1. pc = "update" /\ UNCHANGED <<key, missed, msg>> /\ pc' \in {"idle", "publish"}
  BY DEF Update
<1>2. \A v \in {"ml", "dl"} \ missed : Published(v)
  BY <1>1 DEF PublishedInv
<1>3. CASE msg.kind = "dl"
  <2>1. dl' = NextDl(msg) /\ UNCHANGED <<am, vm>> /\ (pc' = "idle" <=> dl' = dl)
    BY <1>3 DEF Update
  <2>2. /\ dl' = [device |-> dl'.device, transport |-> dl'.transport, key |-> dl'.key]
        /\ dl'.key = dl.key
    BY <2>1 DEF NextDl, PublishedInv
  <2>3. dl' = dl <=> dl'.device = dl.device /\ dl'.transport = dl.transport
    BY <2>2 DEF PublishedInv
  <2>4. View(msg) = "dl"
    BY <1>3 DEF View
  <2>5. "ml" \notin missed => Published("ml")'
    BY <1>1, <1>2, <2>1 DEF Published
  <2>6. "dl" \notin missed => (Published("dl")' <=> pc' # "publish")
    BY <1>1, <1>2, <2>1, <2>2, <2>3 DEF Published
  <2>7. View(msg)' = "dl"
    BY <1>1, <2>4 DEF View
  <2>8. QED
    BY <1>1, <2>2, <2>5, <2>6, <2>7 DEF PublishedInv
<1>4. CASE msg.kind # "dl"
  <2>1. dl' = dl /\ (pc' = "idle" <=> am' = am /\ vm' = vm)
    BY <1>4 DEF Update
  <2>2. View(msg)' = "ml"
    BY <1>1, <1>4 DEF View
  <2>3. "ml" \notin missed => (Published("ml")' <=> pc' # "publish")
    <3>1. [am |-> am, vm |-> vm] = [am |-> am', vm |-> vm'] <=> am' = am /\ vm' = vm
      OBVIOUS
    <3>2. QED
      BY <1>1, <1>2, <2>1, <3>1 DEF Published
  <2>4. "dl" \notin missed => Published("dl")'
    BY <1>2, <2>1 DEF Published
  <2>5. QED
    BY <1>1, <2>1, <2>2, <2>3, <2>4 DEF PublishedInv
<1>5. QED
  BY <1>3, <1>4

\* One view is stored; the other one is not touched.
LEMMA PublishPublished ==
    ASSUME PublishedInv, Publish
    PROVE  PublishedInv'
<1>1. pc = "publish" /\ pc' = "idle" /\ UNCHANGED <<msg, am, vm>>
  BY DEF Publish
<1>2. dl' = dl \/ dl' = [dl EXCEPT !.key = <<dl.device, dl.transport>>]
  BY DEF Publish
<1>3. /\ dl'.device = dl.device /\ dl'.transport = dl.transport
      /\ dl' = [device |-> dl'.device, transport |-> dl'.transport, key |-> dl'.key]
  BY <1>2 DEF PublishedInv
<1>4. missed' \in {missed \cup {View(msg)}, missed \ {View(msg)}}
  BY DEF Publish
<1>5. ASSUME NEW v \in {"ml", "dl"}, v # View(msg), v \notin missed
      PROVE  Published(v)'
  <2>1. Published(v)
    BY <1>5 DEF PublishedInv
  <2>2. CASE v = "dl"
    <3>1. dl' = dl
      BY <1>5, <2>2 DEF Publish, View
    <3>2. QED
      BY <2>1, <2>2, <3>1 DEF Published
  <2>3. CASE v = "ml"
    <3>1. key' = key
      BY <1>5, <2>3 DEF Publish, View
    <3>2. QED
      BY <1>1, <2>1, <2>3, <3>1 DEF Published
  <2>4. QED
    BY <2>2, <2>3
<1>6. View(msg) \notin missed' => Published(View(msg))'
  <2>1. ASSUME View(msg) \notin missed' PROVE Published(View(msg))'
    <3>1. missed' = missed \ {View(msg)}
      BY <1>4, <2>1
    <3>2. CASE msg.kind = "dl"
      <4>1. dl' = [dl EXCEPT !.key = <<dl.device, dl.transport>>]
        BY <2>1, <3>2 DEF Publish
      <4>2. View(msg)' = "dl"
        BY <1>1, <3>2 DEF View
      <4>3. dl'.key = <<dl'.device, dl'.transport>>
        BY <1>3, <4>1 DEF PublishedInv
      <4>4. QED
        BY <4>2, <4>3 DEF Published
    <3>3. CASE msg.kind # "dl"
      <4>1. key' = [am |-> am, vm |-> vm]
        BY <2>1, <3>3 DEF Publish
      <4>2. View(msg)' = "ml"
        BY <1>1, <3>3 DEF View
      <4>3. QED
        BY <1>1, <4>1, <4>2 DEF Published
    <3>4. QED
      BY <3>2, <3>3
  <2>2. QED
    BY <2>1
<1>7. \A v \in {"ml", "dl"} \ missed' : Published(v)'
  BY <1>1, <1>4, <1>5, <1>6 DEF View
<1>8. QED
  BY <1>1, <1>3, <1>7 DEF PublishedInv

\* Every other step leaves a view that is being published alone.
LEMMA NextElsewhere ==
    ASSUME [Next]_vars, ~Update, ~Publish
    PROVE  /\ UNCHANGED <<am, vm, key, missed, dl>>
           /\ \/ UNCHANGED <<pc, msg>>
              \/ pc # "publish" /\ pc' \in {"idle", "devices", "update"}
<1>1. CASE Take
  BY <1>1 DEF Take, views
<1>2. CASE ListenerDevices
  BY <1>2 DEF ListenerDevices, views
<1>3. CASE Resubscribe \/ Disconnect \/ Environment \/ UNCHANGED vars
  BY <1>3 DEF Resubscribe, Disconnect, Environment, vars, views
<1>4. ASSUME NEW w \in Sweepers, SweepStep(w)
      PROVE  UNCHANGED <<am, vm, key, missed, dl, pc, msg>>
  BY <1>4 DEF SweepStep, SweepEnters, SweepProbes, SweepPublishes, SweepLeaves, views
<1>5. CASE Query
  BY <1>5 DEF Query, QueryAsks, QueryJoins, QueryGivesUp, views
<1>6. QED
  BY <1>1, <1>2, <1>3, <1>4, <1>5 DEF Next, Listen

LEMMA NextPublishedInv == ASSUME PublishedInv, [Next]_vars PROVE PublishedInv'
<1>1. CASE Update
  BY <1>1, UpdatePublished
<1>2. CASE Publish
  BY <1>2, PublishPublished
<1>3. CASE ~Update /\ ~Publish
  <2>1. \A v \in {"ml", "dl"} : Published(v)' <=> Published(v)
    BY <1>3, NextElsewhere DEF Published
  <2>2. \A v \in {"ml", "dl"} : (pc = "publish" /\ View(msg) = v)' <=> (pc = "publish" /\ View(msg) = v)
    BY <1>3, NextElsewhere DEF View
  <2>3. QED
    BY <1>3, <2>1, <2>2, NextElsewhere DEF PublishedInv
<1>4. QED
  BY <1>1, <1>2, <1>3

\* What is stored differs from what was there.
LEMMA PublishIsNews ==
    ASSUME PublishedInv, Publish, up', View(msg) \notin missed
    PROVE  <<key, dl.key>>' # <<key, dl.key>>
<1>1. pc = "publish" /\ ~Published(View(msg))
  BY DEF Publish, PublishedInv, View
<1>2. CASE msg.kind = "dl"
  <2>1. dl' = [dl EXCEPT !.key = <<dl.device, dl.transport>>]
    BY <1>2 DEF Publish
  <2>2. dl'.key = <<dl.device, dl.transport>>
    BY <2>1 DEF PublishedInv
  <2>3. dl.key # <<dl.device, dl.transport>>
    BY <1>1, <1>2 DEF View, Published
  <2>4. QED
    BY <2>2, <2>3
<1>3. CASE msg.kind # "dl"
  <2>1. key' = [am |-> am, vm |-> vm]
    BY <1>3 DEF Publish
  <2>2. key # [am |-> am, vm |-> vm]
    BY <1>1, <1>3 DEF View, Published
  <2>3. QED
    BY <2>1, <2>2
<1>4. QED
  BY <1>2, <1>3

\* Repeated status frames and doubled bytes are not published as news, however
\* they are mixed with those of other views and with failing publications.
THEOREM RepeatsAreQuiet == Spec => NoRefire
<1> DEFINE News ==
        pc = "publish" /\ pc' = "idle" /\ up' /\ View(msg) \notin missed
        => <<key, dl.key>>' # <<key, dl.key>>
<1>1. Init => PublishedInv
  BY DEF Init, PublishedInv, Published, Silent
<1>2. PublishedInv /\ [Next]_vars => PublishedInv'
  BY NextPublishedInv
<1>3. PublishedInv /\ [Next]_vars => News
  <2> SUFFICES ASSUME PublishedInv, [Next]_vars,
                      pc = "publish", pc' = "idle", up', View(msg) \notin missed
               PROVE  <<key, dl.key>>' # <<key, dl.key>>
    OBVIOUS
  <2>1. ~Update
    BY DEF Update
  <2>2. Publish
    BY <2>1, NextElsewhere
  <2>3. QED
    BY <2>2, PublishIsNews
<1>4. QED
  <2> HIDE DEF News
  <2>1. Spec => [][News]_vars
    BY <1>1, <1>2, <1>3, PTL DEF Spec
  <2>2. QED
    BY <2>1 DEF News, NoRefire

-----------------------------------------------------------------------------
(***************************************************************************)
(* The slots follow the masters.  What has been heard and not yet handled  *)
(* leads the slot of a master that was told to what that master does.      *)
(***************************************************************************)

Sources == Audio \cup Video \cup {None}

\* What a telegram makes of source s in the slot of master m.
Effect(m, s, t) ==
    IF t.kind \in {"dl", "discover"} \/ ~CarriesSource(t) THEN s
    ELSE IF Kind(t.src) = (IF m = AM THEN "am" ELSE "vm")
    THEN IF t.active THEN t.src
         ELSE IF (t.kind = "status" /\ t.frm = m) \/ s = t.src THEN None ELSE s
    ELSE IF m = VM /\ t.frm = VM THEN None ELSE s

\* The telegrams of ts, one after the other, make r of s.
Leads(m, s, ts, r) ==
    \E f \in [0..Len(ts) -> Sources] :
        /\ f[0] = s /\ f[Len(ts)] = r
        /\ \A i \in 1..Len(ts) : f[i] = Effect(m, f[i - 1], ts[i])

Slot(m) == IF m = AM THEN am.source ELSE vm.source
Plays(m) == IF m = AM THEN amPlays ELSE vmShows

\* The slot when the telegram in hand is applied.
Start(m) == IF pc \in {"devices", "update"} THEN Effect(m, Slot(m), msg) ELSE Slot(m)

FollowInv ==
    /\ vmShows \in Video \cup {None}
    /\ ~up => told = {} /\ inbox = <<>>
    /\ pc # "idle" => msg.kind # "discover"
    /\ \A m \in Masters :
        \E r \in Sources : Leads(m, Start(m), inbox, r) /\ (m \in told => r = Plays(m))

LEMMA EffectTyped ==
    ASSUME NEW m, NEW s \in Sources, NEW t
    PROVE  Effect(m, s, t) \in Sources
  BY DEF Effect, CarriesSource, Sources

LEMMA LeadsNowhere ==
    ASSUME NEW m, NEW s \in Sources
    PROVE  Leads(m, s, <<>>, s)
<1> DEFINE f == [i \in 0..0 |-> s]
<1>1. f \in [0..Len(<<>>) -> Sources] /\ f[0] = s /\ Len(<<>>) = 0
  OBVIOUS
<1>2. \A i \in 1..Len(<<>>) : f[i] = Effect(m, f[i - 1], <<>>[i])
  BY <1>1
<1>3. QED
  BY <1>1, <1>2 DEF Leads

LEMMA LeadsStill ==
    ASSUME NEW m, NEW s, NEW r, Leads(m, s, <<>>, r)
    PROVE  r = s
  BY DEF Leads

\* One more telegram is heard.
LEMMA LeadsFurther ==
    ASSUME NEW m, NEW s, NEW r, NEW T, NEW ts \in Seq(T), NEW t \in T, Leads(m, s, ts, r)
    PROVE  Leads(m, s, Append(ts, t), Effect(m, r, t)) /\ Effect(m, r, t) \in Sources
<1>1. PICK f \in [0..Len(ts) -> Sources] :
          /\ f[0] = s /\ f[Len(ts)] = r
          /\ \A i \in 1..Len(ts) : f[i] = Effect(m, f[i - 1], ts[i])
  BY DEF Leads
<1> DEFINE n == Len(ts)
           us == Append(ts, t)
           g == [i \in 0..(n + 1) |-> IF i <= n THEN f[i] ELSE Effect(m, r, t)]
<1>2. n \in Nat /\ Len(us) = n + 1 /\ us[n + 1] = t /\ \A i \in 1..n : us[i] = ts[i]
  BY AppendProperties, LenProperties
<1>3. r \in Sources
  BY <1>1, <1>2
<1>4. Effect(m, r, t) \in Sources
  BY <1>3, EffectTyped
<1>5. g \in [0..(n + 1) -> Sources] /\ g[0] = s /\ g[n + 1] = Effect(m, r, t)
  BY <1>1, <1>2, <1>4
<1>6. ASSUME NEW i \in 1..(n + 1)
      PROVE  g[i] = Effect(m, g[i - 1], us[i])
  <2>1. CASE i = n + 1
    <3>1. g[i - 1] = r /\ us[i] = t
      BY <1>1, <1>2, <2>1
    <3>2. QED
      BY <1>5, <2>1, <3>1
  <2>2. CASE i \in 1..n
    <3>1. g[i - 1] = f[i - 1] /\ g[i] = f[i] /\ us[i] = ts[i]
      BY <1>2, <2>2
    <3>2. QED
      BY <1>1, <2>2, <3>1
  <2>3. QED
    BY <1>2, <2>1, <2>2
<1> HIDE DEF g, us
<1>7. QED
  BY <1>2, <1>4, <1>5, <1>6 DEF Leads, us

\* The first telegram is taken.
LEMMA LeadsFromNext ==
    ASSUME NEW m, NEW s, NEW r, NEW T, NEW ts \in Seq(T), ts # <<>>, Leads(m, s, ts, r)
    PROVE  Leads(m, Effect(m, s, Head(ts)), Tail(ts), r)
<1>1. PICK f \in [0..Len(ts) -> Sources] :
          /\ f[0] = s /\ f[Len(ts)] = r
          /\ \A i \in 1..Len(ts) : f[i] = Effect(m, f[i - 1], ts[i])
  BY DEF Leads
<1> DEFINE n == Len(ts) - 1
           us == Tail(ts)
           g == [i \in 0..n |-> f[i + 1]]
<1>2. n \in Nat /\ Len(us) = n /\ Head(ts) = ts[1] /\ \A i \in 1..n : us[i] = ts[i + 1]
  BY HeadTailProperties, LenProperties, EmptySeq
<1>3. g \in [0..n -> Sources] /\ g[0] = f[1] /\ g[n] = r
  BY <1>1, <1>2
<1>4. f[1] = Effect(m, s, Head(ts))
  BY <1>1, <1>2
<1>5. ASSUME NEW i \in 1..n
      PROVE  g[i] = Effect(m, g[i - 1], us[i])
  <2>1. g[i - 1] = f[i] /\ g[i] = f[i + 1] /\ us[i] = ts[i + 1]
    BY <1>2
  <2>2. i + 1 \in 1..Len(ts) /\ (i + 1) - 1 = i
    BY <1>2
  <2>3. f[i + 1] = Effect(m, f[(i + 1) - 1], ts[i + 1])
    BY <1>1, <2>2
  <2>4. QED
    BY <2>1, <2>2, <2>3
<1> HIDE DEF g, us
<1>6. QED
  BY <1>2, <1>3, <1>4, <1>5 DEF Leads, us

-----------------------------------------------------------------------------
(* The environment says what the masters do.                               *)

LEMMA OneFollowed ==
    ASSUME FollowInv, InboxInv, NEW t \in Heard, Deliver(<<t>>),
           UNCHANGED <<up, pc, msg, am, vm>>,
           vmShows' \in Video \cup {None}, ~up => told' = {},
           \A m \in Masters, r \in Sources :
              up /\ (m \in told => r = Plays(m)) /\ m \in told' => Effect(m, r, t) = Plays(m)'
    PROVE  FollowInv'
<1>1. \A m \in Masters : Start(m)' = Start(m)
  BY DEF Start, Slot
<1>2. CASE ~up
  <2>1. inbox' = inbox
    BY <1>2 DEF Deliver
  <2>2. QED
    BY <1>1, <1>2, <2>1 DEF FollowInv
<1>3. CASE up
  <2>1. inbox' = Append(inbox, t)
    BY <1>3 DEF Deliver, InboxInv
  <2>2. ASSUME NEW m \in Masters
        PROVE  \E r \in Sources : Leads(m, Start(m)', inbox', r) /\ (m \in told' => r = Plays(m)')
    <3>1. PICK r \in Sources : Leads(m, Start(m), inbox, r) /\ (m \in told => r = Plays(m))
      BY DEF FollowInv
    <3>2. Leads(m, Start(m), Append(inbox, t), Effect(m, r, t)) /\ Effect(m, r, t) \in Sources
      BY <3>1, LeadsFurther DEF InboxInv
    <3>3. m \in told' => Effect(m, r, t) = Plays(m)'
      BY <1>3, <3>1
    <3>4. QED
      BY <1>1, <2>1, <3>2, <3>3
  <2>3. QED
    BY <1>3, <2>2 DEF FollowInv, Leads, Effect, Start
<1>4. QED
  BY <1>2, <1>3

LEMMA TwoFollowed ==
    ASSUME FollowInv, InboxInv, NEW t \in Heard, NEW u \in Heard, Deliver(<<t, u>>),
           UNCHANGED <<up, pc, msg, am, vm>>,
           vmShows' \in Video \cup {None}, ~up => told' = {},
           \A m \in Masters, r \in Sources :
              up /\ (m \in told => r = Plays(m)) /\ m \in told'
              => Effect(m, Effect(m, r, t), u) = Plays(m)'
    PROVE  FollowInv'
<1>1. \A m \in Masters : Start(m)' = Start(m)
  BY DEF Start, Slot
<1>2. CASE ~up
  <2>1. inbox' = inbox
    BY <1>2 DEF Deliver
  <2>2. QED
    BY <1>1, <1>2, <2>1 DEF FollowInv
<1>3. CASE up
  <2>1. inbox' = Append(Append(inbox, t), u) /\ Append(inbox, t) \in Seq(Heard)
    <3>1. inbox \in Seq(Heard) /\ inbox' = inbox \o <<t, u>>
      BY <1>3 DEF Deliver, InboxInv
    <3>2. inbox \o <<t, u>> = Append(Append(inbox, t), u)
      BY <3>1
    <3>3. QED
      BY <3>1, <3>2, AppendProperties
  <2>2. ASSUME NEW m \in Masters
        PROVE  \E r \in Sources : Leads(m, Start(m)', inbox', r) /\ (m \in told' => r = Plays(m)')
    <3>1. PICK r \in Sources : Leads(m, Start(m), inbox, r) /\ (m \in told => r = Plays(m))
      BY DEF FollowInv
    <3>2. Leads(m, Start(m), Append(inbox, t), Effect(m, r, t)) /\ Effect(m, r, t) \in Sources
      BY <3>1, LeadsFurther DEF InboxInv
    <3> DEFINE q == Effect(m, Effect(m, r, t), u)
    <3>3. Leads(m, Start(m), Append(Append(inbox, t), u), q) /\ q \in Sources
      BY <2>1, <3>2, LeadsFurther
    <3>4. m \in told' => q = Plays(m)'
      BY <1>3, <3>1
    <3>5. QED
      BY <1>1, <2>1, <3>3, <3>4
  <2>3. QED
    BY <1>3, <2>2 DEF FollowInv, Leads, Effect, Start
<1>4. QED
  BY <1>2, <1>3

\* Telegrams that say nothing of a source.
LEMMA NoEffect ==
    ASSUME NEW m, NEW s, NEW t, t.kind \in {"dl", "discover"} \/ ~CarriesSource(t)
    PROVE  Effect(m, s, t) = s
  BY DEF Effect

LEMMA SourceKinds ==
    /\ \A s \in Audio : Kind(s) = "am" /\ s # None
    /\ \A v \in Video : Kind(v) = "vm" /\ v # None
    /\ AM # VM /\ Other # VM /\ Other # AM
  BY DEF Kind, Masters

LEMMA EnvironmentFollows ==
    ASSUME WorldInv, InboxInv, FollowInv, Environment
    PROVE  FollowInv'
<1> USE SourceKinds DEF WorldInv
<1>0. /\ UNCHANGED <<up, pc, msg, am, vm>> /\ vmShows \in Video \cup {None}
      /\ ~up => told = {}
      /\ AM \in Masters /\ VM \in Masters /\ \A m \in Masters : m = AM \/ m = VM
      /\ TRUE \in BOOLEAN /\ FALSE \in BOOLEAN /\ 0 \in 0..1
  BY DEF Environment, views, FollowInv, Masters
<1>1. CASE AmAnnounces
  <2>1. PICK s \in Audio, track \in 0..1 :
            amPlays' = s /\ Deliver(<<Status(AM, s, TRUE, track)>>)
    BY <1>1 DEF AmAnnounces
  <2> DEFINE t == Status(AM, s, TRUE, track)
  <2>2. t \in Heard
    BY <1>0, StatusHeard
  <2>3. vmShows' = vmShows /\ told' = IF up THEN told \cup {AM} ELSE told \ {AM}
    BY <1>1 DEF AmAnnounces, Announced
  <2>4. \A r : Effect(AM, r, t) = s /\ Effect(VM, r, t) = r
    BY DEF Effect, CarriesSource, Status, Telegram
  <2> HIDE DEF t
  <2>5. \A m \in Masters, r \in Sources :
           up /\ (m \in told => r = Plays(m)) /\ m \in told' => Effect(m, r, t) = Plays(m)'
    BY <1>0, <2>1, <2>3, <2>4 DEF Plays
  <2>6. Deliver(<<t>>)
    BY <2>1 DEF t
  <2>7. QED
    BY <1>0, <2>2, <2>3, <2>5, <2>6, OneFollowed
<1>2. CASE AmStops
  <2>1. amPlays \in Audio /\ amPlays' = None /\ vmShows' = vmShows
    BY <1>2 DEF AmStops
  <2>2. CASE Deliver(<<Release(Other, amPlays)>>) /\ told' = IF up THEN told ELSE told \ {AM}
    <3> DEFINE t == Release(Other, amPlays)
    <3>1. t \in Heard
      BY <2>1, ReleaseHeard
    <3>2. Effect(AM, amPlays, t) = None /\ \A r : Effect(VM, r, t) = r
      BY <2>1 DEF Effect, CarriesSource, Release, Telegram
    <3>3. Deliver(<<t>>)
      BY <2>2
    <3> HIDE DEF t
    <3>4. \A m \in Masters, r \in Sources :
             up /\ (m \in told => r = Plays(m)) /\ m \in told' => Effect(m, r, t) = Plays(m)'
      BY <1>0, <2>1, <2>2, <3>2 DEF Plays
    <3>5. QED
      BY <1>0, <2>1, <2>2, <3>1, <3>3, <3>4, OneFollowed
  <2>3. CASE (\E s \in Audio : Deliver(<<Status(AM, s, FALSE, 0)>>)) /\ Announced({AM})
    <3>0. PICK s \in Audio : Deliver(<<Status(AM, s, FALSE, 0)>>)
      BY <2>3
    <3> DEFINE t == Status(AM, s, FALSE, 0)
    <3>1. t \in Heard
      BY <1>0, StatusHeard
    <3>2. \A r : Effect(AM, r, t) = None /\ Effect(VM, r, t) = r
      BY DEF Effect, CarriesSource, Status, Telegram
    <3>3. Deliver(<<t>>)
      BY <3>0
    <3> HIDE DEF t
    <3>4. told' = IF up THEN told \cup {AM} ELSE told \ {AM}
      BY <2>3 DEF Announced
    <3>5. \A m \in Masters, r \in Sources :
             up /\ (m \in told => r = Plays(m)) /\ m \in told' => Effect(m, r, t) = Plays(m)'
      BY <1>0, <2>1, <3>2, <3>4 DEF Plays
    <3>6. QED
      BY <1>0, <2>1, <3>1, <3>3, <3>4, <3>5, OneFollowed
  <2>4. QED
    BY <1>2, <2>2, <2>3 DEF AmStops
<1>3. CASE VmShowsVideo
  <2>1. PICK v \in Video : vmShows' = v /\ Deliver(<<SourcelessStandby, Goto(VM, v)>>)
    BY <1>3 DEF VmShowsVideo
  <2>2. VM \in present /\ amPlays' = amPlays /\ told' = IF up THEN told \cup {VM} ELSE told \ {VM}
    BY <1>3 DEF VmShowsVideo, Announced
  <2> DEFINE t == SourcelessStandby
             u == Goto(VM, v)
  <2>3. t \in Heard /\ u \in Heard
    BY <2>2, StandbyHeard, GotoHeard
  <2>4. \A m, r : Effect(m, r, t) = r
    BY DEF Effect, CarriesSource, SourcelessStandby, Telegram
  <2>5. \A r : Effect(AM, r, u) = r /\ Effect(VM, r, u) = v
    BY DEF Effect, CarriesSource, Goto, Telegram
  <2>6. Deliver(<<t, u>>)
    BY <2>1
  <2> HIDE DEF t, u
  <2>7. \A m \in Masters, r \in Sources :
           up /\ (m \in told => r = Plays(m)) /\ m \in told'
           => Effect(m, Effect(m, r, t), u) = Plays(m)'
    BY <1>0, <2>1, <2>2, <2>4, <2>5 DEF Plays
  <2>8. QED
    BY <1>0, <2>1, <2>2, <2>3, <2>6, <2>7, TwoFollowed
<1>4. CASE VmOff
  <2>1. PICK v \in Video : Deliver(<<Status(VM, v, FALSE, 0)>>)
    BY <1>4 DEF VmOff
  <2>2. /\ VM \in present /\ amPlays' = amPlays /\ vmShows' = None
        /\ told' = IF up THEN told \cup {VM} ELSE told \ {VM}
    BY <1>4 DEF VmOff, Announced
  <2> DEFINE t == Status(VM, v, FALSE, 0)
  <2>3. t \in Heard
    BY <1>0, <2>2, StatusHeard
  <2>4. \A r : Effect(AM, r, t) = r /\ Effect(VM, r, t) = None
    BY DEF Effect, CarriesSource, Status, Telegram
  <2>5. Deliver(<<t>>)
    BY <2>1
  <2> HIDE DEF t
  <2>6. \A m \in Masters, r \in Sources :
           up /\ (m \in told => r = Plays(m)) /\ m \in told' => Effect(m, r, t) = Plays(m)'
    BY <1>0, <2>2, <2>4 DEF Plays
  <2>7. QED
    BY <1>0, <2>2, <2>3, <2>5, <2>6, OneFollowed
<1>5. CASE VmToAudio
  <2>1. PICK s \in Audio : amPlays' = s /\ Deliver(<<Goto(VM, s)>>)
    BY <1>5 DEF VmToAudio
  <2>2. /\ VM \in present /\ vmShows' = None
        /\ told' = IF up THEN told \cup Masters ELSE told \ Masters
    BY <1>5 DEF VmToAudio, Announced
  <2> DEFINE t == Goto(VM, s)
  <2>3. t \in Heard
    BY <2>2, GotoHeard
  <2>4. \A r : Effect(AM, r, t) = s /\ Effect(VM, r, t) = None
    BY DEF Effect, CarriesSource, Goto, Telegram
  <2>5. Deliver(<<t>>)
    BY <2>1
  <2> HIDE DEF t
  <2>6. \A m \in Masters, r \in Sources :
           up /\ (m \in told => r = Plays(m)) /\ m \in told' => Effect(m, r, t) = Plays(m)'
    BY <1>0, <2>1, <2>2, <2>4 DEF Plays
  <2>7. QED
    BY <1>0, <2>2, <2>3, <2>5, <2>6, OneFollowed
<1>6. CASE LateRelease
  <2>1. PICK s \in (Audio \cup Video) \ {amPlays, vmShows} : Deliver(<<Release(Other, s)>>)
    BY <1>6 DEF LateRelease
  <2>2. UNCHANGED <<amPlays, vmShows, told>>
    BY <1>6 DEF LateRelease, world
  <2> DEFINE t == Release(Other, s)
  <2>3. t \in Heard
    BY ReleaseHeard
  <2>4. \A r : r # s => Effect(AM, r, t) = r /\ Effect(VM, r, t) = r
    BY DEF Effect, CarriesSource, Release, Telegram
  <2>5. Deliver(<<t>>)
    BY <2>1
  <2> HIDE DEF t
  <2>6. \A m \in Masters, r \in Sources :
           up /\ (m \in told => r = Plays(m)) /\ m \in told' => Effect(m, r, t) = Plays(m)'
    BY <1>0, <2>1, <2>2, <2>4 DEF Plays
  <2>7. QED
    BY <1>0, <2>2, <2>3, <2>5, <2>6, OneFollowed
<1>7. CASE DatalinkByte
  <2>1. PICK d \in {"BG", "SYS"}, c \in {"playing", "standby"} :
            Deliver(<<Datalink(d, c), Datalink(d, c)>>)
    BY <1>7 DEF DatalinkByte
  <2>2. UNCHANGED <<amPlays, vmShows, told>>
    BY <1>7 DEF DatalinkByte, world
  <2> DEFINE t == Datalink(d, c)
  <2>3. t \in Heard
    BY DatalinkHeard
  <2>4. \A m, r : Effect(m, r, t) = r
    BY NoEffect DEF Datalink, Telegram
  <2>5. Deliver(<<t, t>>)
    BY <2>1
  <2> HIDE DEF t
  <2>6. \A m \in Masters, r \in Sources :
           up /\ (m \in told => r = Plays(m)) /\ m \in told'
           => Effect(m, Effect(m, r, t), t) = Plays(m)'
    BY <2>2, <2>4 DEF Plays
  <2>7. QED
    BY <1>0, <2>2, <2>3, <2>5, <2>6, TwoFollowed
<1>8. CASE Trigger
  <2>1. Deliver(<<Discover>>) /\ UNCHANGED <<amPlays, vmShows, told>>
    BY <1>8 DEF Trigger, world
  <2>2. \A m, r : Effect(m, r, Discover) = r
    BY NoEffect DEF Discover, Telegram, CarriesSource
  <2>3. \A m \in Masters, r \in Sources :
           up /\ (m \in told => r = Plays(m)) /\ m \in told' => Effect(m, r, Discover) = Plays(m)'
    BY <2>1, <2>2 DEF Plays
  <2>4. QED
    BY <1>0, <2>1, <2>3, DiscoverHeard, OneFollowed
<1>9. QED
  BY <1>1, <1>2, <1>3, <1>4, <1>5, <1>6, <1>7, <1>8 DEF Environment

-----------------------------------------------------------------------------
(* Probes and their answers say nothing of a source, the query is answered *)
(* with what the audio master plays or makes it play.                      *)

\* What a master does and what it was told is the same.
LEMMA QuietFollowed ==
    ASSUME FollowInv, InboxInv, UNCHANGED <<up, pc, msg, am, vm, amPlays, vmShows, told>>,
           \/ inbox' = inbox
           \/ \E t \in Heard : Deliver(<<t>>) /\ ~CarriesSource(t)
           \/ \E t, u \in Heard : Deliver(<<t, u>>) /\ ~CarriesSource(t) /\ ~CarriesSource(u)
    PROVE  FollowInv'
<1>0. vmShows' \in Video \cup {None} /\ (~up => told' = {})
  BY DEF FollowInv
<1>1. CASE inbox' = inbox
  BY <1>1 DEF FollowInv, Leads, Effect, Start, Slot, Plays
<1>2. ASSUME NEW t \in Heard, Deliver(<<t>>), ~CarriesSource(t)
      PROVE  FollowInv'
  <2>1. \A m, r : Effect(m, r, t) = r
    BY <1>2, NoEffect
  <2>2. \A m \in Masters, r \in Sources :
           up /\ (m \in told => r = Plays(m)) /\ m \in told' => Effect(m, r, t) = Plays(m)'
    BY <2>1 DEF Plays
  <2>3. QED
    BY <1>0, <1>2, <2>2, OneFollowed
<1>3. ASSUME NEW t \in Heard, NEW u \in Heard, Deliver(<<t, u>>),
             ~CarriesSource(t), ~CarriesSource(u)
      PROVE  FollowInv'
  <2>1. \A m, r : Effect(m, r, t) = r /\ Effect(m, r, u) = r
    BY <1>3, NoEffect
  <2>2. \A m \in Masters, r \in Sources :
           up /\ (m \in told => r = Plays(m)) /\ m \in told'
           => Effect(m, Effect(m, r, t), u) = Plays(m)'
    BY <2>1 DEF Plays
  <2>3. QED
    BY <1>0, <1>3, <2>2, TwoFollowed
<1>4. QED
  BY <1>1, <1>2, <1>3

LEMMA Pair == \A t, u : <<t>> \o <<u>> = <<t, u>> /\ <<t>> \o <<>> = <<t>>
<1> SUFFICES ASSUME NEW t, NEW u PROVE <<t>> \o <<u>> = <<t, u>> /\ <<t>> \o <<>> = <<t>>
  OBVIOUS
<1> DEFINE T == {t, u}
<1>1. t \in T /\ u \in T
  OBVIOUS
<1> HIDE DEF T
<1>2. <<t>> \in Seq(T) /\ <<u>> \in Seq(T) /\ <<>> \in Seq(T) /\ <<t, u>> \in Seq(T)
  BY <1>1
<1>3. <<t>> \o <<u>> \in Seq(T) /\ <<t>> \o <<>> \in Seq(T)
  BY <1>2
<1>4. Len(<<t>>) = 1 /\ Len(<<u>>) = 1 /\ Len(<<>>) = 0 /\ Len(<<t, u>>) = 2
  OBVIOUS
<1>5. <<t>> \o <<u>> = <<t, u>>
  <2>1. /\ Len(<<t>> \o <<u>>) = 2
        /\ \A i \in 1..2 : (<<t>> \o <<u>>)[i] = IF i <= 1 THEN <<t>>[i] ELSE <<u>>[i - 1]
    BY <1>2, <1>4, ConcatProperties
  <2>2. \A i \in 1..2 : (<<t>> \o <<u>>)[i] = <<t, u>>[i]
    BY <2>1
  <2> DEFINE x == <<t>> \o <<u>>
             y == <<t, u>>
  <2>3. x \in Seq(T) /\ y \in Seq(T) /\ Len(x) = Len(y) /\ \A i \in 1..Len(x) : x[i] = y[i]
    BY <1>2, <1>3, <1>4, <2>1, <2>2
  <2> HIDE DEF x, y
  <2>4. x = y
    BY <2>3, SeqEqual
  <2>5. QED
    BY <2>4 DEF x, y
<1>6. <<t>> \o <<>> = <<t>>
  BY <1>2, ConcatEmptySeq
<1>7. QED
  BY <1>5, <1>6

LEMMA SweepFollows ==
    ASSUME WorldInv, InboxInv, FollowInv, NEW w \in Sweepers, SweepStep(w)
    PROVE  FollowInv'
<1>1. UNCHANGED <<up, pc, msg, am, vm, amPlays, vmShows, told>>
  BY DEF SweepStep, SweepEnters, SweepProbes, SweepPublishes, SweepLeaves, world, views
<1>2. CASE inbox' = inbox
  BY <1>1, <1>2, QuietFollowed
<1>3. CASE SweepProbes(w)
  <2> DEFINE a == SweepOrder[sweep[w].sent + 1]
             t == Probe(a)
             u == Pong(a)
  <2>1. \/ Deliver(<<t>>)
        \/ a \in present /\ Deliver(<<t>> \o <<u>>)
        \/ a \notin present /\ Deliver(<<t>> \o <<>>)
    BY <1>3 DEF SweepProbes
  <2>2. t \in Heard /\ (a \in present => u \in Heard)
    BY ProbeHeard, PongHeard DEF WorldInv
  <2>3. ~CarriesSource(t) /\ ~CarriesSource(u)
    BY DEF CarriesSource, Probe, Pong, Telegram
  <2> HIDE DEF t, u, a
  <2>4. <<t>> \o <<u>> = <<t, u>> /\ <<t>> \o <<>> = <<t>>
    BY Pair
  <2>5. \/ Deliver(<<t>>)
        \/ a \in present /\ Deliver(<<t, u>>)
    BY <2>1, <2>4
  <2>6. QED
    BY <1>1, <2>2, <2>3, <2>5, QuietFollowed
<1>4. QED
  BY <1>2, <1>3 DEF SweepStep, SweepEnters, SweepPublishes, SweepLeaves

LEMMA QueryFollows ==
    ASSUME WorldInv, InboxInv, SlotInv, FollowInv, Query
    PROVE  FollowInv'
<1> USE SourceKinds DEF WorldInv
<1>0. /\ UNCHANGED <<up, pc, msg, am, vm>> /\ vmShows' = vmShows
      /\ vmShows \in Video \cup {None}
      /\ ~up => told = {}
      /\ AM \in Masters /\ \A m \in Masters : m = AM \/ m = VM
      /\ TRUE \in BOOLEAN /\ 1 \in 0..1
  BY DEF Query, QueryAsks, QueryJoins, QueryGivesUp, FollowInv, Masters, world, views
<1>1. CASE UNCHANGED <<amPlays, told, inbox>>
  BY <1>0, <1>1, QuietFollowed
<1>2. CASE amPlays # None /\ Deliver(<<CurrentSource(amPlays)>>) /\ UNCHANGED world
  <2> DEFINE t == CurrentSource(amPlays)
  <2>1. amPlays \in Audio /\ UNCHANGED <<amPlays, told>>
    BY <1>2 DEF world
  <2>2. t \in Heard
    BY <2>1, CurrentSourceHeard
  <2>3. \A r : Effect(AM, r, t) = amPlays /\ Effect(VM, r, t) = r
    BY <2>1 DEF Effect, CarriesSource, CurrentSource, Telegram
  <2>4. Deliver(<<t>>)
    BY <1>2
  <2> HIDE DEF t
  <2>5. \A m \in Masters, r \in Sources :
           up /\ (m \in told => r = Plays(m)) /\ m \in told' => Effect(m, r, t) = Plays(m)'
    BY <1>0, <2>1, <2>3 DEF Plays
  <2>6. QED
    BY <1>0, <2>1, <2>2, <2>4, <2>5, OneFollowed
<1>3. CASE /\ am.source # None /\ amPlays' = am.source
           /\ Deliver(<<Status(AM, am.source, TRUE, 1)>>) /\ Announced({AM})
  <2> DEFINE t == Status(AM, am.source, TRUE, 1)
  <2>1. am.source \in Audio
    BY <1>3 DEF SlotInv
  <2>2. t \in Heard
    BY <1>0, <2>1, StatusHeard
  <2>3. \A r : Effect(AM, r, t) = am.source /\ Effect(VM, r, t) = r
    BY <2>1 DEF Effect, CarriesSource, Status, Telegram
  <2>4. Deliver(<<t>>)
    BY <1>3
  <2> HIDE DEF t
  <2>5. told' = IF up THEN told \cup {AM} ELSE told \ {AM}
    BY <1>3 DEF Announced
  <2>6. \A m \in Masters, r \in Sources :
           up /\ (m \in told => r = Plays(m)) /\ m \in told' => Effect(m, r, t) = Plays(m)'
    BY <1>0, <1>3, <2>3, <2>5 DEF Plays
  <2>7. QED
    BY <1>0, <2>2, <2>4, <2>5, <2>6, OneFollowed
<1>4. QED
  BY <1>1, <1>2, <1>3 DEF Query, QueryAsks, QueryJoins, QueryGivesUp, world

-----------------------------------------------------------------------------
(* The listen loop does with the slots what its telegrams say, or starts   *)
(* anew with nothing told.                                                 *)

LEMMA UpdateFollows ==
    ASSUME FollowInv, Update
    PROVE  FollowInv'
<1>1. /\ pc = "update" /\ pc' \in {"idle", "publish"} /\ msg.kind # "discover"
      /\ UNCHANGED <<amPlays, vmShows, told, up, inbox, msg>>
  BY DEF Update, world, FollowInv
<1>2. \A m \in Masters : Slot(m)' = Effect(m, Slot(m), msg)
  <2>1. CASE msg.kind = "dl" \/ ~CarriesSource(msg)
    <3>1. am' = am /\ vm' = vm
      BY <2>1 DEF Update
    <3>2. QED
      BY <2>1, <3>1, NoEffect DEF Slot
  <2>2. CASE msg.kind # "dl" /\ CarriesSource(msg)
    <3>1. am' = NextAm(msg) /\ vm' = NextVm(msg)
      BY <2>2 DEF Update
    <3>2. \A x : Applied(x, msg).source = msg.src /\ Silent.source = None
      BY DEF Applied, Silent
    <3>3. \A x, m : ApplyOrClear(x, msg, m).source =
             IF msg.active THEN msg.src
             ELSE IF (msg.kind = "status" /\ msg.frm = m) \/ x.source = msg.src
             THEN None ELSE x.source
      BY <3>2 DEF ApplyOrClear
    <3>4. am'.source = Effect(AM, am.source, msg)
      BY <1>1, <2>2, <3>1, <3>3 DEF NextAm, Effect, Masters
    <3>5. vm'.source = Effect(VM, vm.source, msg)
      BY <1>1, <2>2, <3>1, <3>2, <3>3, SourceKinds DEF NextVm, Effect, Kind
    <3>6. \A m \in Masters : m = AM \/ m = VM
      BY DEF Masters
    <3>7. QED
      BY <3>4, <3>5, <3>6, SourceKinds DEF Slot
  <2>3. QED
    BY <2>1, <2>2
<1>3. \A m \in Masters : Start(m)' = Start(m)
  BY <1>1, <1>2 DEF Start
<1>4. ASSUME NEW m \in Masters
      PROVE  \E r \in Sources : Leads(m, Start(m)', inbox', r) /\ (m \in told' => r = Plays(m)')
  BY <1>1, <1>3 DEF FollowInv, Plays
<1>5. QED
  BY <1>1, <1>4 DEF FollowInv, Leads, Effect, Start

LEMMA TakeFollows ==
    ASSUME InboxInv, FollowInv, Take
    PROVE  FollowInv'
<1>1. /\ pc = "idle" /\ up /\ inbox # <<>> /\ inbox' = Tail(inbox) /\ inbox \in Seq(Heard)
      /\ UNCHANGED <<amPlays, vmShows, told, up, am, vm>>
  BY DEF Take, world, views, InboxInv
<1>2. \A m \in Masters : Start(m)' = Effect(m, Start(m), Head(inbox))
  <2>1. CASE Head(inbox).kind = "discover" /\ UNCHANGED <<pc, msg>>
    BY <1>1, <2>1, NoEffect DEF Start, Slot
  <2>2. CASE msg' = Head(inbox) /\ pc' \in {"devices", "update"}
    BY <1>1, <2>2 DEF Start, Slot
  <2>3. QED
    BY <2>1, <2>2 DEF Take
<1>3. ASSUME NEW m \in Masters
      PROVE  \E r \in Sources : Leads(m, Start(m)', inbox', r) /\ (m \in told' => r = Plays(m)')
  <2>1. PICK r \in Sources : Leads(m, Start(m), inbox, r) /\ (m \in told => r = Plays(m))
    BY DEF FollowInv
  <2>2. Leads(m, Effect(m, Start(m), Head(inbox)), Tail(inbox), r)
    BY <1>1, <2>1, LeadsFromNext
  <2>3. QED
    BY <1>1, <1>2, <2>1, <2>2 DEF Plays
<1>4. pc' # "idle" => msg'.kind # "discover"
  BY <1>1 DEF Take
<1>5. QED
  BY <1>1, <1>3, <1>4 DEF FollowInv, Leads, Effect, Start

\* Everything that was told is forgotten with the connection.
LEMMA AnewFollows ==
    ASSUME SlotInv, FollowInv, inbox' = <<>>, told' = {}, pc' = "idle",
           UNCHANGED <<vmShows, am, vm>>
    PROVE  FollowInv'
<1>1. \A m \in Masters : Start(m)' = Slot(m) /\ Slot(m) \in Sources
  BY DEF Start, Slot, SlotInv, Slots, Sources
<1>2. \A m \in Masters : Leads(m, Start(m)', inbox', Slot(m))
  BY <1>1, LeadsNowhere
<1>3. QED
  BY <1>1, <1>2 DEF FollowInv, Leads, Effect, Start

LEMMA LoopFollows ==
    ASSUME StateInv, FollowInv, ListenerDevices \/ Publish \/ Resubscribe \/ Disconnect
    PROVE  FollowInv'
<1>1. UNCHANGED <<am, vm, amPlays, vmShows>>
  BY DEF ListenerDevices, Publish, Resubscribe, Disconnect, views, world
<1>2. CASE /\ UNCHANGED <<inbox, told>> /\ (up' = up \/ up')
           /\ \/ UNCHANGED <<pc, msg>>
              \/ pc = "devices" /\ pc' = "update" /\ msg' = msg
              \/ pc = "publish" /\ pc' = "idle"
  <2>1. \A m \in Masters : Start(m)' = Start(m)
    BY <1>1, <1>2 DEF Start, Slot
  <2>2. ASSUME NEW m \in Masters
        PROVE  \E r \in Sources : Leads(m, Start(m)', inbox', r) /\ (m \in told' => r = Plays(m)')
    BY <1>1, <1>2, <2>1 DEF FollowInv, Plays
  <2>3. /\ vmShows' \in Video \cup {None} /\ (~up' => told' = {} /\ inbox' = <<>>)
        /\ pc' # "idle" => msg'.kind # "discover"
    BY <1>1, <1>2 DEF FollowInv
  <2>4. QED
    BY <2>2, <2>3 DEF FollowInv
<1>3. CASE inbox' = <<>> /\ told' = {} /\ pc' = "idle"
  BY <1>1, <1>3, AnewFollows DEF StateInv
<1>4. CASE ListenerDevices
  BY <1>2, <1>3, <1>4 DEF ListenerDevices
<1>5. CASE Publish
  BY <1>2, <1>3, <1>5 DEF Publish
<1>6. CASE Resubscribe \/ Disconnect
  BY <1>2, <1>3, <1>6 DEF Resubscribe, Disconnect, world
<1>7. QED
  BY <1>4, <1>5, <1>6

LEMMA NextFollowInv == ASSUME StateInv, FollowInv, [Next]_vars PROVE FollowInv'
<1> USE DEF StateInv
<1>1. CASE Environment
  BY <1>1, EnvironmentFollows
<1>2. CASE Take
  BY <1>2, TakeFollows
<1>3. CASE Update
  BY <1>3, UpdateFollows
<1>4. CASE ListenerDevices \/ Publish \/ Resubscribe \/ Disconnect
  BY <1>4, LoopFollows
<1>5. ASSUME NEW w \in Sweepers, SweepStep(w) PROVE FollowInv'
  BY <1>5, SweepFollows
<1>6. CASE Query
  BY <1>6, QueryFollows
<1>7. CASE UNCHANGED vars
  BY <1>7, QuietFollowed DEF vars, world, views
<1>8. QED
  BY <1>1, <1>2, <1>3, <1>4, <1>5, <1>6, <1>7 DEF Next, Listen

\* Once everything heard is handled, the slots hold what the masters do: neither
\* the other master nor the release of an old session gets in between.
THEOREM MastersFollowed == Spec => []SlotsFollow
<1>1. StateInv /\ Init => FollowInv
  <2> SUFFICES ASSUME StateInv, Init PROVE FollowInv
    OBVIOUS
  <2>1. \A m \in Masters : Start(m) \in Sources /\ Start(m) = Slot(m)
    BY DEF Init, Start, Slot, Silent, Sources
  <2>2. \A m \in Masters : Leads(m, Start(m), inbox, Start(m))
    BY <2>1, LeadsNowhere DEF Init
  <2>3. QED
    BY <2>1, <2>2 DEF Init, FollowInv
<1>2. StateInv /\ FollowInv /\ [Next]_vars => FollowInv'
  BY NextFollowInv
<1>3. FollowInv => SlotsFollow
  <2> SUFFICES ASSUME FollowInv, Quiet PROVE SlotsFollow
    BY DEF SlotsFollow
  <2>1. pc = "idle" /\ inbox = <<>>
    BY DEF Quiet
  <2>2. \A m \in Masters : m \in told => Plays(m) = Slot(m)
    BY <2>1, LeadsStill DEF FollowInv, Start
  <2>3. QED
    BY <2>2, SourceKinds DEF SlotsFollow, Plays, Slot, Masters
<1>4. QED
  BY <1>1, <1>2, <1>3, StateInvariant, PTL DEF Spec

=============================================================================
