--------------------------- MODULE HomeViewProofs ---------------------------
(***************************************************************************)
(* Theorems of HomeView, for any sources, titles, delays and bounds.       *)
(***************************************************************************)
EXTENDS HomeView, SequenceTheorems, TLAPS

USE HomeAssumption DEF Bridge!hashVars

-----------------------------------------------------------------------------
(***************************************************************************)
(* What counts as sent is what Home Assistant holds.  Besides, slots have  *)
(* their four fields.                                                      *)
(***************************************************************************)

Slot(p, d, t, b) == [pending |-> p, due |-> d, sent |-> t, playing |-> b]
IsSlot(x) == x = Slot(x.pending, x.due, x.sent, x.playing)
Held(s) == slots[s].sent # Nothing => ha[s] \in {slots[s].sent, Nothing}

HeldInv ==
    /\ DOMAIN slots = Sources /\ slots = [s \in DOMAIN slots |-> slots[s]]
    /\ DOMAIN ha = Sources /\ ha = [s \in DOMAIN ha |-> ha[s]]
    /\ \A s \in Sources : IsSlot(slots[s]) /\ Held(s)

\* A slot that changes keeps what was sent, or holds what was sent just now,
\* or holds nothing.
LEMMA OneSlot ==
    ASSUME HeldInv, NEW s \in Sources, NEW p, NEW d, NEW t, NEW b, NEW h,
           slots' = [slots EXCEPT ![s] = Slot(p, d, t, b)],
           ha' = [ha EXCEPT ![s] = h],
           t = Nothing \/ h = t \/ (t = slots[s].sent /\ h = ha[s])
    PROVE  HeldInv'
<1>1. /\ DOMAIN slots' = Sources /\ slots' = [x \in DOMAIN slots' |-> slots'[x]]
      /\ DOMAIN ha' = Sources /\ ha' = [x \in DOMAIN ha' |-> ha'[x]]
  BY DEF HeldInv
<1>2. slots'[s] = Slot(p, d, t, b) /\ ha'[s] = h
  BY DEF HeldInv
<1>3. \A x \in Sources \ {s} : slots'[x] = slots[x] /\ ha'[x] = ha[x]
  BY DEF HeldInv
<1>4. IsSlot(slots'[s]) /\ slots'[s].sent = t
  BY <1>2 DEF IsSlot, Slot
<1>5. Held(s)'
  BY <1>2, <1>4 DEF HeldInv, Held
<1>6. \A x \in Sources \ {s} : IsSlot(slots'[x]) /\ Held(x)'
  BY <1>3 DEF HeldInv, Held
<1>7. QED
  BY <1>1, <1>4, <1>5, <1>6 DEF HeldInv

\* All slots change, but for what was sent.
LEMMA AllSlots ==
    ASSUME HeldInv, ha' = ha, DOMAIN slots' = Sources,
           slots' = [s \in DOMAIN slots' |-> slots'[s]],
           \A s \in Sources : IsSlot(slots'[s]) /\ slots'[s].sent = slots[s].sent
    PROVE  HeldInv'
  BY DEF HeldInv, Held

\* The slots with these four fields: one.
Just(p, d, t, b) == [pending : {p}, due : {d}, sent : {t}, playing : {b}]

LEMMA JustSlot ==
    ASSUME NEW p, NEW d, NEW t, NEW b
    PROVE  /\ Slot(p, d, t, b) \in Just(p, d, t, b)
           /\ \A r \in Just(p, d, t, b) : r = Slot(p, d, t, b)
  BY DEF Slot, Just

Keeps(x, slot) == IsSlot(x) /\ x.sent = slot.sent

LEMMA OfferKeepsSent ==
    ASSUME NEW slot, IsSlot(slot), NEW payload, NEW x,
           \/ x = Notifier!Offer(slot, payload, FALSE)
           \/ x = Notifier!Offer(slot, payload, TRUE)
    PROVE  Keeps(x, slot)
<1>1. \E y, z : x = [slot EXCEPT !.pending = payload, !.due = y, !.playing = z]
  BY Zenon DEF Notifier!Offer
<1>2. PICK y, z : x = [slot EXCEPT !.pending = payload, !.due = y, !.playing = z]
  BY <1>1
<1>3. PICK p, d, t, b : slot \in Just(p, d, t, b)
  BY JustSlot DEF IsSlot
<1>4. slot.sent = t
  BY <1>3, JustSlot DEF Slot
<1>5. x = Slot(payload, y, t, z)
  <2>1. [slot EXCEPT !.pending = payload, !.due = y, !.playing = z] \in Just(payload, y, t, z)
    BY <1>3 DEF Just
  <2>2. QED
    BY <1>2, <2>1, JustSlot
<1>6. QED
  BY <1>4, <1>5 DEF IsSlot, Slot, Keeps

\* A POST: accepted; failed before Home Assistant took it, or after.
LEMMA PostHeld ==
    ASSUME HeldInv, NEW s \in Sources, NEW payload, Notifier!Posted(s, payload)
    PROVE  HeldInv'
<1>1. PICK p, d, u, b : slots[s] \in Just(p, d, u, b)
  BY JustSlot DEF HeldInv, IsSlot
<1>2. CASE /\ slots' = [slots EXCEPT ![s].pending = Nothing, ![s].sent = payload]
           /\ ha' = [ha EXCEPT ![s] = payload]
  <2> DEFINE r == [slots[s] EXCEPT !.pending = Nothing, !.sent = payload]
  <2>1. r \in Just(Nothing, d, payload, b)
    BY <1>1 DEF Just
  <2>2. slots' = [slots EXCEPT ![s] = r]
    BY <1>2 DEF HeldInv
  <2> HIDE DEF r
  <2>3. r = Slot(Nothing, d, payload, b)
    BY <2>1, JustSlot
  <2>4. slots' = [slots EXCEPT ![s] = Slot(Nothing, d, payload, b)]
    BY <2>2, <2>3
  <2>5. QED
    BY <1>2, <2>4, OneSlot
<1>3. ASSUME NEW h,
             slots' = [slots EXCEPT ![s].pending = payload, ![s].due = Retry, ![s].sent = Nothing],
             ha' = [ha EXCEPT ![s] = h]
      PROVE  HeldInv'
  <2> DEFINE r == [slots[s] EXCEPT !.pending = payload, !.due = Retry, !.sent = Nothing]
  <2>1. r \in Just(payload, Retry, Nothing, b)
    BY <1>1 DEF Just
  <2>2. slots' = [slots EXCEPT ![s] = r]
    BY <1>3 DEF HeldInv
  <2> HIDE DEF r
  <2>3. r = Slot(payload, Retry, Nothing, b)
    BY <2>1, JustSlot
  <2>4. slots' = [slots EXCEPT ![s] = Slot(payload, Retry, Nothing, b)]
    BY <2>2, <2>3
  <2> DEFINE t == Nothing
  <2>5. /\ slots' = [slots EXCEPT ![s] = Slot(payload, Retry, t, b)]
        /\ ha' = [ha EXCEPT ![s] = h]
        /\ t = Nothing
    BY <1>3, <2>4
  <2> HIDE DEF t
  <2>6. QED
    BY <2>5, OneSlot
<1>4. ha = [ha EXCEPT ![s] = ha[s]]
  BY DEF HeldInv
<1>5. QED
  BY <1>2, <1>3, <1>4 DEF Notifier!Posted

LEMMA FlappedHeld ==
    ASSUME HeldInv, NEW s \in Sources, Notifier!Flapped(s)
    PROVE  HeldInv'
<1>1. PICK p, d, t, b : slots[s] \in Just(p, d, t, b)
  BY JustSlot DEF HeldInv, IsSlot
<1> DEFINE r == [slots[s] EXCEPT !.pending = Nothing]
<1>2. r \in Just(Nothing, d, t, b)
  BY <1>1 DEF Just
<1>3. slots' = [slots EXCEPT ![s] = r] /\ ha' = ha
  BY DEF HeldInv, Notifier!Flapped
<1>4. slots[s].sent = t
  BY <1>1 DEF Just
<1> HIDE DEF r
<1>5. r = Slot(Nothing, d, t, b)
  BY <1>2, JustSlot
<1>6. ha' = [ha EXCEPT ![s] = ha[s]]
  BY <1>3 DEF HeldInv
<1>7. slots' = [slots EXCEPT ![s] = Slot(Nothing, d, t, b)]
  BY <1>3, <1>5
<1>8. QED
  BY <1>4, <1>6, <1>7, OneSlot

LEMMA ReceiveHeld ==
    ASSUME HeldInv, Notifier!Receive
    PROVE  HeldInv'
<1>1. ha' = ha
  BY DEF Notifier!Receive
<1>2. CASE slots' = slots
  BY <1>1, <1>2 DEF HeldInv, Held
<1>3. ASSUME NEW m, slots' = [slots EXCEPT ![m.src] = Notifier!Offer(slots[m.src], m, FALSE)]
      PROVE  HeldInv'
  <2>1. DOMAIN slots' = Sources /\ slots' = [s \in DOMAIN slots' |-> slots'[s]]
    BY <1>3 DEF HeldInv
  <2>2. ASSUME NEW s \in Sources
        PROVE  IsSlot(slots'[s]) /\ slots'[s].sent = slots[s].sent
    <3>1. IsSlot(slots[s])
      BY DEF HeldInv
    <3>2. CASE s = m.src
      <4>1. slots'[s] = Notifier!Offer(slots[s], m, FALSE)
        BY <1>3, <3>2 DEF HeldInv
      <4>2. QED
        <5>1. Keeps(slots'[s], slots[s])
          BY <3>1, <4>1, OfferKeepsSent, Zenon
        <5>2. QED
          BY <5>1 DEF Keeps
    <3>3. CASE s # m.src
      <4>1. slots'[s] = slots[s]
        BY <1>3, <3>3 DEF HeldInv
      <4>2. QED
        BY <3>1, <4>1
    <3>4. QED
      BY <3>2, <3>3
  <2>3. QED
    BY <1>1, <2>1, <2>2, AllSlots
<1>4. \/ slots' = slots
      \/ \E m : slots' = [slots EXCEPT ![m.src] = Notifier!Offer(slots[m.src], m, FALSE)]
  BY Zenon DEF Notifier!Receive
<1>5. QED
  BY <1>2, <1>3, <1>4

LEMMA ReadHashHeld ==
    ASSUME HeldInv, Notifier!ReadHash
    PROVE  HeldInv'
<1>1. /\ ha' = ha
      /\ slots' = [s \in Sources |->
                     IF stored[s] = Nothing THEN slots[s]
                     ELSE Notifier!Offer(slots[s], stored[s], TRUE)]
  BY DEF Notifier!ReadHash
<1>2. DOMAIN slots' = Sources /\ slots' = [s \in DOMAIN slots' |-> slots'[s]]
  BY <1>1
<1>3. ASSUME NEW s \in Sources
      PROVE  IsSlot(slots'[s]) /\ slots'[s].sent = slots[s].sent
  <2>1. IsSlot(slots[s])
    BY DEF HeldInv
  <2>2. slots'[s] = slots[s] \/ slots'[s] = Notifier!Offer(slots[s], stored[s], TRUE)
    BY <1>1
  <2>3. QED
    <3>1. ASSUME slots'[s] = Notifier!Offer(slots[s], stored[s], TRUE)
          PROVE  Keeps(slots'[s], slots[s])
      BY <2>1, <3>1, OfferKeepsSent, Zenon
    <3>2. QED
      BY <2>1, <2>2, <3>1 DEF Keeps
<1>4. QED
  BY <1>1, <1>2, <1>3, AllSlots

LEMMA ElapseHeld ==
    ASSUME HeldInv, Notifier!Elapse
    PROVE  HeldInv'
<1>1. /\ ha' = ha
      /\ slots' = [s \in Sources |->
                     IF slots[s].due > 0 THEN [slots[s] EXCEPT !.due = slots[s].due - 1]
                     ELSE slots[s]]
  BY Zenon DEF Notifier!Elapse
<1>2. DOMAIN slots' = Sources /\ slots' = [s \in DOMAIN slots' |-> slots'[s]]
  BY <1>1
<1>3. ASSUME NEW s \in Sources
      PROVE  IsSlot(slots'[s]) /\ slots'[s].sent = slots[s].sent
  <2>1. PICK p, d, t, b : slots[s] \in Just(p, d, t, b)
    BY JustSlot DEF HeldInv, IsSlot
  <2> DEFINE y == slots[s].due - 1
             r == [slots[s] EXCEPT !.due = y]
  <2>2. r \in Just(p, y, t, b)
    <3> HIDE DEF y
    <3>1. QED
      BY <2>1 DEF Just
  <2>3. slots'[s] \in {slots[s], r}
    BY <1>1
  <2> HIDE DEF r
  <2> HIDE DEF y
  <2>4. slots[s] = Slot(p, d, t, b) /\ r = Slot(p, y, t, b)
    BY <2>1, <2>2, JustSlot
  <2>5. IsSlot(Slot(p, d, t, b)) /\ IsSlot(Slot(p, y, t, b))
        /\ Slot(p, d, t, b).sent = t /\ Slot(p, y, t, b).sent = t
    BY DEF IsSlot, Slot
  <2>6. QED
    BY <2>3, <2>4, <2>5
<1>4. QED
  BY <1>1, <1>2, <1>3, AllSlots

LEMMA FreshHeld ==
    ASSUME slots' = [s \in Sources |-> Notifier!Fresh],
           DOMAIN ha' = Sources, ha' = [s \in DOMAIN ha' |-> ha'[s]]
    PROVE  HeldInv'
<1>1. Notifier!Fresh = Slot(Nothing, 0, Nothing, FALSE)
  BY DEF Notifier!Fresh, Slot
<1>2. IsSlot(Notifier!Fresh) /\ Notifier!Fresh.sent = Nothing
  BY <1>1 DEF IsSlot, Slot
<1>3. \A s \in Sources : slots'[s] = Notifier!Fresh
  OBVIOUS
<1>4. QED
  BY <1>2, <1>3 DEF HeldInv, Held

LEMMA NotifierHeld ==
    ASSUME HeldInv, Notifier!NotifierStep
    PROVE  HeldInv'
<1>1. CASE Notifier!Subscribe \/ Notifier!Disconnect
  BY <1>1 DEF Notifier!Subscribe, Notifier!Disconnect, HeldInv, Held
<1>2. ASSUME NEW s \in Sources, Notifier!Send(s) \/ Notifier!RepeatSent(s)
      PROVE  HeldInv'
  <2>1. \E payload : Notifier!Posted(s, payload)
    BY <1>2 DEF Notifier!Send, Notifier!RepeatSent
  <2>2. QED
    BY <2>1, PostHeld
<1>3. CASE Notifier!Restart
  <2>1. slots' = [s \in Sources |-> Notifier!Fresh] /\ ha' = ha
    BY <1>3 DEF Notifier!Restart
  <2>2. QED
    BY <2>1, FreshHeld DEF HeldInv
<1>4. CASE Notifier!HaForgets
  <2>1. slots' = slots /\ ha' = [s \in Sources |-> Nothing]
    BY <1>4 DEF Notifier!HaForgets
  <2>2. \A s \in Sources : Held(s)'
    BY <2>1 DEF Held
  <2>3. QED
    BY <2>1, <2>2 DEF HeldInv
<1>5. QED
  BY <1>1, <1>2, <1>3, <1>4, ReadHashHeld, ReceiveHeld, FlappedHeld, ElapseHeld
     DEF Notifier!NotifierStep

LEMMA NextHeldInv == HeldInv /\ [Next]_vars => HeldInv'
<1> SUFFICES ASSUME HeldInv, [Next]_vars PROVE HeldInv'
  OBVIOUS
<1>1. CASE UNCHANGED notifierOnly
  BY <1>1 DEF notifierOnly, HeldInv, Held
<1>2. CASE UNCHANGED vars
  BY <1>1, <1>2 DEF vars
<1>3. QED
  BY <1>1, <1>2, NotifierHeld DEF Next

\* A payload is never taken for sent when Home Assistant may hold another one,
\* whichever POSTs fail before or after they were accepted, whatever comes in
\* between, and whenever the notifier or Home Assistant restarts.
THEOREM SentIsNeverStale == Spec => []SentIsHeld
<1>1. Init => HeldInv
  <2> SUFFICES ASSUME Init PROVE HeldInv
    OBVIOUS
  <2>1. slots = [s \in Sources |-> Notifier!Fresh] /\ ha = [s \in Sources |-> Nothing]
    BY DEF Init, Notifier!SlotInit
  <2>2. Notifier!Fresh = Slot(Nothing, 0, Nothing, FALSE)
    BY DEF Notifier!Fresh, Slot
  <2>3. IsSlot(Notifier!Fresh) /\ Notifier!Fresh.sent = Nothing
    BY <2>2 DEF IsSlot, Slot
  <2>4. QED
    BY <2>1, <2>3 DEF HeldInv, Held
<1>2. HeldInv => SentIsHeld
  BY DEF HeldInv, Held, SentIsHeld
<1>3. QED
  BY <1>1, <1>2, NextHeldInv, PTL DEF Spec

-----------------------------------------------------------------------------
(***************************************************************************)
(* Types of the bridge's side, with what a publisher has in hand.          *)
(***************************************************************************)
Playing == [state : {"playing", "paused"}, title : Titles]
Pubs == [at : {"ended", "sleep", "read", "hset", "publish"},
         blob : Bridge!Views \cup Bridge!Payloads \cup {Nothing},
         last : Bridge!Views \cup {Nothing}]

HandTypes(s) ==
    /\ pub[s].at = "read" => pub[s].blob \in Playing
    /\ pub[s].at = "hset" => pub[s].blob \in Bridge!Views
    /\ pub[s].at = "publish" => pub[s].blob \in Bridge!Payloads

\* Also, what a publisher has in hand is of the kind of its next step.
BridgeTypes ==
    /\ backend \in [Sources -> Bridge!Views]
    /\ events \in 0..MaxEvents
    /\ faults \in 0..MaxFaults
    /\ pub \in [Sources -> Pubs]
    /\ main \in {"run", "join", "idle", "exited", "killed"}
    /\ mainTodo \subseteq Sources
    /\ mainHas \in Bridge!Payloads \cup {Nothing}
    /\ stored \in [Sources -> Bridge!Payloads \cup {Nothing}]
    /\ said \subseteq Sources
    /\ inbox \in Seq(Bridge!Payloads)
    /\ \A s \in Sources : HandTypes(s)

LEMMA Constants ==
    /\ Nothing \notin Bridge!Views /\ Nothing \notin Bridge!Payloads
    /\ MaxEvents \in Nat /\ MaxFaults \in Nat /\ MaxTroubles \in Nat
    /\ Debounce \in Nat /\ IdleDebounce \in Nat /\ Retry \in Nat
BY DEF HomeAssumption

LEMMA Shapes ==
    /\ Bridge!Idle \in Bridge!Views
    /\ Bridge!Views = {Bridge!Idle} \cup Playing
    /\ Bridge!Idle.state = "idle" /\ Bridge!Idle \notin Playing
    /\ \A v \in Bridge!Views : v.state # "idle" => v \in Playing
    /\ \A v \in Playing : v.title \in Titles
    /\ \A v \in Playing : \A t \in Titles : [v EXCEPT !.title = t] \in Playing
    /\ \A s \in Sources : \A v \in Bridge!Views :
          /\ Bridge!Payload(s, v) \in Bridge!Payloads
          /\ Bridge!Payload(s, v).src = s /\ Bridge!Payload(s, v).view = v
    /\ \A p \in Bridge!Payloads : p.src \in Sources /\ p.view \in Bridge!Views
<1>1. \A v \in Playing : \A t \in Titles : [v EXCEPT !.title = t] \in Playing
  BY DEF Playing
<1> QED
  BY <1>1 DEF Bridge!Views, Bridge!Idle, Playing, Bridge!Payload, Bridge!Payloads

LEMMA PublisherTypes ==
    ASSUME BridgeTypes, NEW s \in Sources, NEW at \in {"ended", "sleep", "read", "hset", "publish"},
           NEW blob \in Bridge!Views \cup Bridge!Payloads \cup {Nothing},
           NEW last \in Bridge!Views \cup {Nothing},
           Bridge!Publisher(s, at, blob, last)
    PROVE  /\ pub' \in [Sources -> Pubs]
           /\ pub'[s].at = at /\ pub'[s].blob = blob /\ pub'[s].last = last
           /\ \A x \in Sources : x # s => pub'[x] = pub[x]
<1>1. [at |-> at, blob |-> blob, last |-> last] \in Pubs
  BY DEF Pubs
<1> QED
  BY <1>1 DEF BridgeTypes, Bridge!Publisher

LEMMA ExitedTypes ==
    ASSUME BridgeTypes, pub' = Bridge!Exited
    PROVE  /\ pub' \in [Sources -> Pubs]
           /\ \A s \in Sources : pub'[s].at = "ended"
<1>1. ASSUME NEW s \in Sources
      PROVE  [pub[s] EXCEPT !.at = "ended", !.blob = Nothing] \in
                 [at : {"ended"}, blob : {Nothing}, last : Bridge!Views \cup {Nothing}]
  <2>1. pub[s] \in Pubs
    BY DEF BridgeTypes
  <2> QED
    BY <2>1 DEF Pubs
<1>2. [at : {"ended"}, blob : {Nothing}, last : Bridge!Views \cup {Nothing}] \subseteq Pubs
  BY DEF Pubs
<1>3. \A s \in Sources : pub'[s] \in
          [at : {"ended"}, blob : {Nothing}, last : Bridge!Views \cup {Nothing}]
  BY <1>1 DEF Bridge!Exited
<1> QED
  BY <1>2, <1>3 DEF Bridge!Exited

LEMMA BridgeInit == Init => BridgeTypes
<1> SUFFICES ASSUME Init PROVE BridgeTypes
  OBVIOUS
<1> USE Constants, Shapes
<1>1. /\ backend \in [Sources -> Bridge!Views]
      /\ stored \in [Sources -> Bridge!Payloads \cup {Nothing}]
      /\ events = 0 /\ faults = 0 /\ main = "killed" /\ mainTodo = {} /\ mainHas = Nothing
      /\ said = {} /\ inbox = <<>>
  BY DEF Init, Bridge!Init
<1>2. /\ pub \in [Sources -> Pubs]
      /\ \A s \in Sources : pub[s].at = "ended"
  BY DEF Init, Bridge!Init, Pubs
<1> QED
  BY <1>1, <1>2 DEF BridgeTypes, HandTypes

\* The publisher of one source, or none, takes a step that leaves its hand well.
LEMMA OnePublisher ==
    ASSUME BridgeTypes, NEW s \in Sources, pub' \in [Sources -> Pubs],
           \A x \in Sources : x # s => pub'[x] = pub[x],
           HandTypes(s)'
    PROVE  \A x \in Sources : HandTypes(x)'
BY DEF BridgeTypes, HandTypes

LEMMA PollStateTypes ==
    ASSUME BridgeTypes, NEW s \in Sources, Bridge!PollState(s)
    PROVE  BridgeTypes'
<1>0. /\ backend[s] \in Bridge!Views /\ pub[s] \in Pubs
      /\ pub[s].last \in Bridge!Views \cup {Nothing}
  BY DEF BridgeTypes, Pubs
<1>1. CASE backend[s].state # "idle" /\ Bridge!Publisher(s, "read", backend[s], pub[s].last)
  <2>1. backend[s] \in Playing
    BY <1>0, <1>1, Shapes
  <2>2. /\ pub' \in [Sources -> Pubs]
        /\ pub'[s].at = "read" /\ pub'[s].blob = backend[s]
        /\ \A x \in Sources : x # s => pub'[x] = pub[x]
    BY <1>0, <1>1, PublisherTypes
  <2> QED
    BY <2>1, <2>2, OnePublisher DEF BridgeTypes, HandTypes, Bridge!PollState
<1>2. CASE Bridge!Publisher(s, "sleep", Nothing, pub[s].last)
  <2>1. /\ pub' \in [Sources -> Pubs]
        /\ pub'[s].at = "sleep"
        /\ \A x \in Sources : x # s => pub'[x] = pub[x]
    BY <1>0, <1>2, PublisherTypes
  <2> QED
    BY <2>1, OnePublisher DEF BridgeTypes, HandTypes, Bridge!PollState
<1>3. CASE Bridge!Publisher(s, "hset", Bridge!Idle, pub[s].last)
  <2>1. /\ pub' \in [Sources -> Pubs]
        /\ pub'[s].at = "hset" /\ pub'[s].blob = Bridge!Idle
        /\ \A x \in Sources : x # s => pub'[x] = pub[x]
    BY <1>0, <1>3, Shapes, PublisherTypes
  <2> QED
    BY <2>1, Shapes, OnePublisher DEF BridgeTypes, HandTypes, Bridge!PollState
<1> QED
  BY <1>1, <1>2, <1>3 DEF Bridge!PollState

\* The view that PollMetadata comes to.
LEMMA Metadata ==
    ASSUME BridgeTypes, NEW s \in Sources, Bridge!PollMetadata(s)
    PROVE  \E blob \in Playing :
              \/ blob = pub[s].last /\ Bridge!Publisher(s, "sleep", Nothing, pub[s].last)
              \/ blob # pub[s].last /\ Bridge!Publisher(s, "hset", blob, pub[s].last)
<1>1. PICK t \in IF backend[s].state = "idle" THEN Titles ELSE {backend[s].title} :
          LET blob == [pub[s].blob EXCEPT !.title = t] IN
          IF blob = pub[s].last
          THEN Bridge!Publisher(s, "sleep", Nothing, pub[s].last)
          ELSE Bridge!Publisher(s, "hset", blob, pub[s].last)
  BY DEF Bridge!PollMetadata
<1>2. t \in Titles
  BY Shapes DEF BridgeTypes
<1>3. pub[s].blob \in Playing
  BY DEF Bridge!PollMetadata, BridgeTypes, HandTypes
<1> DEFINE blob == [pub[s].blob EXCEPT !.title = t]
<1>4. blob \in Playing
  BY <1>2, <1>3, Shapes
<1> QED
  BY <1>1, <1>4

LEMMA PollMetadataTypes ==
    ASSUME BridgeTypes, NEW s \in Sources, Bridge!PollMetadata(s)
    PROVE  BridgeTypes'
<1>1. PICK blob \in Playing :
          \/ Bridge!Publisher(s, "sleep", Nothing, pub[s].last)
          \/ Bridge!Publisher(s, "hset", blob, pub[s].last)
  BY Metadata
<1>2. blob \in Bridge!Views /\ pub[s].last \in Bridge!Views \cup {Nothing}
  BY Shapes DEF BridgeTypes, Pubs
<1>3. /\ pub' \in [Sources -> Pubs]
      /\ \A x \in Sources : x # s => pub'[x] = pub[x]
      /\ HandTypes(s)'
  BY <1>1, <1>2, PublisherTypes DEF HandTypes
<1> QED
  BY <1>3, OnePublisher DEF BridgeTypes, Bridge!PollMetadata

LEMMA FaultTypes ==
    ASSUME BridgeTypes, Bridge!Fault \/ Bridge!NoFault
    PROVE  faults' \in 0..MaxFaults
BY Constants DEF BridgeTypes, Bridge!Fault, Bridge!NoFault

LEMMA StoreTypes ==
    ASSUME BridgeTypes, NEW payload \in Bridge!Payloads, Bridge!Store(payload)
    PROVE  /\ stored' \in [Sources -> Bridge!Payloads \cup {Nothing}]
           /\ stored'[payload.src] = payload
           /\ \A x \in Sources : x # payload.src => stored'[x] = stored[x]
           /\ said' = said \ {payload.src}
BY Shapes DEF BridgeTypes, Bridge!Store

LEMMA AnnounceTypes ==
    ASSUME BridgeTypes, NEW payload \in Bridge!Payloads, Bridge!Announce(payload, link # "down")
    PROVE  inbox' \in Seq(Bridge!Payloads) /\ said' \subseteq Sources
BY AppendProperties, Shapes DEF BridgeTypes, Bridge!Announce

LEMMA PollStoresTypes ==
    ASSUME BridgeTypes, NEW s \in Sources, Bridge!PollStores(s)
    PROVE  BridgeTypes'
<1>0. /\ pub[s].last \in Bridge!Views \cup {Nothing} /\ pub[s].blob \in Bridge!Views
      /\ Bridge!Payload(s, pub[s].blob) \in Bridge!Payloads
  BY Shapes DEF BridgeTypes, HandTypes, Pubs, Bridge!PollStores
<1>1. stored' \in [Sources -> Bridge!Payloads \cup {Nothing}] /\ said' \subseteq Sources
  BY <1>0, StoreTypes DEF BridgeTypes, Bridge!PollStores
<1>2. /\ pub' \in [Sources -> Pubs]
      /\ \A x \in Sources : x # s => pub'[x] = pub[x]
      /\ HandTypes(s)'
  BY <1>0, PublisherTypes DEF HandTypes, Bridge!PollStores
<1> QED
  BY <1>1, <1>2, OnePublisher, FaultTypes DEF BridgeTypes, Bridge!PollStores

LEMMA PollAnnouncesTypes ==
    ASSUME BridgeTypes, NEW s \in Sources, Bridge!PollAnnounces(s, link # "down")
    PROVE  BridgeTypes'
<1>0. /\ pub[s].last \in Bridge!Views \cup {Nothing} /\ pub[s].blob \in Bridge!Payloads
      /\ pub[s].blob.view \in Bridge!Views
  BY Shapes DEF BridgeTypes, HandTypes, Pubs, Bridge!PollAnnounces
<1>1. inbox' \in Seq(Bridge!Payloads) /\ said' \subseteq Sources
  BY <1>0, AnnounceTypes DEF BridgeTypes, Bridge!PollAnnounces
<1>2. /\ pub' \in [Sources -> Pubs]
      /\ \A x \in Sources : x # s => pub'[x] = pub[x]
      /\ HandTypes(s)'
  BY <1>0, PublisherTypes DEF HandTypes, Bridge!PollAnnounces
<1> QED
  BY <1>1, <1>2, OnePublisher, FaultTypes DEF BridgeTypes, Bridge!PollAnnounces

LEMMA PublisherEndsTypes ==
    ASSUME BridgeTypes, NEW s \in Sources, Bridge!PublisherEnds(s)
    PROVE  BridgeTypes'
<1>0. pub[s].last \in Bridge!Views \cup {Nothing}
  BY DEF BridgeTypes, Pubs
<1>1. /\ pub' \in [Sources -> Pubs]
      /\ \A x \in Sources : x # s => pub'[x] = pub[x]
      /\ HandTypes(s)'
  BY <1>0, PublisherTypes DEF HandTypes, Bridge!PublisherEnds
<1> QED
  BY <1>1, OnePublisher DEF BridgeTypes, Bridge!PublisherEnds

LEMMA StartTypes ==
    ASSUME BridgeTypes, Bridge!Start
    PROVE  /\ BridgeTypes'
           /\ \A s \in Sources : pub'[s].at = "sleep" /\ pub'[s].last = Nothing
<1>1. /\ pub' \in [Sources -> Pubs]
      /\ \A s \in Sources : pub'[s].at = "sleep" /\ pub'[s].last = Nothing
  BY DEF Bridge!Start, Pubs
<1>2. stored' \in [Sources -> Bridge!Payloads \cup {Nothing}] /\ said' = {}
  BY DEF Bridge!Start, BridgeTypes
<1>3. faults' \in 0..MaxFaults /\ events' \in 0..MaxEvents
  BY FaultTypes, Constants DEF Bridge!Start, BridgeTypes
<1> QED
  BY <1>1, <1>2, <1>3 DEF Bridge!Start, BridgeTypes, HandTypes

LEMMA JoinTypes ==
    ASSUME BridgeTypes, NEW s \in Sources, Bridge!Join(s)
    PROVE  BridgeTypes'
<1>1. CASE Bridge!JoinReturns(s)
  BY <1>1 DEF Bridge!Join, Bridge!JoinReturns, BridgeTypes, HandTypes
<1>2. CASE Bridge!JoinRaises(s)
  BY <1>2, ExitedTypes DEF Bridge!Join, Bridge!JoinRaises, BridgeTypes, HandTypes
<1> QED
  BY <1>1, <1>2 DEF Bridge!Join

LEMMA IdleTypes ==
    ASSUME BridgeTypes, (\E s \in Sources : Bridge!StoreIdle(s)) \/ Bridge!AnnounceIdle(link # "down")
    PROVE  BridgeTypes'
<1>1. ASSUME NEW s \in Sources, Bridge!StoreIdle(s) PROVE BridgeTypes'
  <2>1. Bridge!Payload(s, Bridge!Idle) \in Bridge!Payloads
    BY Shapes
  <2>2. stored' \in [Sources -> Bridge!Payloads \cup {Nothing}] /\ said' \subseteq Sources
    BY <1>1, <2>1, StoreTypes DEF BridgeTypes, Bridge!StoreIdle
  <2> QED
    BY <1>1, <2>1, <2>2, FaultTypes DEF BridgeTypes, HandTypes, Bridge!StoreIdle
<1>2. CASE Bridge!AnnounceIdle(link # "down")
  <2>1. mainHas \in Bridge!Payloads
    BY <1>2 DEF BridgeTypes, Bridge!AnnounceIdle
  <2>2. inbox' \in Seq(Bridge!Payloads) /\ said' \subseteq Sources
    BY <1>2, <2>1, AnnounceTypes DEF BridgeTypes, Bridge!AnnounceIdle
  <2> QED
    BY <1>2, <2>2, FaultTypes DEF BridgeTypes, HandTypes, Bridge!AnnounceIdle
<1> QED
  BY <1>1, <1>2

LEMMA BridgeStepTypes ==
    ASSUME BridgeTypes, Bridge!BackendChanges \/ Bridge!BridgeStep(link # "down")
    PROVE  BridgeTypes'
<1>1. CASE Bridge!BackendChanges
  <2>1. backend' \in [Sources -> Bridge!Views] /\ events' \in 0..MaxEvents
    BY <1>1, Constants DEF Bridge!BackendChanges, BridgeTypes
  <2> QED
    BY <1>1, <2>1 DEF Bridge!BackendChanges, Bridge!bridgeVars, BridgeTypes, HandTypes
<1>2. CASE Bridge!Stop
  BY <1>2 DEF Bridge!Stop, BridgeTypes, HandTypes
<1>3. CASE Bridge!Exit \/ Bridge!Crash
  BY <1>3, ExitedTypes, FaultTypes DEF Bridge!Exit, Bridge!Crash, BridgeTypes, HandTypes
<1> QED
  BY <1>1, <1>2, <1>3, PollStateTypes, PollMetadataTypes, PollStoresTypes, PollAnnouncesTypes,
     PublisherEndsTypes, JoinTypes, IdleTypes, StartTypes DEF Bridge!BridgeStep

-----------------------------------------------------------------------------
(***************************************************************************)
(* Types of the notifier's side, and what becomes of a slot.               *)
(***************************************************************************)
Delays == 0..(Debounce + IdleDebounce + Retry)
Slots == [pending : Bridge!Payloads \cup {Nothing}, due : Delays,
          sent : Bridge!Payloads \cup {Nothing}, playing : BOOLEAN]

NotifierTypes ==
    /\ link \in {"down", "subscribed", "up"}
    /\ slots \in [Sources -> Slots]
    /\ ticking \subseteq Sources
    /\ troubles \in 0..MaxTroubles
    /\ ha \in [Sources -> Bridge!Payloads \cup {Nothing}]

Types == BridgeTypes /\ NotifierTypes

LEMMA Waits ==
    /\ 0 \in Delays /\ Debounce \in Delays /\ IdleDebounce \in Delays /\ Retry \in Delays
    /\ \A d \in Delays : d > 0 => d - 1 \in Delays
BY Constants DEF Delays

\* Offered(x, slot, payload): x is a slot like slot, but payload waits in it.
Offered(x, slot, payload) == x \in Slots /\ x.pending = payload /\ x.sent = slot.sent

LEMMA OfferTypes ==
    ASSUME NEW slot \in Slots, NEW payload \in Bridge!Payloads, NEW x,
           \/ x = Notifier!Offer(slot, payload, FALSE)
           \/ x = Notifier!Offer(slot, payload, TRUE)
    PROVE  Offered(x, slot, payload)
<1>1. \E y \in Delays, z \in BOOLEAN :
          x = [slot EXCEPT !.pending = payload, !.due = y, !.playing = z]
  <2>1. \A b : Notifier!Delay(slot, payload, b) \in Delays
    BY Waits DEF Notifier!Delay, Notifier!MaxOf
  <2>2. (payload.view.state = "playing") \in BOOLEAN
    OBVIOUS
  <2> QED
    BY <2>1, <2>2, Zenon DEF Notifier!Offer
<1>2. PICK y \in Delays, z \in BOOLEAN :
          x = [slot EXCEPT !.pending = payload, !.due = y, !.playing = z]
  BY <1>1
<1> QED
  BY <1>2 DEF Slots, Offered

\* The slot's end: what it has sent last, if nothing waits.
End(slot) == IF slot.pending # Nothing THEN slot.pending ELSE slot.sent

LEMMA SlotEnds ==
    ASSUME NEW slot \in Slots
    PROVE  /\ End(slot) \in Bridge!Payloads \cup {Nothing}
           /\ [slot EXCEPT !.pending = Nothing] \in Slots
           /\ slot.pending = slot.sent => End([slot EXCEPT !.pending = Nothing]) = End(slot)
           /\ \A d \in Delays : /\ [slot EXCEPT !.due = d] \in Slots
                                /\ End([slot EXCEPT !.due = d]) = End(slot)
BY DEF Slots, End

LEMMA PostEnds ==
    ASSUME NEW slot \in Slots, NEW payload \in Bridge!Payloads
    PROVE  /\ [slot EXCEPT !.pending = Nothing, !.sent = payload] \in Slots
           /\ End([slot EXCEPT !.pending = Nothing, !.sent = payload]) = payload
           /\ [slot EXCEPT !.pending = payload, !.due = Retry, !.sent = Nothing] \in Slots
           /\ End([slot EXCEPT !.pending = payload, !.due = Retry, !.sent = Nothing]) = payload
BY Constants, Waits DEF Slots, End

\* Whatever else a step does to the slots, they end where they ended.
EndsStay ==
    /\ slots' \in [Sources -> Slots]
    /\ \A s \in Sources : End(slots'[s]) = End(slots[s])

LEMMA PostedTypes ==
    ASSUME Types, NEW s \in Sources, NEW payload \in Bridge!Payloads,
           Notifier!Posted(s, payload), End(slots[s]) = payload
    PROVE  /\ EndsStay /\ NotifierTypes'
<1>0. slots \in [Sources -> Slots] /\ ha \in [Sources -> Bridge!Payloads \cup {Nothing}]
  BY DEF Types, NotifierTypes
<1>1. CASE /\ slots' = [slots EXCEPT ![s].pending = Nothing, ![s].sent = payload]
           /\ ha' = [ha EXCEPT ![s] = payload]
           /\ Notifier!NoTrouble
  <2> DEFINE r == [slots[s] EXCEPT !.pending = Nothing, !.sent = payload]
  <2>1. slots' = [slots EXCEPT ![s] = r]
    BY <1>0, <1>1
  <2>2. r \in Slots /\ End(r) = payload
    BY <1>0, PostEnds
  <2> HIDE DEF r
  <2>3. EndsStay
    BY <1>0, <2>1, <2>2 DEF EndsStay
  <2>4. ha' \in [Sources -> Bridge!Payloads \cup {Nothing}]
    BY <1>0, <1>1
  <2> QED
    BY <1>1, <2>3, <2>4 DEF EndsStay, Types, NotifierTypes, Notifier!Posted, Notifier!NoTrouble
<1>2. CASE /\ slots' = [slots EXCEPT ![s].pending = payload, ![s].due = Retry,
                                     ![s].sent = Nothing]
           /\ ha' \in {ha, [ha EXCEPT ![s] = payload]}
           /\ Notifier!Trouble
  <2> DEFINE r == [slots[s] EXCEPT !.pending = payload, !.due = Retry, !.sent = Nothing]
  <2>1. slots' = [slots EXCEPT ![s] = r]
    BY <1>0, <1>2
  <2>2. r \in Slots /\ End(r) = payload
    BY <1>0, PostEnds
  <2> HIDE DEF r
  <2>3. EndsStay
    BY <1>0, <2>1, <2>2 DEF EndsStay
  <2>4. ha' \in [Sources -> Bridge!Payloads \cup {Nothing}]
    BY <1>0, <1>2
  <2> QED
    BY <1>2, <2>3, <2>4, Constants
       DEF EndsStay, Types, NotifierTypes, Notifier!Posted, Notifier!Trouble
<1> QED
  BY <1>1, <1>2 DEF Notifier!Posted

LEMMA SendTypes ==
    ASSUME Types, NEW s \in Sources, Notifier!Send(s) \/ Notifier!RepeatSent(s)
    PROVE  EndsStay /\ NotifierTypes'
<1>0. slots[s] \in Slots
  BY DEF Types, NotifierTypes
<1>1. CASE Notifier!Send(s)
  <2>1. /\ slots[s].pending \in Bridge!Payloads /\ End(slots[s]) = slots[s].pending
        /\ Notifier!Posted(s, slots[s].pending)
    BY <1>0, <1>1 DEF Notifier!Send, Notifier!Due, End, Slots
  <2> QED
    BY <2>1, PostedTypes
<1>2. CASE Notifier!RepeatSent(s)
  <2>1. /\ slots[s].sent \in Bridge!Payloads /\ End(slots[s]) = slots[s].sent
        /\ Notifier!Posted(s, slots[s].sent)
    BY <1>0, <1>2 DEF Notifier!RepeatSent, Notifier!Repeatable, End, Slots
  <2> QED
    BY <2>1, PostedTypes
<1> QED
  BY <1>1, <1>2

LEMMA FlappedTypes ==
    ASSUME Types, NEW s \in Sources, Notifier!Flapped(s)
    PROVE  EndsStay /\ NotifierTypes'
<1>0. slots \in [Sources -> Slots]
  BY DEF Types, NotifierTypes
<1> DEFINE r == [slots[s] EXCEPT !.pending = Nothing]
<1>1. slots' = [slots EXCEPT ![s] = r]
  BY <1>0 DEF Notifier!Flapped
<1>2. r \in Slots /\ End(r) = End(slots[s])
  BY <1>0, SlotEnds DEF Notifier!Flapped
<1> HIDE DEF r
<1>3. EndsStay
  BY <1>0, <1>1, <1>2 DEF EndsStay
<1> QED
  BY <1>3 DEF EndsStay, Types, NotifierTypes, Notifier!Flapped

LEMMA ElapseTypes ==
    ASSUME Types, Notifier!Elapse
    PROVE  EndsStay /\ NotifierTypes'
<1>0. slots \in [Sources -> Slots]
  BY DEF Types, NotifierTypes
<1>1. slots' = [s \in Sources |->
                  IF slots[s].due > 0 THEN [slots[s] EXCEPT !.due = slots[s].due - 1]
                  ELSE slots[s]]
  BY Zenon DEF Notifier!Elapse
<1>2. ASSUME NEW s \in Sources
      PROVE  slots'[s] \in Slots /\ End(slots'[s]) = End(slots[s])
  <2>1. slots[s] \in Slots /\ slots[s].due \in Delays
    BY <1>0 DEF Slots
  <2>2. CASE slots[s].due > 0
    <3>1. slots'[s] = [slots[s] EXCEPT !.due = slots[s].due - 1]
      BY <1>1, <2>2
    <3>2. slots[s].due - 1 \in Delays
      BY <2>1, <2>2, Waits
    <3> QED
      BY <2>1, <3>1, <3>2, SlotEnds
  <2>3. CASE ~(slots[s].due > 0)
    BY <1>1, <2>1, <2>3
  <2> QED
    BY <2>2, <2>3
<1>3. EndsStay
  BY <1>1, <1>2 DEF EndsStay
<1> QED
  BY <1>3 DEF EndsStay, Types, NotifierTypes, Notifier!Elapse

LEMMA ReadHashTypes ==
    ASSUME Types, Notifier!ReadHash
    PROVE  /\ NotifierTypes'
           /\ \A s \in Sources : stored[s] # Nothing => End(slots'[s]) = stored[s]
<1>0. /\ slots \in [Sources -> Slots]
      /\ stored \in [Sources -> Bridge!Payloads \cup {Nothing}]
  BY DEF Types, NotifierTypes, BridgeTypes
<1>1. slots' = [s \in Sources |->
                  IF stored[s] = Nothing THEN slots[s]
                  ELSE Notifier!Offer(slots[s], stored[s], TRUE)]
  BY DEF Notifier!ReadHash
<1>2. ASSUME NEW s \in Sources
      PROVE  slots'[s] \in Slots /\ (stored[s] # Nothing => End(slots'[s]) = stored[s])
  <2>1. CASE stored[s] = Nothing
    BY <1>0, <1>1, <2>1
  <2>2. CASE stored[s] # Nothing
    <3>1. slots'[s] = Notifier!Offer(slots[s], stored[s], TRUE)
      BY <1>1, <2>2
    <3>2. slots[s] \in Slots /\ stored[s] \in Bridge!Payloads
      BY <1>0, <2>2
    <3>3. Offered(slots'[s], slots[s], stored[s])
      BY <3>1, <3>2, OfferTypes, Zenon
    <3> QED
      BY <2>2, <3>3 DEF Offered, End
  <2> QED
    BY <2>1, <2>2
<1>3. slots' \in [Sources -> Slots]
  BY <1>1, <1>2
<1> QED
  BY <1>2, <1>3 DEF Types, NotifierTypes, Notifier!ReadHash

LEMMA ReceiveTypes ==
    ASSUME Types, Notifier!Receive
    PROVE  /\ NotifierTypes'
           /\ inbox = <<>> => slots' = slots /\ inbox' = inbox
           /\ inbox # <<>> =>
                 /\ inbox' = Tail(inbox) /\ Head(inbox) \in Bridge!Payloads
                 /\ \A s \in Sources :
                       End(slots'[s]) = IF s = Head(inbox).src THEN Head(inbox) ELSE End(slots[s])
<1>0. slots \in [Sources -> Slots] /\ inbox \in Seq(Bridge!Payloads)
  BY DEF Types, NotifierTypes, BridgeTypes
<1>1. inbox = <<>> => slots' = slots /\ inbox' = inbox
  BY DEF Notifier!Receive
<1>2. ASSUME inbox # <<>>
      PROVE  /\ slots' \in [Sources -> Slots]
             /\ inbox' = Tail(inbox) /\ Head(inbox) \in Bridge!Payloads
             /\ \A s \in Sources :
                   End(slots'[s]) = IF s = Head(inbox).src THEN Head(inbox) ELSE End(slots[s])
  <2>1. PICK m \in Bridge!Payloads :
            /\ m = Head(inbox) /\ inbox' = Tail(inbox) /\ m.src \in Sources
            /\ slots' = [slots EXCEPT ![m.src] = Notifier!Offer(slots[m.src], m, FALSE)]
    <3>1. Head(inbox) \in Bridge!Payloads /\ Head(inbox).src \in Sources
      BY <1>0, <1>2, Shapes, HeadTailProperties
    <3>2. /\ inbox' = Tail(inbox)
          /\ slots' = [slots EXCEPT ![Head(inbox).src] =
                          Notifier!Offer(slots[Head(inbox).src], Head(inbox), FALSE)]
      BY <1>2, Zenon DEF Notifier!Receive
    <3> QED
      BY <3>1, <3>2
  <2> DEFINE r == Notifier!Offer(slots[m.src], m, FALSE)
  <2>2. Offered(r, slots[m.src], m)
    BY <1>0, <2>1, OfferTypes, Zenon
  <2>3. slots' = [slots EXCEPT ![m.src] = r]
    BY <2>1
  <2> HIDE DEF r
  <2>4. r \in Slots /\ End(r) = m
    BY <2>2, Constants DEF Offered, End
  <2> QED
    BY <1>0, <2>1, <2>3, <2>4
<1>3. ticking' \subseteq Sources
  BY DEF Notifier!Receive
<1> QED
  BY <1>0, <1>1, <1>2, <1>3 DEF Types, NotifierTypes, Notifier!Receive

LEMMA FreshSlot == Notifier!Fresh \in Slots
BY Waits DEF Notifier!Fresh, Slots

LEMMA NotifierStepTypes ==
    ASSUME Types, Notifier!NotifierStep
    PROVE  NotifierTypes' /\ inbox' \in Seq(Bridge!Payloads)
<1>0. inbox \in Seq(Bridge!Payloads)
  BY DEF Types, BridgeTypes
<1>1. CASE Notifier!Subscribe \/ Notifier!Disconnect
  <2>1. link' \in {"down", "subscribed", "up"} /\ inbox' = <<>>
    BY <1>1 DEF Notifier!Subscribe, Notifier!Disconnect
  <2>2. troubles' \in 0..MaxTroubles
    BY <1>1, Constants
       DEF Notifier!Subscribe, Notifier!Disconnect, Notifier!Trouble, Types, NotifierTypes
  <2>3. UNCHANGED <<slots, ticking, ha>>
    BY <1>1 DEF Notifier!Subscribe, Notifier!Disconnect
  <2> QED
    BY <2>1, <2>2, <2>3 DEF Types, NotifierTypes
<1>2. CASE Notifier!Restart
  <2>1. slots' \in [Sources -> Slots]
    BY <1>2, FreshSlot DEF Notifier!Restart
  <2> QED
    BY <1>2, <2>1, Constants DEF Notifier!Restart, Notifier!Trouble, Types, NotifierTypes
<1>3. CASE Notifier!HaForgets
  <2>1. ha' \in [Sources -> Bridge!Payloads \cup {Nothing}]
    BY <1>3 DEF Notifier!HaForgets
  <2> QED
    BY <1>0, <1>3, <2>1, Constants DEF Notifier!HaForgets, Notifier!Trouble, Types, NotifierTypes
<1>4. CASE Notifier!ReadHash
  BY <1>0, <1>4, ReadHashTypes DEF Notifier!ReadHash
<1>5. CASE Notifier!Receive
  <2>1. inbox' \in Seq(Bridge!Payloads)
    BY <1>0, <1>5, ReceiveTypes, HeadTailProperties
  <2> QED
    BY <1>5, <2>1, ReceiveTypes
<1>6. ASSUME NEW s \in Sources, Notifier!Flapped(s) \/ Notifier!Send(s) \/ Notifier!RepeatSent(s)
      PROVE  NotifierTypes' /\ inbox' = inbox
  BY <1>6, FlappedTypes, SendTypes
     DEF Notifier!Flapped, Notifier!Send, Notifier!RepeatSent, Notifier!Posted
<1>7. CASE Notifier!Elapse
  BY <1>0, <1>7, ElapseTypes DEF Notifier!Elapse
<1> QED
  BY <1>0, <1>1, <1>2, <1>3, <1>4, <1>5, <1>6, <1>7 DEF Notifier!NotifierStep

LEMMA TypesInit == Init => Types
<1> SUFFICES ASSUME Init PROVE Types
  OBVIOUS
<1>1. slots \in [Sources -> Slots]
  BY FreshSlot DEF Init, Notifier!SlotInit
<1> QED
  BY <1>1, BridgeInit, Constants DEF Init, Notifier!SlotInit, Types, NotifierTypes

LEMMA TypesStep == Types /\ [Next]_vars => Types'
<1> SUFFICES ASSUME Types, [Next]_vars PROVE Types'
  OBVIOUS
<1>1. CASE (Bridge!BackendChanges \/ Bridge!BridgeStep(link # "down")) /\ UNCHANGED notifierOnly
  BY <1>1, BridgeStepTypes DEF Types, NotifierTypes, notifierOnly
<1>2. CASE Notifier!NotifierStep /\ UNCHANGED bridgeOnly
  <2>1. stored' = stored
    BY <1>2 DEF Notifier!NotifierStep, Notifier!Subscribe, Notifier!ReadHash, Notifier!Receive,
                Notifier!Flapped, Notifier!Send, Notifier!RepeatSent, Notifier!Posted,
                Notifier!Disconnect, Notifier!Restart, Notifier!Elapse, Notifier!HaForgets
  <2> QED
    BY <1>2, <2>1, NotifierStepTypes DEF Types, BridgeTypes, HandTypes, bridgeOnly
<1>3. CASE UNCHANGED vars
  BY <1>3 DEF vars, bridgeOnly, notifierOnly, Types, BridgeTypes, HandTypes, NotifierTypes
<1> QED
  BY <1>1, <1>2, <1>3 DEF Next

\* Both daemons' states, the hash and the channel have their types in every
\* reachable state, and so no view that was never made reaches Home Assistant.
THEOREM TypeCorrect == Spec => []TypeOK
<1>1. Types => TypeOK
  <2> SUFFICES ASSUME Types PROVE TypeOK
    OBVIOUS
  <2>1. Bridge!TypeOK
    BY DEF Types, BridgeTypes, Bridge!TypeOK, Pubs
  <2>2. ASSUME NEW s \in Sources
        PROVE  /\ slots[s].pending \in Bridge!Payloads \cup {Nothing}
               /\ slots[s].due \in 0..(Debounce + IdleDebounce + Retry)
               /\ slots[s].sent \in Bridge!Payloads \cup {Nothing}
               /\ slots[s].playing \in BOOLEAN
               /\ ha[s] \in Bridge!Payloads \cup {Nothing}
    <3>1. slots[s] \in Slots
      BY DEF Types, NotifierTypes
    <3> QED
      BY <3>1 DEF Types, NotifierTypes, Slots, Delays
  <2> QED
    BY <2>1, <2>2 DEF Types, NotifierTypes, TypeOK
<1> QED
  BY <1>1, TypesInit, TypesStep, PTL DEF Spec

-----------------------------------------------------------------------------
(***************************************************************************)
(* Nothing is lost: what was announced after it was stored is on its way   *)
(* to a subscriber's slot, or has arrived there.                           *)
(***************************************************************************)

\* inbox[i] is the last change of s that waits unread; or none of it does.
LastOf(s, i) ==
    /\ i \in 1..Len(inbox) /\ inbox[i].src = s
    /\ \A j \in 1..Len(inbox) : j > i => inbox[j].src # s
NoneOf(s) == \A i \in 1..Len(inbox) : inbox[i].src # s

\* A subscriber has the hash's view as its last unread change of s, or else,
\* once it has read the hash, in its slot.
Told(s) ==
    s \in said =>
        /\ stored[s] # Nothing
        /\ link # "down" => \A i \in 1..Len(inbox) : LastOf(s, i) => inbox[i] = stored[s]
        /\ link = "up" /\ NoneOf(s) => End(slots[s]) = stored[s]

Follows == \A s \in Sources : Told(s)

\* A change that arrives is the last of its source, and touches no other's.
LEMMA ChangeArrives ==
    ASSUME inbox \in Seq(Bridge!Payloads), NEW p \in Bridge!Payloads, NEW s \in Sources,
           inbox' = Append(inbox, p)
    PROVE  /\ p.src = s => /\ \A i \in 1..Len(inbox') : LastOf(s, i)' => inbox'[i] = p
                           /\ ~NoneOf(s)'
           /\ p.src # s => /\ \A i \in 1..Len(inbox') : LastOf(s, i)' =>
                                  i \in 1..Len(inbox) /\ LastOf(s, i) /\ inbox'[i] = inbox[i]
                           /\ NoneOf(s)' => NoneOf(s)
<1> DEFINE n == Len(inbox)
<1>1. /\ n \in Nat /\ Len(inbox') = n + 1 /\ inbox'[n + 1] = p
      /\ \A i \in 1..n : inbox'[i] = inbox[i]
  BY AppendProperties, LenProperties
<1> HIDE DEF n
<1>2. n + 1 \in 1..Len(inbox') /\ \A i \in 1..n : i \in 1..Len(inbox')
  BY <1>1
<1>3. ASSUME p.src = s PROVE ~NoneOf(s)'
  BY <1>1, <1>2, <1>3 DEF NoneOf
<1>4. ASSUME p.src = s, NEW i \in 1..Len(inbox'), LastOf(s, i)' PROVE inbox'[i] = p
  <2>1. i = n + 1 \/ i < n + 1
    BY <1>1
  <2> QED
    BY <2>1, <1>4, <1>1, <1>2 DEF LastOf
<1>5. ASSUME NoneOf(s)' PROVE NoneOf(s)
  BY <1>1, <1>2, <1>5 DEF NoneOf, n
<1>6. ASSUME p.src # s, NEW i \in 1..Len(inbox'), LastOf(s, i)'
      PROVE  i \in 1..Len(inbox) /\ LastOf(s, i) /\ inbox'[i] = inbox[i]
  <2>1. i \in 1..n
    BY <1>6, <1>1 DEF LastOf
  <2> QED
    BY <2>1, <1>6, <1>1, <1>2 DEF LastOf, n
<1> QED
  BY <1>3, <1>4, <1>5, <1>6

\* What is last after a change is taken was last before, or was taken.
LEMMA ChangeTaken ==
    ASSUME inbox \in Seq(Bridge!Payloads), inbox # <<>>, inbox' = Tail(inbox), NEW s \in Sources
    PROVE  /\ 1 \in 1..Len(inbox) /\ inbox[1] = Head(inbox)
           /\ \A i \in 1..Len(inbox') : LastOf(s, i)' =>
                  i + 1 \in 1..Len(inbox) /\ LastOf(s, i + 1) /\ inbox'[i] = inbox[i + 1]
           /\ NoneOf(s)' => IF Head(inbox).src = s THEN LastOf(s, 1) ELSE NoneOf(s)
<1> DEFINE n == Len(inbox)
<1>1. /\ n \in Nat /\ n > 0 /\ Len(inbox') = n - 1
      /\ \A i \in 1..(n - 1) : inbox'[i] = inbox[i + 1]
      /\ inbox[1] = Head(inbox)
  BY HeadTailProperties, LenProperties, EmptySeq
<1> HIDE DEF n
<1>2. ASSUME NEW i \in 1..Len(inbox'), LastOf(s, i)'
      PROVE  i + 1 \in 1..Len(inbox) /\ LastOf(s, i + 1) /\ inbox'[i] = inbox[i + 1]
  <2>1. i + 1 \in 1..n /\ inbox'[i] = inbox[i + 1] /\ inbox'[i].src = s
    BY <1>1, <1>2 DEF LastOf
  <2>2. ASSUME NEW j \in 1..n, j > i + 1 PROVE inbox[j].src # s
    <3>1. j - 1 \in 1..Len(inbox') /\ j - 1 > i /\ inbox'[j - 1] = inbox[j]
      BY <1>1, <2>2
    <3> QED
      BY <3>1, <1>2 DEF LastOf
  <2> QED
    BY <2>1, <2>2 DEF LastOf, n
<1>3. ASSUME NoneOf(s)', NEW j \in 1..n, j > 1 PROVE inbox[j].src # s
  <2>1. j - 1 \in 1..Len(inbox') /\ inbox'[j - 1] = inbox[j]
    BY <1>1, <1>3
  <2> QED
    BY <2>1, <1>3 DEF NoneOf
<1>4. ASSUME NoneOf(s)'
      PROVE  IF Head(inbox).src = s THEN LastOf(s, 1) ELSE NoneOf(s)
  <2>1. \A j \in 1..n : j = 1 \/ j > 1
    BY <1>1
  <2> QED
    BY <2>1, <1>3, <1>4, <1>1 DEF NoneOf, LastOf, n
<1> QED
  BY <1>1, <1>2, <1>4 DEF n

-----------------------------------------------------------------------------
(* Steps of the bridge.                                                    *)

\* A step that leaves hash, channel and connection alone, and the slots' ends.
LEMMA ToldStays ==
    ASSUME NEW s \in Sources, Told(s), UNCHANGED <<inbox, link>>,
           s \in said' => s \in said /\ stored'[s] = stored[s],
           End(slots'[s]) = End(slots[s])
    PROVE  Told(s)'
BY DEF Told, LastOf, NoneOf

LEMMA NothingTold ==
    ASSUME Follows, UNCHANGED <<inbox, link, slots, stored, said>>
    PROVE  Follows'
BY ToldStays DEF Follows

\* HSET: what the subscriber has been told of this source is out of date.
LEMMA StoresFollows ==
    ASSUME Types, Follows, NEW p \in Bridge!Payloads, Bridge!Store(p),
           UNCHANGED <<inbox, link, slots>>
    PROVE  Follows'
<1> SUFFICES ASSUME NEW s \in Sources PROVE Told(s)'
  BY DEF Follows
<1>1. s \in said' => s \in said /\ stored'[s] = stored[s]
  BY StoreTypes DEF Types
<1> QED
  BY <1>1, ToldStays DEF Follows

\* PUBLISH: it comes last, and tells what the hash holds, or is known not to.
LEMMA AnnouncesFollows ==
    ASSUME Types, Follows, NEW p \in Bridge!Payloads, Bridge!Announce(p, link # "down"),
           UNCHANGED <<link, slots, stored>>
    PROVE  Follows'
<1>0. inbox \in Seq(Bridge!Payloads) /\ p.src \in Sources /\ p # Nothing
  BY Shapes, Constants DEF Types, BridgeTypes
<1>1. /\ inbox' = IF link # "down" THEN Append(inbox, p) ELSE inbox
      /\ p.src \in said' => p = stored[p.src]
      /\ \A x \in Sources : x # p.src /\ x \in said' => x \in said
  BY DEF Bridge!Announce
<1> SUFFICES ASSUME NEW s \in Sources, s \in said' PROVE Told(s)'
  BY DEF Follows, Told
<1>2. CASE link = "down"
  BY <1>0, <1>1, <1>2 DEF Told, Follows
<1>3. CASE link # "down" /\ p.src = s
  <2>1. inbox' = Append(inbox, p) /\ p = stored'[s]
    BY <1>1, <1>3
  <2>2. /\ \A i \in 1..Len(inbox') : LastOf(s, i)' => inbox'[i] = p
        /\ ~NoneOf(s)'
    BY <1>0, <1>3, <2>1, ChangeArrives
  <2> QED
    BY <1>0, <2>1, <2>2 DEF Told
<1>4. CASE link # "down" /\ p.src # s
  <2>1. inbox' = Append(inbox, p) /\ s \in said /\ Told(s)
    BY <1>1, <1>4 DEF Follows
  <2>2. /\ \A i \in 1..Len(inbox') : LastOf(s, i)' =>
               i \in 1..Len(inbox) /\ LastOf(s, i) /\ inbox'[i] = inbox[i]
        /\ NoneOf(s)' => NoneOf(s)
    BY <1>0, <1>4, <2>1, ChangeArrives
  <2> QED
    BY <2>1, <2>2 DEF Told
<1> QED
  BY <1>2, <1>3, <1>4

LEMMA BridgeFollows ==
    ASSUME Types, Follows, UNCHANGED notifierOnly,
           Bridge!BackendChanges \/ Bridge!BridgeStep(link # "down")
    PROVE  Follows'
<1>0. link' = link /\ slots' = slots
  BY DEF notifierOnly
<1>1. ASSUME NEW s \in Sources, Bridge!PollStores(s) PROVE Follows'
  <2>1. Bridge!Payload(s, pub[s].blob) \in Bridge!Payloads /\ inbox' = inbox
    BY <1>1, Shapes DEF Bridge!PollStores, Types, BridgeTypes, HandTypes
  <2> QED
    BY <1>0, <1>1, <2>1, StoresFollows, NothingTold DEF Bridge!PollStores
<1>2. ASSUME NEW s \in Sources, Bridge!PollAnnounces(s, link # "down") PROVE Follows'
  <2>1. pub[s].blob \in Bridge!Payloads /\ stored' = stored
    BY <1>2 DEF Bridge!PollAnnounces, Types, BridgeTypes, HandTypes
  <2> QED
    BY <1>0, <1>2, <2>1, AnnouncesFollows, NothingTold DEF Bridge!PollAnnounces
<1>3. ASSUME NEW s \in Sources, Bridge!StoreIdle(s) PROVE Follows'
  <2>1. Bridge!Payload(s, Bridge!Idle) \in Bridge!Payloads /\ inbox' = inbox
    BY <1>3, Shapes DEF Bridge!StoreIdle
  <2> QED
    BY <1>0, <1>3, <2>1, StoresFollows, NothingTold DEF Bridge!StoreIdle
<1>4. CASE Bridge!AnnounceIdle(link # "down")
  <2>1. mainHas \in Bridge!Payloads /\ stored' = stored
    BY <1>4 DEF Bridge!AnnounceIdle, Types, BridgeTypes
  <2> QED
    BY <1>0, <1>4, <2>1, AnnouncesFollows, NothingTold DEF Bridge!AnnounceIdle
<1>5. CASE Bridge!Start
  BY <1>5 DEF Bridge!Start, Follows, Told
<1>6. ASSUME NEW s \in Sources,
             \/ Bridge!PollState(s) \/ Bridge!PollMetadata(s)
             \/ Bridge!PublisherEnds(s) \/ Bridge!Join(s)
      PROVE  Follows'
  BY <1>0, <1>6, NothingTold
     DEF Bridge!PollState, Bridge!PollMetadata, Bridge!PublisherEnds, Bridge!Join
<1>7. CASE Bridge!BackendChanges \/ Bridge!Stop \/ Bridge!Exit \/ Bridge!Crash
  BY <1>0, <1>7, NothingTold
     DEF Bridge!BackendChanges, Bridge!Stop, Bridge!Exit, Bridge!Crash
<1> QED
  BY <1>1, <1>2, <1>3, <1>4, <1>5, <1>6, <1>7 DEF Bridge!BridgeStep

-----------------------------------------------------------------------------
(* Steps of the notifier.                                                  *)

LEMMA NotifierFollows ==
    ASSUME Types, Follows, Notifier!NotifierStep, UNCHANGED bridgeOnly
    PROVE  Follows'
<1>0. /\ said' = said /\ said \subseteq Sources /\ inbox \in Seq(Bridge!Payloads)
      /\ stored \in [Sources -> Bridge!Payloads \cup {Nothing}]
  BY DEF bridgeOnly, Types, BridgeTypes
<1>1. stored' = stored
  BY DEF Notifier!NotifierStep, Notifier!Subscribe, Notifier!ReadHash, Notifier!Receive,
         Notifier!Flapped, Notifier!Send, Notifier!RepeatSent, Notifier!Posted,
         Notifier!Disconnect, Notifier!Restart, Notifier!Elapse, Notifier!HaForgets
<1>3. \A s \in said : s \in Sources /\ Told(s) /\ stored[s] # Nothing
  BY <1>0 DEF Follows, Told
<1> SUFFICES ASSUME NEW s \in said
             PROVE  /\ link' # "down" => \A i \in 1..Len(inbox') :
                            LastOf(s, i)' => inbox'[i] = stored[s]
                    /\ link' = "up" /\ NoneOf(s)' => End(slots'[s]) = stored[s]
  BY <1>0, <1>1, <1>3 DEF Follows, Told
<1>2. s \in Sources
  BY <1>3
<1>4. CASE Notifier!Subscribe
  <2>1. link' = "subscribed" /\ inbox' = <<>>
    BY <1>4 DEF Notifier!Subscribe
  <2> QED
    BY <2>1
<1>5. CASE Notifier!Disconnect \/ Notifier!Restart
  BY <1>5 DEF Notifier!Disconnect, Notifier!Restart
<1>6. CASE Notifier!ReadHash
  <2>1. /\ link = "subscribed" /\ inbox' = inbox
        /\ End(slots'[s]) = stored[s] /\ stored[s] # Nothing
    BY <1>0, <1>3, <1>6, ReadHashTypes DEF Notifier!ReadHash
  <2> QED
    BY <1>3, <2>1 DEF Told, LastOf
<1>7. CASE Notifier!Receive
  <2>1. CASE inbox = <<>>
    <3>1. UNCHANGED <<inbox, slots, link>>
      BY <1>7, <2>1, ReceiveTypes DEF Notifier!Receive
    <3> QED
      BY <1>3, <3>1 DEF Told, LastOf, NoneOf
  <2>2. CASE inbox # <<>>
    <3>1. /\ link' = link /\ link = "up"
          /\ inbox' = Tail(inbox) /\ Head(inbox) \in Bridge!Payloads
          /\ End(slots'[s]) = IF s = Head(inbox).src THEN Head(inbox) ELSE End(slots[s])
      BY <1>2, <1>7, <2>2, ReceiveTypes DEF Notifier!Receive
    <3>2. /\ 1 \in 1..Len(inbox) /\ inbox[1] = Head(inbox)
          /\ \A i \in 1..Len(inbox') : LastOf(s, i)' =>
                 i + 1 \in 1..Len(inbox) /\ LastOf(s, i + 1) /\ inbox'[i] = inbox[i + 1]
          /\ NoneOf(s)' => IF Head(inbox).src = s THEN LastOf(s, 1) ELSE NoneOf(s)
      BY <1>0, <2>2, <3>1, ChangeTaken
    <3> QED
      BY <1>3, <3>1, <3>2, Constants DEF Told
  <2> QED
    BY <2>1, <2>2
<1>8. ASSUME NEW x \in Sources,
             Notifier!Flapped(x) \/ Notifier!Send(x) \/ Notifier!RepeatSent(x)
      PROVE  EndsStay /\ UNCHANGED <<inbox, link>>
  BY <1>8, FlappedTypes, SendTypes
     DEF Notifier!Flapped, Notifier!Send, Notifier!RepeatSent, Notifier!Posted
<1>9. CASE Notifier!Elapse
  BY <1>2, <1>3, <1>9, ElapseTypes DEF Notifier!Elapse, EndsStay, Told, LastOf, NoneOf
<1>10. CASE Notifier!HaForgets
  BY <1>2, <1>3, <1>10 DEF Notifier!HaForgets, Told, LastOf, NoneOf
<1>11. CASE EndsStay /\ UNCHANGED <<inbox, link>>
  BY <1>2, <1>3, <1>11 DEF EndsStay, Told, LastOf, NoneOf
<1> QED
  BY <1>4, <1>5, <1>6, <1>7, <1>8, <1>9, <1>10, <1>11 DEF Notifier!NotifierStep

\* Whatever was lost on the way, whoever failed and came back: a notifier that is
\* connected and has read everything ends each slot in the view the hash holds, once
\* that view was announced after it was stored.
THEOREM NothingIsLost == Spec => []NothingLost
<1>1. Init => Follows
  BY DEF Init, Bridge!Init, Follows, Told
<1>2. Types /\ Follows /\ [Next]_vars => Follows'
  <2> SUFFICES ASSUME Types, Follows, [Next]_vars PROVE Follows'
    OBVIOUS
  <2>1. CASE UNCHANGED vars
    BY <2>1, NothingTold DEF vars, bridgeOnly, notifierOnly
  <2> QED
    BY <2>1, BridgeFollows, NotifierFollows DEF Next
<1>3. Types /\ Follows => NothingLost
  <2> SUFFICES ASSUME Types, Follows, NEW s \in said, link = "up", inbox = <<>>
               PROVE  Latest(s) # Nothing /\ Latest(s).view = stored[s].view
    BY DEF NothingLost
  <2>1. s \in Sources /\ Told(s) /\ NoneOf(s)
    BY DEF Types, BridgeTypes, Follows, NoneOf
  <2> QED
    BY <2>1 DEF Told, Latest, End
<1> QED
  BY <1>1, <1>2, <1>3, TypesInit, TypesStep, PTL DEF Spec

=============================================================================
