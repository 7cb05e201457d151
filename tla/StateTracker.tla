---------------------------- MODULE StateTracker ----------------------------
(***************************************************************************)
(* state-tracker (state-tracker/state_tracker.py): keeps in redis what the *)
(* telegrams on the MasterLink bus and the status bytes on the Datalinks   *)
(* say of the system.                                                      *)
(*                                                                         *)
(*   - the listen loop takes one message at a time, updates the view it is *)
(*     about and publishes the view when it changed;                       *)
(*   - sweep threads probe every address for its device; the answers come  *)
(*     in through the listen loop, and both publish the inventory;         *)
(*   - the startup query asks the masters what they play.                  *)
(*                                                                         *)
(* The masters are the environment: what they announce follows the         *)
(* captures described in the comments of MLState.                          *)
(***************************************************************************)
EXTENDS Naturals, Sequences, FiniteSets

CONSTANTS
    Audio, Video,  \* source bytes by SOURCE_KIND
    None,          \* no source, no device, nothing in hand
    AM, VM,        \* the audio and the video master
    Other,         \* any other sender
    Links,         \* link nodes
    Sweepers,      \* sweep threads, the startup sweep among them
    Startup,       \* ... which is this one
    SweepOrder,    \* the addresses in the order a sweep probes them
    Attempts,      \* of the startup query
    DoGoto,        \* --goto
    QueryAddrs,    \* addresses the startup query may ask under
    Scenarios,     \* the command line (discover, query: 0 or 1) and bounds on
                   \* announcements, triggers, redis errors, lost answers and
                   \* Datalink bytes
    MaxInbox       \* bound: with as many messages unread, no more arrive

Listener == "listener"
Threads == Sweepers \cup {Listener}
Kind(s) == IF s \in Audio THEN "am" ELSE "vm"
Masters == {AM, VM}
Addresses == Masters \cup Links
Silent == [source |-> None, track |-> 0]
Slots == [source : Audio \cup Video \cup {None}, track : 0..1]

ASSUME TrackerAssumption ==
    /\ Audio \cap Video = {} /\ None \notin Audio \cup Video
    /\ AM # VM /\ Masters \cap (Links \cup {Other, None}) = {} /\ {Other, None} \cap Links = {}
    /\ Startup \in Sweepers /\ {Listener, None} \cap Sweepers = {}
    /\ AM \notin QueryAddrs
    /\ SweepOrder \in Seq(Addresses)
    /\ Attempts \in Nat /\ MaxInbox \in Nat /\ DoGoto \in BOOLEAN

VARIABLES
    \* -- environment
    present,   \* devices on the bus
    amPlays, vmShows,  \* what the masters really do
    told,      \* history: masters that announced it while we were listening, and
               \* nothing was lost since
    left,      \* bounds: what is left of the budget
    \* -- listen loop
    up,        \* subscribed
    inbox,     \* unread messages
    pc, msg,   \* "idle", "devices", "update" or "publish"; what is handled
    am, vm,    \* MLState
    key,       \* state:ml
    missed,    \* history: the views whose last publication failed
    dl,        \* DL80State and DL86State: device, transport; and their keys
    \* -- device inventory
    devs,      \* DeviceInventory._devs: address -> FALSE until its class is known
    dirty,     \* _rev # _published_rev
    devKey,    \* state:ml:devices
    gate,      \* sweep_gate: its holder
    sweep,     \* sweep threads: where they are, and the probes already sent
    hand,      \* per thread: the inventory it is about to publish
    \* -- startup query
    query      \* attempts made; above Attempts: ended

world == <<present, amPlays, vmShows, told>>
views == <<am, vm, key, missed, dl>>
inventory == <<devs, dirty, devKey, hand>>
vars == <<world, left, up, inbox, pc, msg, views, inventory, gate, sweep, query>>

-----------------------------------------------------------------------------
(* Telegrams, as parse_ml sees them.  Track 2 stands for a telegram type   *)
(* that carries no track and leaves the known one alone.                   *)

Telegram(kind, frm, src, active, track) ==
    [kind |-> kind, frm |-> frm, src |-> src, active |-> active, track |-> track]

Status(m, s, active, track) == Telegram("status", m, s, active, track)
Release(frm, s) == Telegram("release", frm, s, FALSE, 0)
CurrentSource(s) == Telegram("current", AM, s, TRUE, 0)
Goto(m, s) == Telegram("goto", m, s, TRUE, 2)
SourcelessStandby == Telegram("release", VM, None, FALSE, 0)
Pong(a) == Telegram("pong", a, None, FALSE, 0)
\* Our own probe comes back on the transmit channel, under the name of a master.
Probe(a) == Telegram("tx", IF a = VM THEN AM ELSE VM, None, FALSE, 0)
Discover == Telegram("discover", None, None, FALSE, 0)
Datalink(device, transport) == Telegram("dl", device, transport, FALSE, 0)

\* The view a telegram is about: MLState, or that of a Datalink.
View(t) == IF t.kind = "dl" THEN "dl" ELSE "ml"

CarriesSource(t) == t.src \in Audio \cup Video

\* _MasterState.apply
Applied(slot, t) == [source |-> t.src, track |-> IF t.track = 2 THEN slot.track ELSE t.track]

\* Mutant: clears on the exact source only.
ApplyOrClearExact(slot, t, master) ==
    IF t.active THEN Applied(slot, t)
    ELSE IF slot.source = t.src THEN Silent ELSE slot

\* MLState._apply_or_clear
ApplyOrClear(slot, t, master) ==
    IF t.active THEN Applied(slot, t)
    ELSE IF (t.kind = "status" /\ t.frm = master) \/ slot.source = t.src
    THEN Silent
    ELSE slot

\* MLState.update, for a telegram that carries a source
NextAm(t) == IF Kind(t.src) = "am" THEN ApplyOrClear(am, t, AM) ELSE am
NextVm(t) ==
    IF Kind(t.src) = "vm" THEN ApplyOrClear(vm, t, VM)
    ELSE IF t.frm = VM THEN Silent
    ELSE vm

-----------------------------------------------------------------------------
NoDevices == [a \in {} |-> FALSE]
EmptyHanded == [step |-> "none", devs |-> NoDevices]

Init ==
    /\ present \in {Addresses, Addresses \ {VM}, Addresses \ QueryAddrs}
    /\ amPlays \in Audio \cup {None}
    /\ vmShows = None
    /\ told = {}
    /\ left \in Scenarios
    /\ up = TRUE
    /\ inbox = <<>>
    /\ pc = "idle"
    /\ msg = None
    /\ am = Silent
    /\ vm = Silent
    /\ key = [am |-> Silent, vm |-> Silent]
    /\ missed = {}
    /\ dl = [device |-> None, transport |-> None, key |-> <<None, None>>]
    /\ devs = NoDevices
    /\ dirty = FALSE
    /\ devKey = NoDevices
    /\ gate = None
    /\ sweep = [w \in Sweepers |-> 
                 [at |-> IF w = Startup /\ left.discover = 1 THEN "spawned" ELSE "none",
                  sent |-> 0]]
    /\ hand = [t \in Threads |-> EmptyHanded]
    /\ query = IF left.query = 1 THEN 0 ELSE Attempts + 1

Spend(what) ==
    /\ left[what] > 0
    /\ left' = [left EXCEPT ![what] = @ - 1]

\* Published on a channel: delivered if we are subscribed, lost if we are not.
Deliver(ts) == inbox' = IF up THEN inbox \o ts ELSE inbox

Room == Len(inbox) < MaxInbox

-----------------------------------------------------------------------------
(* The masters, the deck, and whoever asks for a sweep.                    *)

Announced(m) == told' = IF up THEN told \cup m ELSE told \ m

AmAnnounces ==
    /\ Spend("world") /\ Room
    /\ \E s \in Audio, track \in 0..1 :
        /\ amPlays' = s
        /\ Deliver(<<Status(AM, s, TRUE, track)>>)
    /\ Announced({AM})
    /\ UNCHANGED <<present, vmShows>>

\* Named by its STATUS_INFO, which may give another source of its own, or by
\* the RELEASE of the source.
AmStops ==
    /\ amPlays # None
    /\ Spend("world") /\ Room
    /\ \/ /\ Deliver(<<Release(Other, amPlays)>>)
          /\ told' = IF up THEN told ELSE told \ {AM}
       \/ /\ \E s \in Audio : Deliver(<<Status(AM, s, FALSE, 0)>>)
          /\ Announced({AM})
    /\ amPlays' = None
    /\ UNCHANGED <<present, vmShows>>

\* The VM shows a video source: a standby without a source for the AM, whose
\* audio goes on in the other rooms.
VmShowsVideo ==
    /\ VM \in present
    /\ Spend("world") /\ Room
    /\ \E v \in Video :
        /\ vmShows' = v
        /\ Deliver(<<SourcelessStandby, Goto(VM, v)>>)
    /\ Announced({VM})
    /\ UNCHANGED <<present, amPlays>>

\* Power-off: the VM gives its base source, whatever it showed.
VmOff ==
    /\ VM \in present
    /\ Spend("world") /\ Room
    /\ \E v \in Video : Deliver(<<Status(VM, v, FALSE, 0)>>)
    /\ vmShows' = None
    /\ Announced({VM})
    /\ UNCHANGED <<present, amPlays>>

VmToAudio ==
    /\ VM \in present
    /\ Spend("world") /\ Room
    /\ \E s \in Audio : amPlays' = s /\ Deliver(<<Goto(VM, s)>>)
    /\ vmShows' = None
    /\ Announced(Masters)
    /\ UNCHANGED present

\* A source that is not in use is released, by the teardown of an old session.
LateRelease ==
    /\ Spend("world") /\ Room
    /\ \E s \in (Audio \cup Video) \ {amPlays, vmShows} : Deliver(<<Release(Other, s)>>)
    /\ UNCHANGED world

\* The status byte of a deck; on the wire, every byte comes twice.
DatalinkByte ==
    /\ Spend("bytes") /\ Room
    /\ \E d \in {"BG", "SYS"}, t \in {"playing", "standby"} :
        /\ d = "SYS" => t = "standby"
        /\ Deliver(<<Datalink(d, t), Datalink(d, t)>>)
    /\ UNCHANGED world

Trigger ==
    /\ Spend("triggers") /\ Room
    /\ Deliver(<<Discover>>)
    /\ UNCHANGED world

Environment ==
    /\ \/ AmAnnounces \/ AmStops \/ VmShowsVideo \/ VmOff \/ VmToAudio
       \/ LateRelease \/ DatalinkByte \/ Trigger
    /\ UNCHANGED <<up, pc, msg, views, inventory, gate, sweep, query>>

-----------------------------------------------------------------------------
(* Publishing the inventory, from the listen loop and from the sweeps.     *)

\* _publish_devices: take_dirty, then as_blob, then SET; the lock is held for
\* each of the first two alone.
TakeDirty(t) ==
    /\ dirty' = FALSE
    /\ hand' = [hand EXCEPT ![t].step = "taken"]
    /\ UNCHANGED <<devs, devKey>>

ReadInventory(t) ==
    /\ hand[t].step = "taken"
    /\ hand' = [hand EXCEPT ![t] = [step |-> "read", devs |-> devs]]
    /\ UNCHANGED <<devs, dirty, devKey>>

SetDevices(t) ==
    /\ devKey' = hand[t].devs
    /\ hand' = [hand EXCEPT ![t] = EmptyHanded]
    /\ UNCHANGED <<devs, dirty>>

Holding(t) == hand[t].step = "read"

\* DeviceInventory.observe: a class once known is kept until another answers.
Observe(t) ==
    IF t.frm \notin Addresses THEN UNCHANGED <<devs, dirty>>
    ELSE LET class == t.kind = "pong" \/ (t.frm \in DOMAIN devs /\ devs[t.frm]) IN
         /\ devs' = [a \in DOMAIN devs \cup {t.frm} |-> IF a = t.frm THEN class ELSE devs[a]]
         /\ dirty' = (dirty \/ devs' # devs)

-----------------------------------------------------------------------------
(* The listen loop.                                                        *)

\* Mutant: counts what we send ourselves.
TakeCountsOwn ==
    /\ pc = "idle" /\ up /\ inbox # <<>>
    /\ inbox' = Tail(inbox)
    /\ LET t == Head(inbox) IN
        /\ t.kind # "discover"
        /\ msg' = t
        /\ IF t.kind = "dl" \/ left.discover = 0
           THEN pc' = "update" /\ UNCHANGED <<devs, dirty>>
           ELSE pc' = "devices" /\ Observe(t)
    /\ UNCHANGED <<world, left, up, views, devKey, hand, gate, sweep, query>>

\* A discovery trigger spawns a sweep; a telegram is observed first, unless we
\* sent it.
Take ==
    /\ pc = "idle" /\ up /\ inbox # <<>>
    /\ inbox' = Tail(inbox)
    /\ LET t == Head(inbox) IN
        \/ /\ t.kind = "discover"
           /\ \E w \in Sweepers :
                /\ sweep[w].at = "none"
                /\ sweep' = [sweep EXCEPT ![w] = [at |-> "spawned", sent |-> 0]]
           /\ UNCHANGED <<pc, msg, devs, dirty>>
        \/ /\ t.kind # "discover"
           /\ msg' = t
           /\ IF t.kind \in {"tx", "dl"} \/ left.discover = 0
              THEN pc' = "update" /\ UNCHANGED <<devs, dirty>>
              ELSE pc' = "devices" /\ Observe(t)
           /\ UNCHANGED sweep
    /\ UNCHANGED <<world, left, up, views, devKey, hand, gate, query>>

ListenerDevices ==
    /\ pc = "devices"
    /\ \/ /\ hand[Listener] = EmptyHanded /\ dirty
          /\ TakeDirty(Listener)
          /\ UNCHANGED <<left, pc, up, inbox, msg, told>>
       \/ /\ hand[Listener] = EmptyHanded /\ ~dirty
          /\ pc' = "update"
          /\ UNCHANGED <<left, inventory, up, inbox, msg, told>>
       \/ /\ ReadInventory(Listener)
          /\ UNCHANGED <<left, pc, up, inbox, msg, told>>
       \/ /\ Holding(Listener)
          /\ SetDevices(Listener)
          /\ pc' = "update"
          /\ UNCHANGED <<left, up, inbox, msg, told>>
       \/ /\ Holding(Listener)           \* a redis error: the message is dropped
          /\ Spend("errors")
          /\ hand' = [hand EXCEPT ![Listener] = EmptyHanded]
          /\ pc' = "idle" /\ msg' = None
          /\ up' = FALSE /\ inbox' = <<>> /\ told' = {}
          /\ UNCHANGED <<devs, dirty, devKey>>
    /\ UNCHANGED <<present, amPlays, vmShows, views, gate, sweep, query>>

\* DL80State.update; DL86State.update keeps device and transport likewise.
NextDl(t) ==
    [dl EXCEPT !.device = IF t.frm = "SYS" THEN @ ELSE t.frm, !.transport = t.src]

\* Mutant: every byte counts as a change.
UpdateAlways ==
    /\ pc = "update"
    /\ pc' = "publish"
    /\ IF msg.kind = "dl"
       THEN /\ dl' = NextDl(msg)
            /\ UNCHANGED <<am, vm>>
       ELSE /\ am' = IF CarriesSource(msg) THEN NextAm(msg) ELSE am
            /\ vm' = IF CarriesSource(msg) THEN NextVm(msg) ELSE vm
            /\ UNCHANGED dl
    /\ UNCHANGED <<world, left, up, inbox, msg, key, missed, inventory, gate, sweep, query>>

Update ==
    /\ pc = "update"
    /\ IF msg.kind = "dl"
       THEN /\ dl' = NextDl(msg)
            /\ UNCHANGED <<am, vm>>
       ELSE /\ am' = IF CarriesSource(msg) THEN NextAm(msg) ELSE am
            /\ vm' = IF CarriesSource(msg) THEN NextVm(msg) ELSE vm
            /\ UNCHANGED dl
    /\ pc' = IF <<am, vm, dl>>' = <<am, vm, dl>> THEN "idle" ELSE "publish"
    /\ UNCHANGED <<world, left, up, inbox, msg, key, missed, inventory, gate, sweep, query>>

\* _publish: SET and PUBLISH, either of which may fail.
Publish ==
    /\ pc = "publish"
    /\ pc' = "idle"
    /\ LET set == IF msg.kind = "dl"
                  THEN dl' = [dl EXCEPT !.key = <<dl.device, dl.transport>>] /\ UNCHANGED key
                  ELSE key' = [am |-> am, vm |-> vm] /\ UNCHANGED dl
       IN \/ set /\ missed' = missed \ {View(msg)} /\ UNCHANGED <<left, up, inbox, told>>
          \/ /\ Spend("errors")
             /\ set \/ UNCHANGED <<key, dl>>
             /\ missed' = missed \cup {View(msg)}
             /\ up' = FALSE /\ inbox' = <<>> /\ told' = {}
    /\ UNCHANGED <<present, amPlays, vmShows, msg, am, vm, inventory, gate, sweep, query>>

\* The connection breaks while the loop waits.
Disconnect ==
    /\ pc = "idle" /\ up
    /\ Spend("errors")
    /\ up' = FALSE /\ inbox' = <<>> /\ told' = {}
    /\ UNCHANGED <<present, amPlays, vmShows, pc, msg, views, inventory, gate, sweep, query>>

Resubscribe ==
    /\ ~up
    /\ up' = TRUE
    /\ UNCHANGED <<world, left, inbox, pc, msg, views, inventory, gate, sweep, query>>

Listen == Take \/ ListenerDevices \/ Update \/ Publish \/ Resubscribe

-----------------------------------------------------------------------------
(* A sweep thread: _run_sweep.                                             *)

Moves(w, at) == sweep' = [sweep EXCEPT ![w].at = at]

\* Mutant: the trigger that comes while a sweep runs starts one of its own.
SweepEntersAlways(w) ==
    /\ sweep[w].at = "spawned"
    /\ gate' = w /\ Moves(w, "probe")
    /\ UNCHANGED <<world, left, up, inbox, pc, msg, views, inventory, query>>

\* Single-flight: with the gate taken, the trigger is ignored.
SweepEnters(w) ==
    /\ sweep[w].at = "spawned"
    /\ IF gate = None
       THEN gate' = w /\ Moves(w, "probe")
       ELSE UNCHANGED gate /\ Moves(w, "none")
    /\ UNCHANGED <<world, left, up, inbox, pc, msg, views, inventory, query>>

\* One probe; a device answers it, unless the answer collides.
SweepProbes(w) ==
    /\ sweep[w].at = "probe"
    /\ sweep[w].sent < Len(SweepOrder)
    /\ Room
    /\ LET a == SweepOrder[sweep[w].sent + 1] IN
        \/ Deliver(<<Probe(a)>> \o IF a \in present THEN <<Pong(a)>> ELSE <<>>) /\ UNCHANGED left
        \/ a \in present /\ Spend("lost") /\ Deliver(<<Probe(a)>>)
    /\ sweep' = [sweep EXCEPT ![w].sent = @ + 1]
    /\ UNCHANGED <<world, up, pc, msg, views, inventory, gate, query>>

\* The forced publication; its errors are swallowed.
SweepPublishes(w) ==
    /\ \/ /\ sweep[w].at = "probe" /\ sweep[w].sent = Len(SweepOrder)
          /\ TakeDirty(w) /\ Moves(w, "publish")
          /\ UNCHANGED left
       \/ sweep[w].at = "publish" /\ ReadInventory(w) /\ UNCHANGED <<left, sweep>>
       \/ /\ sweep[w].at = "publish" /\ Holding(w)
          /\ \/ SetDevices(w) /\ UNCHANGED left
             \/ /\ Spend("errors")
                /\ hand' = [hand EXCEPT ![w] = EmptyHanded]
                /\ UNCHANGED <<devs, dirty, devKey>>
          /\ Moves(w, "leave")
    /\ UNCHANGED <<world, up, inbox, pc, msg, views, gate, query>>

\* Mutant: only a sweep that published gives the gate back.
SweepLeavesPublished(w) ==
    /\ sweep[w].at = "leave"
    /\ gate' = IF devKey = devs THEN None ELSE gate
    /\ Moves(w, "none")
    /\ UNCHANGED <<world, left, up, inbox, pc, msg, views, inventory, query>>

SweepLeaves(w) ==
    /\ sweep[w].at = "leave"
    /\ gate' = None
    /\ Moves(w, "none")
    /\ UNCHANGED <<world, left, up, inbox, pc, msg, views, inventory, query>>

SweepStep(w) == SweepEnters(w) \/ SweepProbes(w) \/ SweepPublishes(w) \/ SweepLeaves(w)

-----------------------------------------------------------------------------
(* The startup query: _startup_query.                                      *)

\* Mutant: asks once.
QueryAsksOnce ==
    /\ query < Attempts
    /\ ~QueryAddrs \subseteq present
    /\ am.source = None
    /\ Room
    /\ query' = Attempts
    /\ \/ /\ amPlays # None
          /\ Deliver(<<CurrentSource(amPlays)>>)
          /\ UNCHANGED left
       \/ amPlays # None /\ Spend("lost") /\ UNCHANGED inbox
       \/ amPlays = None /\ UNCHANGED <<left, inbox>>
    /\ UNCHANGED <<world, up, pc, msg, views, inventory, gate, sweep>>

\* Phase 1: both masters are asked while the source is unknown; the AM answers
\* with what it plays, unless the answer is lost.
QueryAsks ==
    /\ query < Attempts
    /\ ~QueryAddrs \subseteq present
    /\ am.source = None
    /\ Room
    /\ query' = query + 1
    /\ \/ /\ amPlays # None
          /\ Deliver(<<CurrentSource(amPlays)>>)
          /\ UNCHANGED left
       \/ amPlays # None /\ Spend("lost") /\ UNCHANGED inbox
       \/ amPlays = None /\ UNCHANGED <<left, inbox>>
    /\ UNCHANGED <<world, up, pc, msg, views, inventory, gate, sweep>>

\* Phase 2: join the source in the slot; the AM announces it with its track,
\* or switches to it if it plays another one by now.
QueryJoins ==
    /\ query <= Attempts
    /\ ~QueryAddrs \subseteq present
    /\ query = Attempts \/ am.source # None
    /\ query' = Attempts + 1
    /\ IF DoGoto /\ am.source # None /\ am.track = 0
       THEN /\ Room
            /\ amPlays' = am.source
            /\ Deliver(<<Status(AM, am.source, TRUE, 1)>>)
            /\ Announced({AM})
            /\ UNCHANGED <<present, vmShows>>
       ELSE UNCHANGED <<world, inbox>>
    /\ UNCHANGED <<left, up, pc, msg, views, inventory, gate, sweep>>

\* Mutant: counts on.
QueryGivesUpBeyond ==
    /\ query = 0
    /\ QueryAddrs \subseteq present
    /\ query' = Attempts + 2
    /\ UNCHANGED <<world, left, up, inbox, pc, msg, views, inventory, gate, sweep>>

\* No free address to ask under: a device answers at each (_select_query_addr,
\* _addr_occupied), and the tracker stays passive.
QueryGivesUp ==
    /\ query = 0
    /\ QueryAddrs \subseteq present
    /\ query' = Attempts + 1
    /\ UNCHANGED <<world, left, up, inbox, pc, msg, views, inventory, gate, sweep>>

Query == QueryAsks \/ QueryJoins \/ QueryGivesUp

-----------------------------------------------------------------------------
Next ==
    \/ Environment
    \/ Listen \/ Disconnect
    \/ \E w \in Sweepers : SweepStep(w)
    \/ Query

\* The daemon's threads keep running; devices and people need not.
Fairness ==
    /\ WF_vars(Listen)
    /\ \A w \in Sweepers : WF_vars(SweepStep(w))
    /\ WF_vars(Query)

Spec == Init /\ [][Next]_vars /\ Fairness

-----------------------------------------------------------------------------
Quiet == pc = "idle" /\ up /\ inbox = <<>>

\* Types of the daemon's state.
TypeOK ==
    /\ am \in Slots /\ vm \in Slots
    /\ key \in [am : Slots, vm : Slots]
    /\ pc \in {"idle", "devices", "update", "publish"}
    /\ DOMAIN devs \subseteq Addresses /\ DOMAIN devKey \subseteq Addresses
    /\ gate \in Sweepers \cup {None}
    /\ \A w \in Sweepers : sweep[w].sent \in 0..Len(SweepOrder)
    /\ query \in 0..(Attempts + 1)

\* Once everything heard is handled, each slot holds what its master does,
\* whatever the other master and the teardowns of old sessions said meanwhile
\* (MLState: "a video STATUS_INFO can't overwrite the active audio source").
SlotsFollow ==
    Quiet => /\ AM \in told => am.source = amPlays
             /\ VM \in told => vm.source = vmShows

\* "Sweeps are single-flight": the bus never sees two overlapping probe storms.
OneSweep ==
    Cardinality({w \in Sweepers : sweep[w].at \in {"probe", "publish", "leave"}}) <= 1

\* "Counting those would invent phantoms": our probes go out under the name of
\* a master that may not exist, and never put it into the inventory.
NoPhantoms == DOMAIN devs \subseteq present /\ DOMAIN devKey \subseteq present

\* "Repeated identical status frames do not re-fire": what is published is news,
\* unless the publication before failed; the doubled bytes of the Datalink are not.
NoRefire ==
    [][pc = "publish" /\ pc' = "idle" /\ up' /\ View(msg) \notin missed
       => <<key, dl.key>>' # <<key, dl.key>>]_vars

\* A sweep ends and gives the gate back, also when redis fails: later triggers
\* are not ignored for ever.
SweepsEnd == gate # None ~> gate = None

\* After a start in the middle of a session the query fills the slot, although
\* nobody announces anything and an answer may be lost.
StartupFills ==
    <>[](left.query = 1 /\ ~QueryAddrs \subseteq present /\ amPlays # None
         => am.source # None)
=============================================================================
