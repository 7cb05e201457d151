----------------------------- MODULE AudioMaster -----------------------------
(***************************************************************************)
(* The Audio Master role of ml-source-bridge (roles/audio_master.py) with  *)
(* the threads of ml_source_bridge.py around it:                           *)
(*                                                                         *)
(*   - the main loop shows every telegram to the light handler, then       *)
(*     handles those addressed to the role, one at a time;                 *)
(*   - a stream watcher per provider raises stream_started and             *)
(*     stream_stopped; the role answers the first by waking the speakers   *)
(*     with a virtual Beo4 key, the second by a RELEASE to all.            *)
(*                                                                         *)
(* The room with its speakers and the audio backends are the environment.  *)
(***************************************************************************)
EXTENDS LightHandler, Naturals, Sequences

CONSTANTS
    Providers,     \* source bytes with a provider
    Generic,       \* src_dest = 0
    Foreign,       \* a source byte we do not provide
    Off,           \* the room plays nothing
    Scenarios,     \* bounds on what the user does, stream starts and keys, the
                   \* providers with a Beo4 key (BEO4_KEY_FOR_SOURCE), and whether
                   \* telegrams may take longer than five polls
    MaxInbox       \* bound: with as many telegrams waiting, no more arrive

ASSUME ProvidersAssumption ==
    /\ Generic \notin Providers /\ Foreign \notin Providers /\ Off \notin Providers
    /\ Generic # Foreign /\ MaxInbox \in Nat

VARIABLES
    \* -- environment
    room,      \* what the speakers are tuned to
    left,      \* bounds: what is left of the scenario
    air,       \* our telegrams on their way to the room
    playing,   \* provider.is_playing()
    refused,   \* history: providers told to play in vain, with no stream their
               \* watcher knew of, and not playing since
    \* -- main thread
    inbox,     \* telegrams not yet taken
    mainPc, mainSrc, mainTodo,
    \* -- stream watchers
    watchPc, believes, streak, watchTodo

amVars == <<mainPc, mainSrc, mainTodo>>
watchVars == <<watchPc, believes, streak, watchTodo>>
backend == <<playing, refused>>
vars == <<lightVars, room, left, air, backend, inbox, amVars, watchVars>>

Telegram(kind, src) == [kind |-> kind, src |-> src]
Goto(src) == Telegram("GOTO_SOURCE", src)
Leave(src) == Telegram("RELEASE", src)      \* STANDBY is handled alike
Key(key) == Telegram("VIRTUAL_BEO4", key)   \* to the gateway address

\* pause(): the players swallow errors and drop a command repeated too soon.
Pause(p) ==
    /\ playing' \in {playing, [playing EXCEPT ![p] = FALSE]}
    /\ UNCHANGED refused

\* play(), likewise; a stream that starts only later is one of StreamStarts.
Play(p) ==
    \/ /\ playing' = [playing EXCEPT ![p] = TRUE]
       /\ refused' = refused \ {p}
    \/ /\ UNCHANGED playing
       /\ refused' = IF playing[p] \/ believes[p] \/ watchPc[p] = "stopped"
                     THEN refused ELSE refused \cup {p}

Init ==
    /\ LightInit
    /\ room = Off
    /\ left \in Scenarios
    /\ air = <<>>
    /\ playing = [p \in Providers |-> FALSE]
    /\ refused = {}
    /\ inbox = <<>>
    /\ mainPc = "listen" /\ mainSrc = Off /\ mainTodo = {}
    /\ watchPc = [p \in Providers |-> "poll"]
    /\ believes = [p \in Providers |-> FALSE]
    /\ streak = [p \in Providers |-> 0]
    /\ watchTodo = [p \in Providers |-> {}]

-----------------------------------------------------------------------------
(* The main thread.                                                        *)

\* _on_goto_source: not ours, not answered.
OnGotoSource(src) ==
    IF src \in Providers
    THEN /\ mainPc' = "goto" /\ mainSrc' = src /\ mainTodo' = Providers \ {src}
         /\ UNCHANGED backend
    ELSE UNCHANGED <<amVars, backend>>

\* _on_release, _on_standby
OnRelease(src) ==
    \/ /\ src \in Providers /\ Pause(src)
       /\ UNCHANGED amVars
    \/ /\ src = Generic
       /\ mainPc' = "pauseall" /\ mainSrc' = Off /\ mainTodo' = Providers
       /\ UNCHANGED backend
    \/ /\ src \notin Providers \cup {Generic}
       /\ UNCHANGED <<amVars, backend>>

\* The listen loop; the requests answered without a state (MASTER_PRESENT,
\* REQ_DISTRIBUTED_SOURCE, REQ_LOCAL_SOURCE, LOCK_MANAGER) are left out.
Take ==
    /\ mainPc = "listen" /\ inbox # <<>>
    /\ inbox' = Tail(inbox)
    /\ LET t == Head(inbox) IN
        \/ t.kind = "VIRTUAL_BEO4" /\ OnKey(t.src) /\ UNCHANGED <<amVars, backend>>
        \/ t.kind = "GOTO_SOURCE" /\ OnGotoSource(t.src) /\ UNCHANGED lightVars
        \/ t.kind = "RELEASE" /\ OnRelease(t.src) /\ UNCHANGED lightVars
    /\ UNCHANGED <<room, left, air, watchVars>>

\* pause_other_providers, one after the other; the generic RELEASE does not ask
\* is_playing() first, which makes no difference here.
MainPauses ==
    /\ mainPc \in {"goto", "pauseall"}
    /\ \E p \in mainTodo : mainTodo' = mainTodo \ {p} /\ Pause(p)
    /\ UNCHANGED <<lightVars, room, left, air, inbox, mainPc, mainSrc, watchVars>>

MainDone ==
    /\ mainPc = "pauseall" /\ mainTodo = {}
    /\ mainPc' = "listen"
    /\ UNCHANGED <<lightVars, room, left, air, backend, inbox, mainSrc, mainTodo, watchVars>>

\* The three telegrams of the handshake take half a second; then play().
MainPlays ==
    /\ mainPc = "goto" /\ mainTodo = {}
    /\ mainPc' = "listen"
    /\ Play(mainSrc)
    /\ UNCHANGED <<lightVars, room, left, air, inbox, mainSrc, mainTodo, watchVars>>

Main == Take \/ MainPauses \/ MainDone \/ MainPlays

-----------------------------------------------------------------------------
(* The stream watchers: one poll a second.                                 *)

Calm == inbox = <<>> /\ mainPc = "listen" /\ air = <<>>

\* stream_started: without a Beo4 key nothing happens, not even a pause.
StreamStarted(p) ==
    IF p \in left.keyed
    THEN /\ watchPc' = [watchPc EXCEPT ![p] = "started"]
         /\ watchTodo' = [watchTodo EXCEPT ![p] = Providers \ {p}]
    ELSE UNCHANGED <<watchPc, watchTodo>>

\* Mutant: the first poll that finds the stream stopped counts.
PollWithoutDebounce(p) ==
    /\ watchPc[p] = "poll"
    /\ believes' = [believes EXCEPT ![p] = playing[p]]
    /\ streak' = [streak EXCEPT ![p] = 0]
    /\ \/ playing[p] /\ ~believes[p] /\ StreamStarted(p)
       \/ playing[p] = believes[p] /\ UNCHANGED <<watchPc, watchTodo>>
       \/ /\ ~playing[p] /\ believes[p]
          /\ watchPc' = [watchPc EXCEPT ![p] = "stopped"]
          /\ UNCHANGED watchTodo
    /\ UNCHANGED <<lightVars, room, left, air, backend, inbox, amVars>>

\* streak: 0 - no stop seen; 1 - at least one poll saw it; 2 - five may have.
Poll(p) ==
    /\ watchPc[p] = "poll"
    /\ \/ /\ playing[p]
          /\ streak' = [streak EXCEPT ![p] = 0]
          /\ believes' = [believes EXCEPT ![p] = TRUE]
          /\ IF believes[p] THEN UNCHANGED <<watchPc, watchTodo>> ELSE StreamStarted(p)
       \/ /\ ~playing[p] /\ believes[p] /\ streak[p] = 0
          /\ streak' = [streak EXCEPT ![p] = 1]
          /\ UNCHANGED <<believes, watchPc, watchTodo>>
       \/ /\ ~playing[p] /\ believes[p] /\ streak[p] = 2
          /\ streak' = [streak EXCEPT ![p] = 0]
          /\ believes' = [believes EXCEPT ![p] = FALSE]
          /\ watchPc' = [watchPc EXCEPT ![p] = "stopped"]
          /\ UNCHANGED watchTodo
    /\ UNCHANGED <<lightVars, room, left, air, backend, inbox, amVars>>

\* Mutant: counts on after the stop is certain.
SecondsPassOn(p) ==
    /\ streak[p] >= 1
    /\ Calm \/ left.late
    /\ streak' = [streak EXCEPT ![p] = @ + 1]
    /\ UNCHANGED <<lightVars, room, left, air, backend, inbox, amVars,
                   watchPc, believes, watchTodo>>

\* _STOP_DEBOUNCE_POLLS seconds pass; as long as no telegram is late, our own key
\* among them, only when all are handled: a handshake takes half a second.
SecondsPass(p) ==
    /\ streak[p] = 1
    /\ Calm \/ left.late
    /\ streak' = [streak EXCEPT ![p] = 2]
    /\ UNCHANGED <<lightVars, room, left, air, backend, inbox, amVars,
                   watchPc, believes, watchTodo>>

WatcherPauses(p) ==
    /\ watchPc[p] = "started"
    /\ \E q \in watchTodo[p] :
        /\ watchTodo' = [watchTodo EXCEPT ![p] = @ \ {q}]
        /\ Pause(q)
    /\ UNCHANGED <<lightVars, room, left, air, inbox, amVars, watchPc, believes, streak>>

WatcherWakes(p) ==
    /\ watchPc[p] = "started" /\ watchTodo[p] = {}
    /\ watchPc' = [watchPc EXCEPT ![p] = "poll"]
    /\ air' = Append(air, Goto(p))
    /\ UNCHANGED <<lightVars, room, left, backend, inbox, amVars, believes, streak, watchTodo>>

\* Mutant: nobody is told.
StreamStoppedSilently(p) ==
    /\ watchPc[p] = "stopped"
    /\ watchPc' = [watchPc EXCEPT ![p] = "poll"]
    /\ UNCHANGED <<lightVars, room, left, air, backend, inbox, amVars,
                   believes, streak, watchTodo>>

\* stream_stopped: RELEASE to all, whatever else plays by now.
StreamStopped(p) ==
    /\ watchPc[p] = "stopped"
    /\ watchPc' = [watchPc EXCEPT ![p] = "poll"]
    /\ air' = Append(air, Leave(Generic))
    /\ UNCHANGED <<lightVars, room, left, backend, inbox, amVars, believes, streak, watchTodo>>

Watch(p) == Poll(p) \/ WatcherPauses(p) \/ WatcherWakes(p) \/ StreamStopped(p)

-----------------------------------------------------------------------------
(* The room and the backends.                                              *)

Spend(what) ==
    /\ left[what] > 0
    /\ left' = [left EXCEPT ![what] = @ - 1]

Deliver(t) == Len(inbox) < MaxInbox /\ inbox' = Append(inbox, t)

\* The user tunes a speaker, or switches it off (with or without naming what it
\* played).
UserSelects ==
    /\ Spend("user")
    /\ \E src \in Providers \cup {Foreign} :
        /\ Deliver(Goto(src))
        /\ room' = IF src = Foreign THEN Off ELSE src
    /\ UNCHANGED <<lightVars, air, backend, amVars, watchVars>>

UserLeaves ==
    /\ room # Off /\ Spend("user")
    /\ \E src \in {room, Generic, Foreign} : Deliver(Leave(src))
    /\ room' = Off
    /\ UNCHANGED <<lightVars, air, backend, amVars, watchVars>>

\* Woken by our key, the speakers ask for the source; our RELEASE stops them.
RoomHears ==
    /\ air # <<>>
    /\ air' = Tail(air)
    /\ \/ /\ Head(air).kind = "GOTO_SOURCE"
          /\ room' = Head(air).src
          /\ Deliver(Head(air))
       \/ /\ Head(air).kind = "RELEASE"
          /\ room' = Off
          /\ UNCHANGED inbox
    /\ UNCHANGED <<lightVars, left, backend, amVars, watchVars>>

\* On a phone; a stream lasts until a poll has seen it.
StreamStarts(p) ==
    /\ ~playing[p] /\ Spend("streams")
    /\ playing' = [playing EXCEPT ![p] = TRUE]
    /\ refused' = refused \ {p}
    /\ UNCHANGED <<lightVars, room, air, inbox, amVars, watchVars>>

StreamEnds(p) ==
    /\ playing[p] /\ believes[p] /\ Spend("streams")
    /\ playing' = [playing EXCEPT ![p] = FALSE]
    /\ UNCHANGED <<refused, lightVars, room, air, inbox, amVars, watchVars>>

KeyPress ==
    /\ Spend("keys")
    /\ \E k \in Keys : Deliver(Key(k))
    /\ UNCHANGED <<lightVars, room, air, backend, amVars, watchVars>>

LightStep(t) ==
    /\ TimerStep(t)
    /\ UNCHANGED <<room, left, air, backend, inbox, amVars, watchVars>>

Next ==
    \/ Main
    \/ \E p \in Providers : Watch(p) \/ SecondsPass(p) \/ StreamStarts(p) \/ StreamEnds(p)
    \/ UserSelects \/ UserLeaves \/ RoomHears \/ KeyPress
    \/ \E t \in Timers : LightStep(t)

\* Threads go on, time passes and the room reacts; users need do nothing.
Fairness ==
    /\ WF_vars(Main)
    /\ \A p \in Providers : WF_vars(Watch(p)) /\ WF_vars(SecondsPass(p))
    /\ WF_vars(RoomHears)
    /\ \A t \in Timers : WF_vars(LightStep(t))

Spec == Init /\ [][Next]_vars /\ Fairness

-----------------------------------------------------------------------------
\* Types of the bridge's state.
TypeOK ==
    /\ channel \in BOOLEAN
    /\ timers \in [Timers -> {"off", "running", "due"}]
    /\ timer \in Timers \cup {NoTimer}
    /\ mainPc \in {"listen", "goto", "pauseall"}
    /\ mainTodo \subseteq Providers
    /\ watchPc \in [Providers -> {"poll", "started", "stopped"}]
    /\ playing \in [Providers -> BOOLEAN]
    /\ refused \subseteq Providers
    /\ streak \in [Providers -> 0..2]

\* No dead air: with everything handled, and every watcher having seen what there
\* is to see, the speakers are not left on a source whose stream has ended, also
\* when it ended while the key that tuned them to it was still on its way.  Only a
\* source that was told to play and did not can leave them in silence.
NoDeadAir ==
    (/\ Calm
     /\ \A p \in Providers : watchPc[p] = "poll" /\ believes[p] = playing[p])
    => (room \in Providers => playing[room] \/ room \in refused)

\* Two streams that start at the same time pause each other and wake the room to
\* both, and the room's answers pause them in turn; if no answer takes longer than
\* the five polls of the debounce, they stop doing so in the end.
Settles == ~left.late => <>[][playing' = playing]_vars

\* The LIGHT channel closes by itself, also when the bus never reports the
\* timeout and timers fire late.
LightCloses == channel ~> ~channel
===============================================================================
