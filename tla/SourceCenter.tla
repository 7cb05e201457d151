---------------------------- MODULE SourceCenter ----------------------------
(***************************************************************************)
(* The MasterLink Source Center role of ml-source-bridge                   *)
(* (roles/source_center.py), with the threads of ml_source_bridge.py that  *)
(* drive it:                                                               *)
(*                                                                         *)
(*   - the main thread takes telegrams off the bus one at a time and runs  *)
(*     a handler to its end (the claim handshake takes about 1.4 s, so     *)
(*     telegrams queue up behind it);                                      *)
(*   - one stream watcher per provider polls is_playing() every second and *)
(*     raises stream_started / stream_stopped;                             *)
(*   - every stream_started may spawn a wake thread, which sends a wake    *)
(*     telegram and waits for the DIST_REQUEST that answers it.            *)
(*                                                                         *)
(* They share the set of granted sources, one threading.Event per source   *)
(* and the providers themselves; no lock covers any two of these.  The     *)
(* audio master (AM), the user and the state tracker are the environment.  *)
(***************************************************************************)
EXTENDS Naturals, Sequences, FiniteSets

CONSTANTS
    Sources,        \* source bytes with a provider (ctx.providers)
    SelfStarting,   \* those whose backend can start on its own (a phone, the
                    \* buttons of the record player, ...)
    Slow,           \* those whose backend streams some time after play() (an
                    \* AirPlay sender, asked by way of D-Bus and the network)
    Deaf,           \* those whose backend may miss a play or a pause (debounced
                    \* or failed D-Bus calls, the play grace of the turntable)
    StandbyOnStop,  \* those with standby_ml_on_stop set (a turntable)
    Wakeable,       \* those with a Beo4 key (BEO4_KEY_FOR_SOURCE)
    Generic,        \* src_dest = 0 in a RELEASE or a STANDBY
    Foreign,        \* any source byte we have no provider for
    Other,          \* the AM plays a source that is not ours
    Off,            \* the AM is in standby
    Wakers,         \* bound: wake threads alive at a time
    AutoWake,       \* auto_wake in the config: stream watchers run
    WakeOn,         \* wake_target # "off" in the config
    StopPolls,      \* _STOP_DEBOUNCE_POLLS
    MaxAttempts,    \* _WAKE_MAX_ATTEMPTS
    MaxInbox,       \* bound: with as many telegrams waiting, no more arrive
    Tracking,       \* whether the state tracker (optional) is running
    Lossy,          \* whether a redis reconnect may lose telegrams
    Restarts        \* whether the bridge may crash or be restarted

ASSUME SourcesAssumption ==
    /\ SelfStarting \subseteq Sources
    /\ Slow \subseteq Sources
    /\ Deaf \subseteq Sources
    /\ StandbyOnStop \subseteq Sources
    /\ Wakeable \subseteq Sources
    /\ Generic \notin Sources
    /\ Foreign \notin Sources
    /\ Generic # Foreign
    /\ Other \notin Sources
    /\ Off \notin Sources
    /\ Other # Off

ASSUME BoundsAssumption ==
    /\ StopPolls \in Nat \ {0}
    /\ MaxAttempts \in Nat \ {0}
    /\ MaxInbox \in Nat
    /\ AutoWake \in BOOLEAN
    /\ WakeOn \in BOOLEAN
    /\ Tracking \in BOOLEAN
    /\ Lossy \in BOOLEAN
    /\ Restarts \in BOOLEAN

VARIABLES
    \* -- shared between the threads of the bridge
    playing,     \* provider.is_playing(): the backend streams audio
    starting,    \* told to play, the backend does not stream yet
    begun,       \* history: streams that began during the handshake
    granted,     \* role._granted
    acked,       \* role._wake_acks: no Event yet, Event clear, Event set
    \* -- main thread
    inbox,       \* telegrams addressed to us and not yet handled
    recent,      \* sources whose _last_handshake_at is under 2 s old
    mainPc, mainSrc, mainTodo,
    asked,       \* history: sources whose last telegram was a DIST_REQUEST
    \* -- stream watchers, one per source
    watchPc, believes, streak, watchTodo,
    \* -- wake threads
    wakePc, wakeSrc, attempt,
    \* -- environment
    am,          \* what the AM plays
    tracker,     \* what state:ml says the AM plays
    air          \* our telegrams on their way to the AM

streams == <<playing, starting, begun>>
shared  == <<streams, granted, acked>>
mainVars  == <<recent, mainPc, mainSrc, mainTodo, asked>>
watchVars == <<watchPc, believes, streak, watchTodo>>
wakeVars  == <<wakePc, wakeSrc, attempt>>
vars == <<shared, inbox, mainVars, watchVars, wakeVars, am, tracker, air>>

DIST_REQUEST == "DIST_REQUEST"
RELEASE      == "RELEASE"
STANDBY      == "STANDBY"

Telegram == [type : {DIST_REQUEST, RELEASE, STANDBY},
             src  : Sources \cup {Generic, Foreign}]

About(type, src) == [type |-> type, src |-> src]

\* The stream of p begins, or goes on.
Streams(p) ==
    /\ playing' = [playing EXCEPT ![p] = TRUE]
    /\ starting' = starting \ {p}

\* The history of a handshake: the streams that begin in it.
Noted(p) ==
    begun' = IF mainPc \in {"pause_others", "handshake"} /\ ~playing[p]
             THEN begun \cup {p} ELSE begun

\* provider.play(): the backend streams at once, later, or missed the call.
Play(p) ==
    \/ Streams(p)
    \/ /\ p \in Slow /\ ~playing[p]
       /\ starting' = starting \cup {p}
       /\ UNCHANGED playing
    \/ p \in Deaf /\ UNCHANGED <<playing, starting>>

\* provider.pause(): it reaches the backend after a play still on its way.
Pause(p) ==
    \/ /\ playing' = [playing EXCEPT ![p] = FALSE]
       /\ starting' = starting \ {p}
       /\ UNCHANGED begun
    \/ p \in Deaf /\ UNCHANGED streams

\* ctx.pause_other_providers, for one of the others: only what streams now.
PauseIfPlaying(p) ==
    IF playing[p] THEN Pause(p) ELSE UNCHANGED streams

Init ==
    /\ playing = [s \in Sources |-> FALSE]
    /\ starting = {} /\ begun = {}
    /\ granted = {}
    /\ acked = [s \in Sources |-> "none"]
    /\ inbox = <<>>
    /\ recent = {}
    /\ mainPc = "listen" /\ mainSrc \in Sources /\ mainTodo = {}
    /\ asked = {}
    /\ watchPc = [s \in Sources |-> "poll"]
    /\ believes = [s \in Sources |-> FALSE]
    /\ streak = [s \in Sources |-> 0]
    /\ watchTodo = [s \in Sources |-> {}]
    /\ wakePc = [k \in Wakers |-> "off"]
    /\ wakeSrc \in [Wakers -> Sources]
    /\ attempt = [k \in Wakers |-> 0]
    /\ am = Off /\ tracker = Off /\ air = {}

-----------------------------------------------------------------------------
(***************************************************************************)
(* The main thread: Bus.listen_ml -> Dispatcher.dispatch -> handler.       *)
(***************************************************************************)

\* role._on_dist_request up to the first send.  The Event of a waiting wake
\* thread is set before the duplicate check, the grant only after it.
OnDistRequest(src) ==
    IF src \notin Sources
    THEN UNCHANGED <<shared, mainVars>>
    ELSE /\ UNCHANGED <<playing, starting>>
         /\ acked' = [acked EXCEPT ![src] = IF @ = "none" THEN @ ELSE "set"]
         /\ asked' = asked \cup {src}
         /\ \/ /\ src \in recent
               /\ UNCHANGED <<begun, granted, recent, mainPc, mainSrc, mainTodo>>
            \/ /\ src \notin recent
               /\ recent' = recent \cup {src}
               /\ granted' = granted \cup {src}
               /\ begun' = {}
               /\ mainPc' = "pause_others"
               /\ mainSrc' = src
               /\ mainTodo' = Sources \ {src}

\* Mutant: the providers are paused, but the grant is kept.
DropKeepsGrant(src) ==
    LET dropped == IF src = Generic THEN Sources ELSE {src} \cap Sources
    IN  /\ asked' = asked \ dropped
        /\ mainPc' = IF dropped = {} THEN "listen" ELSE "pause"
        /\ mainTodo' = dropped
        /\ UNCHANGED <<streams, granted, acked, recent, mainSrc>>

\* Mutant: a source that is not granted has nothing to pause.
DropGrantedOnly(src) ==
    LET dropped == granted \cap IF src = Generic THEN Sources ELSE {src}
    IN  /\ granted' = granted \ dropped
        /\ asked' = asked \ dropped
        /\ mainPc' = IF dropped = {} THEN "listen" ELSE "pause"
        /\ mainTodo' = dropped
        /\ UNCHANGED <<streams, acked, recent, mainSrc>>

\* What _on_release and _on_standby share: forget the grant, pause the
\* provider; src_dest 0 stands for every source; other sources are ignored.
Drop(src) ==
    LET dropped == IF src = Generic THEN Sources ELSE {src} \cap Sources
    IN  /\ granted' = granted \ dropped
        /\ asked' = asked \ dropped
        /\ mainPc' = IF dropped = {} THEN "listen" ELSE "pause"
        /\ mainTodo' = dropped
        /\ UNCHANGED <<streams, acked, recent, mainSrc>>

OnRelease(src) == Drop(src)
OnStandby(src) == Drop(src)

\* The next telegram, routed by payload type.
Dispatch ==
    /\ mainPc = "listen"
    /\ inbox # <<>>
    /\ inbox' = Tail(inbox)
    /\ LET t == Head(inbox)
       IN  \/ t.type = DIST_REQUEST /\ OnDistRequest(t.src)
           \/ t.type = RELEASE      /\ OnRelease(t.src)
           \/ t.type = STANDBY      /\ OnStandby(t.src)
    /\ UNCHANGED <<watchVars, wakeVars, am, tracker, air>>

\* Mutant: the handshake starts with one other provider unpaused.
MainSkipsLastPause ==
    /\ mainPc = "pause_others"
    /\ IF Cardinality(mainTodo) <= 1
       THEN /\ mainPc' = "handshake"
            /\ UNCHANGED <<streams, mainTodo>>
       ELSE \E p \in mainTodo :
               /\ PauseIfPlaying(p)
               /\ mainTodo' = mainTodo \ {p}
               /\ UNCHANGED mainPc
    /\ UNCHANGED <<granted, acked, inbox, recent, mainSrc, asked>>
    /\ UNCHANGED <<watchVars, wakeVars, am, tracker, air>>

\* ctx.pause_other_providers, one provider per step.
MainPausesOther ==
    /\ mainPc = "pause_others"
    /\ IF mainTodo = {}
       THEN /\ mainPc' = "handshake"
            /\ UNCHANGED <<streams, mainTodo>>
       ELSE \E p \in mainTodo :
               /\ PauseIfPlaying(p)
               /\ mainTodo' = mainTodo \ {p}
               /\ UNCHANGED mainPc
    /\ UNCHANGED <<granted, acked, inbox, recent, mainSrc, asked>>
    /\ UNCHANGED <<watchVars, wakeVars, am, tracker, air>>

\* The claim telegrams have been sent; provider.play() ends the handler.
Claim ==
    /\ mainPc = "handshake"
    /\ Play(mainSrc)
    /\ begun' = {}
    /\ mainPc' = "listen"
    /\ UNCHANGED <<granted, acked, inbox, recent, mainSrc, mainTodo, asked>>
    /\ UNCHANGED <<watchVars, wakeVars, am, tracker, air>>

\* The pauses of a RELEASE or STANDBY, one provider per step.
MainPauses ==
    /\ mainPc = "pause"
    /\ \E p \in mainTodo :
          /\ Pause(p)
          /\ mainTodo' = mainTodo \ {p}
          /\ mainPc' = IF mainTodo = {p} THEN "listen" ELSE "pause"
    /\ UNCHANGED <<granted, acked, inbox, recent, mainSrc, asked>>
    /\ UNCHANGED <<watchVars, wakeVars, am, tracker, air>>

\* _DIST_REQUEST_DEDUP_S passes.
WindowCloses(s) ==
    /\ s \in recent
    /\ recent' = recent \ {s}
    /\ UNCHANGED <<shared, inbox, mainPc, mainSrc, mainTodo, asked>>
    /\ UNCHANGED <<watchVars, wakeVars, am, tracker, air>>

MainStep == Dispatch \/ MainPausesOther \/ Claim \/ MainPauses

-----------------------------------------------------------------------------
(***************************************************************************)
(* The stream watcher of source s and the role's handling of its events.   *)
(***************************************************************************)

\* Mutant: the debounce counter is not stopped by the stream_stopped it raised.
PollMiscounts(s) ==
    /\ AutoWake /\ mainPc # "closing"
    /\ watchPc[s] = "poll"
    /\ believes' = [believes EXCEPT ![s] = playing[s]]
    /\ streak' = [streak EXCEPT ![s] = IF playing[s] THEN 0 ELSE @ + 1]
    /\ watchPc' = [watchPc EXCEPT ![s] = IF playing[s] = believes[s] THEN @
                        ELSE IF playing[s] THEN "started" ELSE "stopped"]
    /\ watchTodo' = [watchTodo EXCEPT ![s] = Sources \ {s}]
    /\ UNCHANGED <<shared, inbox, mainVars, wakeVars, am, tracker, air>>

\* One poll of is_playing().
Poll(s) ==
    /\ AutoWake /\ mainPc # "closing"
    /\ watchPc[s] = "poll"
    /\ \/ /\ playing[s] /\ believes[s]
          /\ streak' = [streak EXCEPT ![s] = 0]
          /\ UNCHANGED <<watchPc, believes, watchTodo>>
       \/ /\ playing[s] /\ ~believes[s]
          /\ streak' = [streak EXCEPT ![s] = 0]
          /\ believes' = [believes EXCEPT ![s] = TRUE]
          /\ watchPc' = [watchPc EXCEPT ![s] = "started"]
          /\ watchTodo' = [watchTodo EXCEPT ![s] = Sources \ {s}]
       \/ /\ ~playing[s] /\ believes[s] /\ streak[s] + 1 < StopPolls
          /\ streak' = [streak EXCEPT ![s] = @ + 1]
          /\ UNCHANGED <<watchPc, believes, watchTodo>>
       \/ /\ ~playing[s] /\ believes[s] /\ streak[s] + 1 >= StopPolls
          /\ streak' = [streak EXCEPT ![s] = 0]
          /\ believes' = [believes EXCEPT ![s] = FALSE]
          /\ watchPc' = [watchPc EXCEPT ![s] = "stopped"]
          /\ UNCHANGED watchTodo
    /\ UNCHANGED <<shared, inbox, mainVars, wakeVars, am, tracker, air>>

\* stream_started, first half: ctx.pause_other_providers.
WatcherPausesOther(s) ==
    /\ watchPc[s] = "started"
    /\ \E p \in watchTodo[s] :
          /\ PauseIfPlaying(p)
          /\ watchTodo' = [watchTodo EXCEPT ![s] = @ \ {p}]
    /\ UNCHANGED <<granted, acked, inbox, mainVars, watchPc, believes, streak>>
    /\ UNCHANGED <<wakeVars, am, tracker, air>>

\* role._already_on_our_source; `seen` is the answer of state:ml.
AlreadyOnOurSource(s, seen) == s \in granted \/ seen = s

\* stream_started, second half: wake the system unless it is on s already.
\* Reading state:ml may fail, which counts as "not on it".
DecideWake(s) ==
    /\ watchPc[s] = "started"
    /\ watchTodo[s] = {}
    /\ watchPc' = [watchPc EXCEPT ![s] = "poll"]
    /\ \E seen \in {tracker, Off} :
          IF AlreadyOnOurSource(s, seen) \/ ~WakeOn
          THEN UNCHANGED wakeVars
          ELSE \E k \in Wakers :
                  /\ wakePc[k] = "off"
                  /\ wakePc' = [wakePc EXCEPT ![k] = "begin"]
                  /\ wakeSrc' = [wakeSrc EXCEPT ![k] = s]
                  /\ attempt' = [attempt EXCEPT ![k] = 1]
    /\ UNCHANGED <<shared, inbox, mainVars, believes, streak, watchTodo>>
    /\ UNCHANGED <<am, tracker, air>>

\* Mutant: our own RELEASE also takes the grant back (a tempting cure for
\* grants that outlive the stream).
StreamStoppedUngrants(s) ==
    /\ watchPc[s] = "stopped"
    /\ watchPc' = [watchPc EXCEPT ![s] = "poll"]
    /\ air' = air \cup {RELEASE}
    /\ granted' = granted \ {s}
    /\ UNCHANGED <<streams, acked, inbox, mainVars, believes, streak, watchTodo>>
    /\ UNCHANGED <<wakeVars, am, tracker>>

\* stream_stopped: RELEASE to all, and for a turntable the system's STANDBY.
StreamStopped(s) ==
    /\ watchPc[s] = "stopped"
    /\ watchPc' = [watchPc EXCEPT ![s] = "poll"]
    /\ air' = air \cup {RELEASE}
                  \cup (IF s \in StandbyOnStop THEN {STANDBY} ELSE {})
    /\ UNCHANGED <<shared, inbox, mainVars, believes, streak, watchTodo>>
    /\ UNCHANGED <<wakeVars, am, tracker>>

WatchStep(s) ==
    Poll(s) \/ WatcherPausesOther(s) \/ DecideWake(s) \/ StreamStopped(s)

-----------------------------------------------------------------------------
(***************************************************************************)
(* Wake thread k: role._wake_with_retries.                                 *)
(***************************************************************************)

wakeFrame == UNCHANGED <<streams, granted, inbox, mainVars, watchVars,
                         wakeSrc, am, tracker>>

\* The thread goes on to pc, for the n-th attempt.
WakeTo(k, pc, n) ==
    /\ wakePc' = [wakePc EXCEPT ![k] = pc]
    /\ attempt' = [attempt EXCEPT ![k] = IF pc = "off" THEN 0 ELSE n]

\* Get or create the Event of the source, and clear it.
WakeBegins(k) ==
    /\ wakePc[k] = "begin"
    /\ \/ /\ wakeSrc[k] \notin Wakeable
          /\ WakeTo(k, "off", 0)
          /\ UNCHANGED acked
       \/ /\ wakeSrc[k] \in Wakeable
          /\ acked' = [acked EXCEPT ![wakeSrc[k]] = "clear"]
          /\ WakeTo(k, "check", attempt[k])
    /\ UNCHANGED air /\ wakeFrame

\* Give up when the stream has stopped meanwhile.
WakeChecks(k) ==
    /\ wakePc[k] = "check"
    /\ WakeTo(k, IF playing[wakeSrc[k]] THEN "send" ELSE "off", attempt[k])
    /\ UNCHANGED <<acked, air>> /\ wakeFrame

WakeSends(k) ==
    /\ wakePc[k] = "send"
    /\ air' = air \cup {wakeSrc[k]}
    /\ WakeTo(k, "wait", attempt[k])
    /\ UNCHANGED acked /\ wakeFrame

WakeAcked(k) ==
    /\ wakePc[k] = "wait"
    /\ acked[wakeSrc[k]] = "set"
    /\ WakeTo(k, "off", 0)
    /\ UNCHANGED <<acked, air>> /\ wakeFrame

\* Mutant: attempts are not counted.
WakeTimesOutForever(k) ==
    /\ wakePc[k] = "wait"
    /\ acked[wakeSrc[k]] # "set"
    /\ WakeTo(k, "check", attempt[k])
    /\ UNCHANGED <<acked, air>> /\ wakeFrame

\* ack.wait times out with the Event still clear.
WakeTimesOut(k) ==
    /\ wakePc[k] = "wait"
    /\ acked[wakeSrc[k]] # "set"
    /\ \/ /\ attempt[k] < MaxAttempts
          /\ WakeTo(k, "check", attempt[k] + 1)
       \/ /\ attempt[k] >= MaxAttempts
          /\ WakeTo(k, "off", 0)
    /\ UNCHANGED <<acked, air>> /\ wakeFrame

WakeStep(k) ==
    \/ WakeBegins(k) \/ WakeChecks(k) \/ WakeSends(k)
    \/ WakeAcked(k)  \/ WakeTimesOut(k)

-----------------------------------------------------------------------------
(***************************************************************************)
(* End of the process: an orderly shutdown (SIGTERM, a restart request)    *)
(* finishes the handler, a crash does not; systemd starts it again.        *)
(***************************************************************************)

\* Is one of our sources in use?  `seen` is what state:ml says; not being
\* able to read it counts as yes.
OurSourceOnBus(seen, readable) ==
    \/ \E s \in Sources : playing[s]
    \/ granted # {}
    \/ seen \in Sources
    \/ ~readable

Shutdown ==
    /\ Restarts
    /\ mainPc = "listen"
    /\ mainPc' = "closing"
    /\ mainTodo' = Sources
    /\ \E readable \in BOOLEAN :
          air' = IF OurSourceOnBus(tracker, readable)
                 THEN air \cup {RELEASE} ELSE air
    /\ UNCHANGED <<shared, inbox, recent, mainSrc, asked>>
    /\ UNCHANGED <<watchVars, wakeVars, am, tracker>>

\* prov.stop() of every provider in turn.
ProviderStops ==
    /\ mainPc = "closing"
    /\ \E p \in mainTodo :
          /\ Pause(p)
          /\ mainTodo' = mainTodo \ {p}
    /\ UNCHANGED <<granted, acked, inbox, recent, mainPc, mainSrc, asked>>
    /\ UNCHANGED <<watchVars, wakeVars, am, tracker, air>>

\* A new process: everything the bridge kept in memory is gone, the rest of
\* the house carries on.  A backend may die with the bridge (the loopback of
\* the turntable), or its provider may take it to be silent.
Restarted ==
    /\ playing' \in {p \in [Sources -> BOOLEAN] :
                       \A s \in Sources : p[s] => playing[s]}
    /\ starting' \in SUBSET starting
    /\ begun' = {}
    /\ granted' = {}
    /\ acked' = [s \in Sources |-> "none"]
    /\ inbox' = <<>>
    /\ recent' = {}
    /\ mainPc' = "listen" /\ mainTodo' = {}
    /\ asked' = {}
    /\ watchPc' = [s \in Sources |-> "poll"]
    /\ believes' = [s \in Sources |-> FALSE]
    /\ streak' = [s \in Sources |-> 0]
    /\ watchTodo' = [s \in Sources |-> {}]
    /\ wakePc' = [k \in Wakers |-> "off"]
    /\ attempt' = [k \in Wakers |-> 0]
    /\ UNCHANGED <<mainSrc, wakeSrc, am, tracker, air>>

Exit  == mainPc = "closing" /\ mainTodo = {} /\ Restarted
Crash == Restarts /\ Restarted

-----------------------------------------------------------------------------
(***************************************************************************)
(* Environment: the music system, its user, the backends, the tracker.     *)
(***************************************************************************)

bridgeFrame == UNCHANGED <<granted, acked, mainVars, watchVars, wakeVars>>

\* The master sends us these telegrams, unless MaxInbox wait already.
Deliver(telegrams) ==
    /\ Len(inbox) < MaxInbox
    /\ inbox' = inbox \o telegrams

\* The AM goes over to our source s: it asks for the source, and tells the
\* source it leaves, in either order.
Selects(s) ==
    /\ am' = s
    /\ LET request == About(DIST_REQUEST, s)
           leave   == About(STANDBY, am)
       IN  IF am \in Sources \ {s}
           THEN Deliver(<<request, leave>>) \/ Deliver(<<leave, request>>)
           ELSE Deliver(<<request>>)

\* The user selects s; selecting it again repeats the request.
UserSelects(s) ==
    /\ Selects(s)
    /\ UNCHANGED <<streams, tracker, air>> /\ bridgeFrame

\* The user selects a source that is not ours, or switches off.
UserLeaves(dest) ==
    /\ am # dest
    /\ am' = dest
    /\ \/ \E type \in {RELEASE, STANDBY} :
             \E src \in {am, Generic} \ {Other, Off} :
                Deliver(<<About(type, src)>>)
       \/ \E type \in {DIST_REQUEST, RELEASE} :
             am \notin Sources /\ Deliver(<<About(type, Foreign)>>)
    /\ UNCHANGED <<streams, tracker, air>> /\ bridgeFrame

\* A wake telegram arrives: the system turns to the source, or ignores it.
AmWoken(s) ==
    /\ s \in air
    /\ air' = air \ {s}
    /\ Selects(s) \/ UNCHANGED <<am, inbox>>
    /\ UNCHANGED <<streams, tracker>> /\ bridgeFrame

\* Our RELEASE or Beo4 STANDBY arrives: it stops whatever the AM plays.
AmStopped(type) ==
    /\ type \in air
    /\ air' = air \ {type}
    /\ am' = Off
    /\ UNCHANGED <<streams, tracker, inbox>> /\ bridgeFrame

\* A phone, or somebody at the record player, starts a stream.
StreamStarts(s) ==
    /\ s \in SelfStarting /\ ~playing[s]
    /\ Streams(s) /\ Noted(s)
    /\ UNCHANGED <<inbox, am, tracker, air>> /\ bridgeFrame

\* A backend follows the play() of a while ago, or gives up on it.
BackendFollows(s) ==
    /\ s \in starting
    /\ \/ Streams(s) /\ Noted(s)
       \/ starting' = starting \ {s} /\ UNCHANGED <<playing, begun>>
    /\ UNCHANGED <<inbox, am, tracker, air>> /\ bridgeFrame

\* A stream ends or is paused at the backend.
StreamEnds(s) ==
    /\ playing[s]
    /\ playing' = [playing EXCEPT ![s] = FALSE]
    /\ UNCHANGED <<starting, begun, inbox, am, tracker, air>> /\ bridgeFrame

\* The state tracker publishes what it saw on the bus.
TrackerPublishes ==
    /\ Tracking
    /\ tracker' = IF am \in Sources THEN am ELSE Off
    /\ tracker' # tracker
    /\ UNCHANGED <<streams, inbox, am, air>> /\ bridgeFrame

\* listen_ml reconnects after a redis error; what was published meanwhile,
\* or not yet read, is lost.
Reconnect ==
    /\ Lossy /\ mainPc = "listen" /\ inbox # <<>>
    /\ inbox' = <<>>
    /\ UNCHANGED <<streams, am, tracker, air>> /\ bridgeFrame

Environment ==
    \/ \E s \in Sources :
          \/ UserSelects(s) \/ AmWoken(s)
          \/ StreamStarts(s) \/ StreamEnds(s) \/ BackendFollows(s)
          \/ WindowCloses(s)
    \/ \E dest \in {Other, Off} : UserLeaves(dest)
    \/ \E type \in {RELEASE, STANDBY} : AmStopped(type)
    \/ TrackerPublishes \/ Reconnect

Next ==
    \/ MainStep
    \/ \E s \in Sources : WatchStep(s)
    \/ \E k \in Wakers : WakeStep(k)
    \/ Shutdown \/ ProviderStops \/ Exit \/ Crash
    \/ Environment

Spec == Init /\ [][Next]_vars

\* Every thread of the bridge keeps running; nothing is assumed of the house.
Fairness ==
    /\ WF_vars(MainStep)
    /\ \A s \in Sources : WF_vars(WatchStep(s))
    /\ \A k \in Wakers : WF_vars(WakeStep(k))

FairSpec == Spec /\ Fairness

-----------------------------------------------------------------------------
(***************************************************************************)
(* Properties                                                              *)
(***************************************************************************)

TypeOK ==
    /\ playing \in [Sources -> BOOLEAN]
    /\ starting \in SUBSET Sources
    /\ begun \in SUBSET Sources
    /\ granted \in SUBSET Sources
    /\ acked \in [Sources -> {"none", "clear", "set"}]
    /\ inbox \in Seq(Telegram)
    /\ recent \in SUBSET Sources
    /\ mainPc \in {"listen", "pause_others", "handshake", "pause", "closing"}
    /\ mainSrc \in Sources
    /\ mainTodo \in SUBSET Sources
    /\ asked \in SUBSET Sources
    /\ watchPc \in [Sources -> {"poll", "started", "stopped"}]
    /\ believes \in [Sources -> BOOLEAN]
    /\ streak \in [Sources -> 0 .. StopPolls - 1]
    /\ watchTodo \in [Sources -> SUBSET Sources]
    /\ wakePc \in [Wakers -> {"off", "begin", "check", "send", "wait"}]
    /\ wakeSrc \in [Wakers -> Sources]
    /\ attempt \in [Wakers -> 0 .. MaxAttempts]
    /\ am \in Sources \cup {Other, Off}
    /\ tracker \in Sources \cup {Off}
    /\ air \in SUBSET (Sources \cup {RELEASE, STANDBY})

\* No grant outlives the word that withdrew it: a source is in _granted only
\* while the last telegram handled about it, since the bridge started, was a
\* DIST_REQUEST -- whatever the watchers, the wake threads and a restart did.
GrantSound ==
    granted \subseteq asked

\* The claim handshake of _on_dist_request never ends in play() for a source
\* that is no longer granted: nothing can withdraw a grant in the 1.4 s
\* between the two, the RELEASE that would waits behind the handler.
ClaimIsGranted ==
    mainPc \in {"pause_others", "handshake"} => mainSrc \in granted

\* "Pause first, before the handshake, so the audio output is silent by the
\* time the speakers route to us": when the first claim telegram goes out, a
\* stream of another source is one that began after the request was taken, or
\* that a backend kept running in spite of the pause -- whatever the watchers
\* paused and the phones started in between.
SilencedFirst ==
    mainPc = "handshake" =>
        \A p \in Sources \ ({mainSrc} \cup Deaf) : playing[p] => p \in begun

\* A RELEASE or STANDBY for a source is obeyed however long the handler in
\* front of it takes: it leads to a moment at which the provider is silent and
\* no play is on its way to it, unless the provider missed the pause.
ReleaseObeyed ==
    \A s \in Sources \ Deaf :
        (\E i \in DOMAIN inbox : inbox[i] \in {About(RELEASE, s), About(STANDBY, s)})
            ~> ~playing[s] /\ s \notin starting

\* A wake thread ends -- acknowledged, aborted or given up -- whatever the bus
\* answers, and also when the answer came too early and was cleared away.
WakeEnds ==
    \A k \in Wakers : wakePc[k] # "off" ~> wakePc[k] = "off"

-----------------------------------------------------------------------------
(***************************************************************************)
(* What comments in the code say of it, and interleavings refute.          *)
(***************************************************************************)

\* "Only one source plays at a time [...] we can never have two providers
\* streaming simultaneously": asked of claims alone, with backends that obey
\* every command and start nothing on their own.
OneSourceAtATime ==
    \A p, q \in Sources : playing[p] /\ playing[q] => p = q

\* A stream that has ended stops the system (RELEASE, for a turntable STANDBY)
\* "rather than sit on a dead source": not while the AM plays another source of
\* ours, whose stream is running.
StopsDeadSourceOnly ==
    [][\A s \in Sources : StreamStopped(s) =>
          ~ \E q \in Sources \ {s} : am = q /\ q \in granted /\ playing[q]]_vars

=============================================================================
