----------------------------- MODULE NowPlaying -----------------------------
(***************************************************************************)
(* The now-playing publishers of ml-source-bridge (core/nowplaying.py) and *)
(* the shutdown of ml_source_bridge.py that ends them.                     *)
(*                                                                         *)
(* One Periodic thread per source polls its provider and writes what it    *)
(* sees to redis when it differs from its last write: HSET of the current  *)
(* view, then PUBLISH of the change.  The two are separate calls, and each *)
(* can fail.  At shutdown the main thread joins the publishers for two     *)
(* seconds each and then writes a last, idle view for every source.        *)
(***************************************************************************)
EXTENDS Naturals, Sequences, FiniteSets

CONSTANTS
    Sources,       \* source bytes with a provider
    Titles,        \* what a backend can present
    Nothing,       \* no title; no payload
    MaxEvents,     \* bound: changes of the backends and starts of the bridge
    MaxFaults,     \* bound: failed redis calls and crashes
    MaxInbox       \* bound: with as many changes unread, no poll begins

VARIABLES
    backend,    \* what each source's provider presents: state and title
    events,     \* bound: changes of the backends and starts so far
    faults,     \* bound: redis errors and crashes so far
    pub,        \* publisher threads: where they are, the blob in hand and
                \* last["blob"], the one written last
    main,       \* main thread: "run", "join", "idle", "exited" or "killed"
    mainTodo,   \* sources it has not joined or written idle yet
    mainHas,    \* the idle view it has stored, but not announced
    stored,     \* redis hash state:nowplaying
    said,       \* history: sources whose last PUBLISH carried what the hash holds
    inbox       \* subscriber's copy of channel link:ml:nowplaying

bridgeVars == <<pub, main, mainTodo, mainHas>>
hashVars == <<stored, said>>
vars == <<backend, events, faults, bridgeVars, hashVars, inbox>>

Idle == [state |-> "idle", title |-> Nothing]
Views == {Idle} \cup [state : {"playing", "paused"}, title : Titles]

Payloads == [src : Sources, view : Views]
Payload(s, v) == [src |-> s, view |-> v]

TypeOK ==
    /\ backend \in [Sources -> Views]
    /\ events \in 0..MaxEvents
    /\ faults \in 0..MaxFaults
    /\ \A s \in Sources :
        /\ pub[s].at \in {"ended", "sleep", "read", "hset", "publish"}
        /\ pub[s].blob \in Views \cup Payloads \cup {Nothing}
        /\ pub[s].last \in Views \cup {Nothing}
    /\ main \in {"run", "join", "idle", "exited", "killed"}
    /\ mainTodo \subseteq Sources
    /\ mainHas \in Payloads \cup {Nothing}
    /\ stored \in [Sources -> Payloads \cup {Nothing}]
    /\ said \subseteq Sources
    /\ inbox \in Seq(Payloads)

Init ==
    /\ backend = [s \in Sources |-> Idle]
    /\ events = 0
    /\ faults = 0
    /\ pub = [s \in Sources |-> [at |-> "ended", blob |-> Nothing, last |-> Nothing]]
    /\ main = "killed"
    /\ mainTodo = {}
    /\ mainHas = Nothing
    /\ stored = [s \in Sources |-> Nothing]
    /\ said = {}
    /\ inbox = <<>>

-----------------------------------------------------------------------------
\* The user, or the music itself: another track, a pause, a stop.
BackendChanges ==
    /\ events < MaxEvents
    /\ \E s \in Sources : \E v \in Views \ {backend[s]} :
        backend' = [backend EXCEPT ![s] = v]
    /\ events' = events + 1
    /\ UNCHANGED <<faults, bridgeVars, hashVars, inbox>>

\* A redis call fails.
Fault ==
    /\ faults < MaxFaults
    /\ faults' = faults + 1

NoFault == UNCHANGED faults

Store(payload) ==
    /\ stored' = [stored EXCEPT ![payload.src] = payload]
    /\ said' = said \ {payload.src}

\* Delivered to whoever is subscribed now; lost otherwise.
Announce(payload, subscribed) ==
    /\ inbox' = IF subscribed THEN Append(inbox, payload) ELSE inbox
    /\ said' = IF payload = stored[payload.src]
               THEN said \cup {payload.src} ELSE said \ {payload.src}

Publisher(s, at, blob, last) ==
    pub' = [pub EXCEPT ![s] = [at |-> at, blob |-> blob, last |-> last]]

-----------------------------------------------------------------------------
(* One publisher thread: Periodic.run around publish().                    *)

\* snapshot() asks for the state first, and for nothing more when idle.
PollState(s) ==
    /\ pub[s].at = "sleep"
    /\ main = "run"
    /\ Len(inbox) < MaxInbox
    /\ IF backend[s].state # "idle"
       THEN Publisher(s, "read", backend[s], pub[s].last)
       ELSE IF pub[s].last = Idle
       THEN Publisher(s, "sleep", Nothing, pub[s].last)
       ELSE Publisher(s, "hset", Idle, pub[s].last)
    /\ UNCHANGED <<backend, events, faults, main, mainTodo, mainHas, hashVars, inbox>>

\* Then for the metadata, which by now may be another track's, or gone: a
\* torn view is as good as any until the next poll.
PollMetadata(s) ==
    /\ pub[s].at = "read"
    /\ \E t \in IF backend[s].state = "idle" THEN Titles ELSE {backend[s].title} :
        LET blob == [pub[s].blob EXCEPT !.title = t] IN
        IF blob = pub[s].last
        THEN Publisher(s, "sleep", Nothing, pub[s].last)
        ELSE Publisher(s, "hset", blob, pub[s].last)
    /\ UNCHANGED <<backend, events, faults, main, mainTodo, mainHas, hashVars, inbox>>

\* _write: HSET.  An error leaves last["blob"] alone, so the next poll retries.
PollStores(s) ==
    /\ pub[s].at = "hset"
    /\ \/ /\ Store(Payload(s, pub[s].blob))
          /\ Publisher(s, "publish", Payload(s, pub[s].blob), pub[s].last)
          /\ NoFault
       \/ /\ Fault
          /\ Publisher(s, "sleep", Nothing, pub[s].last)
          /\ UNCHANGED hashVars
    /\ UNCHANGED <<backend, events, main, mainTodo, mainHas, inbox>>

\* _write: PUBLISH.
PollAnnounces(s, subscribed) ==
    /\ pub[s].at = "publish"
    /\ \/ /\ Announce(pub[s].blob, subscribed)
          /\ Publisher(s, "sleep", Nothing, pub[s].blob.view)
          /\ NoFault
       \/ /\ Fault
          /\ Publisher(s, "sleep", Nothing, pub[s].last)
          /\ UNCHANGED <<said, inbox>>
    /\ UNCHANGED <<backend, events, main, mainTodo, mainHas, stored>>

\* The thread finds the stop event set.
PublisherEnds(s) ==
    /\ pub[s].at = "sleep"
    /\ main # "run"
    /\ Publisher(s, "ended", Nothing, pub[s].last)
    /\ UNCHANGED <<backend, events, faults, main, mainTodo, mainHas, hashVars, inbox>>

-----------------------------------------------------------------------------
(* The main thread.                                                        *)

\* nowplaying.reset, which may fail, and the publishers start.
Start ==
    /\ main \in {"exited", "killed"}
    /\ events < MaxEvents
    /\ events' = events + 1
    /\ main' = "run"
    /\ mainTodo' = {}
    /\ mainHas' = Nothing
    /\ pub' = [s \in Sources |-> [at |-> "sleep", blob |-> Nothing, last |-> Nothing]]
    /\ \/ stored' = [s \in Sources |-> Nothing] /\ NoFault
       \/ UNCHANGED stored /\ Fault
    /\ said' = {}
    /\ UNCHANGED <<backend, inbox>>

Stop ==
    /\ main = "run"
    /\ main' = "join"
    /\ mainTodo' = Sources
    /\ UNCHANGED <<backend, events, faults, pub, mainHas, hashVars, inbox>>

Exited == [s \in Sources |-> [pub[s] EXCEPT !.at = "ended", !.blob = Nothing]]

\* th.join(timeout=2.0) returns: the thread has ended, or is in the middle of a
\* poll that takes longer, having asked several backends for two seconds each.
JoinReturns(s) ==
    /\ pub[s].at # "sleep"
    /\ main' = IF mainTodo = {s} THEN "idle" ELSE "join"
    /\ mainTodo' = IF mainTodo = {s} THEN Sources ELSE mainTodo \ {s}
    /\ UNCHANGED pub

\* Python up to 3.12: join of a Periodic that has ended calls its attribute _stop, which is
\* an Event.  The TypeError ends the shutdown before any idle view is written.
JoinRaises(s) ==
    /\ pub[s].at = "ended"
    /\ main' = "exited"
    /\ mainTodo' = {}
    /\ pub' = Exited

Join(s) ==
    /\ main = "join"
    /\ s \in mainTodo
    /\ JoinReturns(s) \/ JoinRaises(s)
    /\ UNCHANGED <<backend, events, faults, mainHas, hashVars, inbox>>

\* publish_idle: HSET, whose failure skips the PUBLISH ...
StoreIdle(s) ==
    /\ main = "idle"
    /\ mainHas = Nothing
    /\ s \in mainTodo
    /\ mainTodo' = mainTodo \ {s}
    /\ \/ Store(Payload(s, Idle)) /\ mainHas' = Payload(s, Idle) /\ NoFault
       \/ UNCHANGED <<hashVars, mainHas>> /\ Fault
    /\ UNCHANGED <<backend, events, pub, main, inbox>>

\* ... and PUBLISH; its errors are logged, and no more.
AnnounceIdle(subscribed) ==
    /\ main = "idle"
    /\ mainHas # Nothing
    /\ mainHas' = Nothing
    /\ \/ Announce(mainHas, subscribed) /\ NoFault
       \/ UNCHANGED <<said, inbox>> /\ Fault
    /\ UNCHANGED <<backend, events, pub, main, mainTodo, stored>>

\* main() returns; the publishers are daemon threads and end with it.
Exit ==
    /\ main = "idle"
    /\ mainTodo = {}
    /\ mainHas = Nothing
    /\ main' = "exited"
    /\ pub' = Exited
    /\ UNCHANGED <<backend, events, faults, mainTodo, mainHas, hashVars, inbox>>

Crash ==
    /\ main \notin {"exited", "killed"}
    /\ Fault
    /\ main' = "killed"
    /\ mainTodo' = {}
    /\ mainHas' = Nothing
    /\ pub' = Exited
    /\ UNCHANGED <<backend, events, hashVars, inbox>>

-----------------------------------------------------------------------------
BridgeStep(subscribed) ==
    \/ \E s \in Sources :
        \/ PollState(s) \/ PollMetadata(s) \/ PollStores(s) \/ PollAnnounces(s, subscribed)
        \/ PublisherEnds(s) \/ Join(s) \/ StoreIdle(s)
    \/ AnnounceIdle(subscribed)
    \/ Start \/ Stop \/ Exit \/ Crash

=============================================================================
