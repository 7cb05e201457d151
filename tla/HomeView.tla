------------------------------ MODULE HomeView ------------------------------
(***************************************************************************)
(* What Home Assistant is shown of the sources of the bridge: the          *)
(* publishers of ml-source-bridge write it to redis, ha-notifier reads it  *)
(* there, and each side, redis and HA itself may fail and come back.       *)
(***************************************************************************)
EXTENDS Naturals, Sequences, FiniteSets

CONSTANTS Sources, Titles, Nothing,
    MaxEvents, MaxFaults, MaxInbox,
    Debounce, IdleDebounce, Retry, Keepalive, MaxTroubles

VARIABLES backend, events, faults, pub, main, mainTodo, mainHas,
          stored, said, inbox,
          link, slots, ticking, troubles, ha

Bridge == INSTANCE NowPlaying
Notifier == INSTANCE HaNotifier

bridgeOnly == <<backend, events, faults, pub, main, mainTodo, mainHas, said>>
notifierOnly == <<link, slots, ticking, troubles, ha>>
vars == <<bridgeOnly, stored, inbox, notifierOnly>>

ASSUME HomeAssumption ==
    /\ Nothing \notin Sources \cup Titles \cup Bridge!Views \cup Bridge!Payloads
    /\ {Debounce, IdleDebounce, Retry, MaxEvents, MaxFaults, MaxInbox, MaxTroubles} \subseteq Nat
    /\ Keepalive \in BOOLEAN

Init == Bridge!Init /\ Notifier!SlotInit

Next ==
    \/ Bridge!BackendChanges /\ UNCHANGED notifierOnly
    \/ Bridge!BridgeStep(link # "down") /\ UNCHANGED notifierOnly
    \/ Notifier!NotifierStep /\ UNCHANGED bridgeOnly

\* Each publisher keeps polling, the main thread ends what it began, and the
\* notifier's loop goes on; a failed POST is always tried again, and the
\* bound on troubles is the assumption that one of the tries succeeds.
Fairness ==
    /\ \A s \in Sources :
        /\ WF_vars((Bridge!PollState(s) \/ Bridge!PollMetadata(s) \/ Bridge!PollStores(s)
                    \/ Bridge!PollAnnounces(s, link # "down")
                    \/ Bridge!PublisherEnds(s)) /\ UNCHANGED notifierOnly)
        /\ WF_vars((Bridge!Join(s) \/ Bridge!StoreIdle(s)) /\ UNCHANGED notifierOnly)
        /\ WF_vars((Notifier!Flapped(s) \/ Notifier!Send(s) \/ Notifier!RepeatSent(s))
                   /\ UNCHANGED bridgeOnly)
    /\ WF_vars(Bridge!AnnounceIdle(link # "down") /\ UNCHANGED notifierOnly)
    /\ WF_vars(Bridge!Exit /\ UNCHANGED notifierOnly)
    /\ WF_vars((Notifier!Subscribe \/ Notifier!ReadHash \/ Notifier!Receive)
               /\ UNCHANGED bridgeOnly)
    /\ WF_vars(Notifier!Elapse /\ UNCHANGED bridgeOnly)

Spec == Init /\ [][Next]_vars /\ Fairness

-----------------------------------------------------------------------------
\* What the slot will have told HA once it is through.
Latest(s) == IF slots[s].pending # Nothing THEN slots[s].pending ELSE slots[s].sent

\* The hash and the thread's memory of its last write disagree: an HSET whose
\* PUBLISH failed.
HalfWritten(s) == stored[s] = Nothing \/ stored[s].view # pub[s].last

\* Types of both daemons' states.
TypeOK ==
    /\ Bridge!TypeOK
    /\ link \in {"down", "subscribed", "up"}
    /\ ticking \subseteq Sources
    /\ troubles \in 0..MaxTroubles
    /\ \A s \in Sources :
        /\ slots[s].pending \in Bridge!Payloads \cup {Nothing}
        /\ slots[s].due \in 0..(Debounce + IdleDebounce + Retry)
        /\ slots[s].sent \in Bridge!Payloads \cup {Nothing}
        /\ slots[s].playing \in BOOLEAN
        /\ ha[s] \in Bridge!Payloads \cup {Nothing}

\* Whatever was lost on the way, after a reconnect, a restart of either side
\* or a failed POST: once the notifier is connected and has read everything,
\* each slot ends in the view the hash holds, if that view was announced after
\* it was stored (subscribe before HGETALL, HSET before PUBLISH).  A view whose
\* PUBLISH failed, or was overtaken by another writer's, need not arrive.
NothingLost ==
    \A s \in said :
        link = "up" /\ inbox = <<>>
        => Latest(s) # Nothing /\ Latest(s).view = stored[s].view

\* What a slot takes for sent is what HA holds, unless HA forgot it: after a
\* POST of unknown outcome nothing is taken for sent, so that no later payload
\* is dropped as a repetition of what HA may no longer hold.
SentIsHeld ==
    \A s \in Sources : slots[s].sent # Nothing => ha[s] \in {slots[s].sent, Nothing}

\* When everything settles, HA shows what the provider presents, or the bridge
\* is gone.  Left out: half a write that the backend undoes before the next poll; the
\* publisher compares with what it announced last, and does not write it again.
HaFollows ==
    <>[](\A s \in Sources :
            main = "run" /\ ~HalfWritten(s)
            => ha[s] # Nothing /\ ha[s].view = backend[s])

=============================================================================
