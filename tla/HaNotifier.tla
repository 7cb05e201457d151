----------------------------- MODULE HaNotifier -----------------------------
(***************************************************************************)
(* ha-notifier (ha-notifier/ha_notifier.py): forwards the now-playing      *)
(* payloads of redis to Home Assistant (HA), one thread, one Slot per      *)
(* source.  A payload waits in its slot for a debounce time, is sent by a  *)
(* POST and, when the POST fails, is sent again later; what HA has is      *)
(* repeated as a keepalive.  Time is not counted: a slot's due time is the *)
(* number of clock steps it still has to wait.                             *)
(***************************************************************************)
EXTENDS Naturals, Sequences

CONSTANTS
    Sources, Nothing,
    Debounce,      \* debounce_ms, in clock steps
    IdleDebounce,  \* idle_debounce_ms
    Retry,         \* retry_s
    Keepalive,     \* keepalive_s > 0
    MaxTroubles    \* bound: failed POSTs, lost connections and restarts

VARIABLES
    stored,     \* redis hash state:nowplaying
    inbox,      \* this subscriber's unread changes
    link,       \* "down", "subscribed" (the hash is not read yet) or "up"
    slots,      \* Notifier.slots
    ticking,    \* sources whose slot tick() has still to send
    troubles,   \* bound: troubles so far
    ha          \* what HA holds of each source, as accepted last

vars == <<stored, inbox, link, slots, ticking, troubles, ha>>

Fresh == [pending |-> Nothing, due |-> 0, sent |-> Nothing, playing |-> FALSE]

SlotInit ==
    /\ link = "down"
    /\ slots = [s \in Sources |-> Fresh]
    /\ ticking = {}
    /\ troubles = 0
    /\ ha = [s \in Sources |-> Nothing]

MaxOf(a, b) == IF a > b THEN a ELSE b

Trouble ==
    /\ troubles < MaxTroubles
    /\ troubles' = troubles + 1

NoTrouble == UNCHANGED troubles

-----------------------------------------------------------------------------
\* Notifier.offer: the latest payload waits, whatever waited there before.
Delay(slot, payload, immediate) ==
    IF immediate THEN 0
    ELSE IF slot.playing /\ payload.view.state # "playing"
    THEN MaxOf(Debounce, IdleDebounce)
    ELSE Debounce

Offer(slot, payload, immediate) ==
    [slot EXCEPT !.pending = payload,
                 !.due = Delay(slot, payload, immediate),
                 !.playing = payload.view.state = "playing"]

\* run(): subscribe first ...
Subscribe ==
    /\ link = "down"
    /\ link' = "subscribed"
    /\ inbox' = <<>>
    /\ UNCHANGED <<stored, slots, ticking, troubles, ha>>

\* ... then read the hash, so that a change in between is in both.
ReadHash ==
    /\ link = "subscribed"
    /\ link' = "up"
    /\ slots' = [s \in Sources |->
                   IF stored[s] = Nothing THEN slots[s] ELSE Offer(slots[s], stored[s], TRUE)]
    /\ UNCHANGED <<stored, inbox, ticking, troubles, ha>>

Due(slot) == slot.pending # Nothing /\ slot.due = 0

\* Mutants: the keepalive does not look at what is waiting; it only repeats
\* what is playing.
RepeatableAnytime(slot) == Keepalive /\ slot.sent # Nothing
RepeatablePlaying(slot) ==
    Keepalive /\ slot.pending = Nothing /\ slot.sent # Nothing /\ slot.playing

Repeatable(slot) == Keepalive /\ slot.pending = Nothing /\ slot.sent # Nothing

\* The loop: one message, or none for 0.2 s, and then a pass over the slots:
\* those that are due, and those whose keepalive_s may have passed, or not.
Receive ==
    /\ link = "up"
    /\ ticking = {}
    /\ IF inbox = <<>>
       THEN UNCHANGED <<inbox, slots>>
       ELSE LET m == Head(inbox) IN
            /\ inbox' = Tail(inbox)
            /\ slots' = [slots EXCEPT ![m.src] = Offer(@, m, FALSE)]
    /\ \E repeated \in SUBSET {s \in Sources : Repeatable(slots'[s])} :
        ticking' = repeated \cup {s \in Sources : Due(slots'[s])}
    /\ UNCHANGED <<stored, link, troubles, ha>>

\* tick(): a payload HA has already is dropped.
Flapped(s) ==
    /\ s \in ticking
    /\ Due(slots[s])
    /\ slots[s].pending = slots[s].sent
    /\ slots' = [slots EXCEPT ![s].pending = Nothing]
    /\ ticking' = ticking \ {s}
    /\ UNCHANGED <<stored, inbox, link, troubles, ha>>

\* Mutant: a failed POST leaves `sent` alone.
PostedKeepsSent(s, payload) ==
    /\ ticking' = ticking \ {s}
    /\ \/ /\ slots' = [slots EXCEPT ![s].pending = Nothing, ![s].sent = payload]
          /\ ha' = [ha EXCEPT ![s] = payload]
          /\ NoTrouble
       \/ /\ slots' = [slots EXCEPT ![s].pending = payload, ![s].due = Retry]
          /\ ha' \in {ha, [ha EXCEPT ![s] = payload]}
          /\ Trouble
    /\ UNCHANGED <<stored, inbox, link>>

\* _send: HA accepts the payload; or the POST fails, before or after HA took
\* it, and the payload waits for the retry.
Posted(s, payload) ==
    /\ ticking' = ticking \ {s}
    /\ \/ /\ slots' = [slots EXCEPT ![s].pending = Nothing, ![s].sent = payload]
          /\ ha' = [ha EXCEPT ![s] = payload]
          /\ NoTrouble
       \/ /\ slots' = [slots EXCEPT ![s].pending = payload, ![s].due = Retry,
                                    ![s].sent = Nothing]
          /\ ha' \in {ha, [ha EXCEPT ![s] = payload]}
          /\ Trouble
    /\ UNCHANGED <<stored, inbox, link>>

Send(s) ==
    /\ s \in ticking
    /\ Due(slots[s])
    /\ slots[s].pending # slots[s].sent
    /\ Posted(s, slots[s].pending)

RepeatSent(s) ==
    /\ s \in ticking
    /\ Repeatable(slots[s])
    /\ Posted(s, slots[s].sent)

\* A redis error anywhere in the loop: the connection is replaced, the slots
\* stay, and what was published meanwhile or waited unread is gone.
Disconnect ==
    /\ link # "down"
    /\ ticking = {}
    /\ Trouble
    /\ link' = "down"
    /\ inbox' = <<>>
    /\ UNCHANGED <<stored, slots, ticking, ha>>

\* restart_listener, or a crash: every slot is forgotten.
Restart ==
    /\ Trouble
    /\ link' = "down"
    /\ inbox' = <<>>
    /\ slots' = [s \in Sources |-> Fresh]
    /\ ticking' = {}
    /\ UNCHANGED <<stored, ha>>

-----------------------------------------------------------------------------
(* Time, and Home Assistant.                                               *)

\* Mutant: counts past zero.
ElapseTooFar ==
    /\ \E s \in Sources : slots[s].due > 0
    /\ slots' = [s \in Sources |->
                   IF slots[s].due > 0 THEN [slots[s] EXCEPT !.due = @ - 2] ELSE slots[s]]
    /\ UNCHANGED <<stored, inbox, link, ticking, troubles, ha>>

Elapse ==
    /\ \E s \in Sources : slots[s].due > 0
    /\ slots' = [s \in Sources |->
                   IF slots[s].due > 0 THEN [slots[s] EXCEPT !.due = @ - 1] ELSE slots[s]]
    /\ UNCHANGED <<stored, inbox, link, ticking, troubles, ha>>

\* HA restarts and remembers nothing.
HaForgets ==
    /\ Trouble
    /\ ha' = [s \in Sources |-> Nothing]
    /\ UNCHANGED <<stored, inbox, link, slots, ticking>>

NotifierStep ==
    \/ Subscribe \/ ReadHash \/ Receive
    \/ \E s \in Sources : Flapped(s) \/ Send(s) \/ RepeatSent(s)
    \/ Disconnect \/ Restart \/ Elapse \/ HaForgets

=============================================================================
