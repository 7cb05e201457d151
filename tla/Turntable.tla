---------------------------- MODULE Turntable ----------------------------
(***************************************************************************)
(* The record player behind the bridge (providers/turntable.py).  The      *)
(* thread of the bus plays and pauses; a thread of its own follows the     *)
(* deck's status and the results of the music recognition, which come on   *)
(* one redis connection.  The deck has buttons of its own, may report      *)
(* "playing" while it coasts after a stop, and answers late.  (The ADC and *)
(* the hand-over of the loopback are in AdcSharing.)                       *)
(***************************************************************************)
EXTENDS Naturals, Sequences

CONSTANTS
    MaxRx,      \* bound: messages on their way to the snoop thread
    MaxSessions \* bound: loopbacks started

ASSUME TurntableAssumption == {MaxRx, MaxSessions} \subseteq Nat

VARIABLES
    deck,       \* the platter: "rest" or "spinning"
    rx,         \* statuses and recognitions on their way
    playing,    \* _playing
    fresh,      \* less than _PLAY_GRACE_S since play()
    grace,      \* before _grace_until
    sent,       \* _last_sent: opcodes that went out less than _TRANSPORT_DEBOUNCE_S ago
    proc,       \* _proc: the number of the loopback that runs, 0 for none
    started,    \* loopbacks started so far
    begun,      \* the recognizer of the last of them has begun
    title,      \* _recognized: the loopback whose recognizer found it, 0 for none
    heard,      \* the title the snoop thread has checked and not written yet
    bus, snoop, \* where the two threads are
    hidden,     \* history: the deck's last word was taken for coasting, or came in
                \* the middle of a command of ours
    mute,       \* history: the first message of the last recognizer was refused, and
                \* it found nothing yet
    presses, errors  \* bounds: operations of people and of the bus, failures left

loopVars == <<proc, started, begun, mute>>
deckVars == <<deck, rx, playing, fresh, grace, sent, loopVars, title, heard, bus, snoop, hidden,
              presses, errors>>

Status(s) == [kind |-> "status", of |-> s]
Confirmed(n) == [kind |-> "confirmed", of |-> n]
Cleared == [kind |-> "cleared", of |-> 0]

\* The loopbacks whose recognizer has begun.
Known == IF begun \/ started = 0 THEN started ELSE started - 1

TurntableTypeOK ==
    /\ deck \in {"rest", "spinning"}
    /\ {playing, fresh, grace, begun, hidden, mute} \subseteq BOOLEAN
    /\ sent \subseteq {"play", "stop"}
    /\ proc \in 0..started
    /\ title \in 0..Known
    /\ heard \in 0..Known
    /\ bus \in {"idle", "audio", "check", "send", "sent", "take", "clear",
                "standby", "parked", "parting"}
    /\ snoop \in {"idle", "follow", "found", "take", "clear"}
    /\ Len(rx) <= MaxRx

TurntableInit ==
    /\ deck = "rest"
    /\ rx = <<>>
    /\ playing = FALSE
    /\ fresh = FALSE
    /\ grace = FALSE
    /\ sent = {}
    /\ proc = 0
    /\ started = 0
    /\ begun = FALSE
    /\ title = 0
    /\ heard = 0
    /\ bus = "idle"
    /\ snoop = "idle"
    /\ hidden = FALSE
    /\ mute = FALSE

-----------------------------------------------------------------------------
(* The deck *)

\* What the deck does with an opcode, and what it reports: stopping, it may coast.
Turns(to, reports) ==
    /\ Len(rx) < MaxRx
    /\ deck' = to
    /\ rx' = Append(rx, Status(reports))

DeckPlays == IF deck = "spinning" THEN UNCHANGED <<deck, rx>> ELSE Turns("spinning", "playing")
DeckStops == IF deck = "rest" THEN UNCHANGED <<deck, rx>>
             ELSE Turns("rest", "stopped") \/ Turns("rest", "playing")

\* Its own buttons, and the end of a side.
ButtonPlay ==
    /\ presses > 0
    /\ presses' = presses - 1
    /\ deck = "rest"
    /\ Turns("spinning", "playing")
    /\ UNCHANGED <<playing, fresh, grace, sent, loopVars, title, heard, bus, snoop, hidden,
                   errors>>

ButtonStop ==
    /\ presses > 0
    /\ presses' = presses - 1
    /\ deck = "spinning"
    /\ Turns("rest", "stopped")
    /\ UNCHANGED <<playing, fresh, grace, sent, loopVars, title, heard, bus, snoop, hidden,
                   errors>>

-----------------------------------------------------------------------------
(* play *)

Play80 ==
    /\ presses > 0
    /\ presses' = presses - 1
    /\ bus = "idle"
    /\ fresh' = TRUE
    /\ bus' = "audio"
    /\ UNCHANGED <<deck, rx, playing, grace, sent, loopVars, title, heard, snoop, hidden, errors>>

\* _start_audio, under the lock.
StartAudio ==
    /\ bus = "audio"
    /\ bus' = "check"
    /\ IF proc # 0
       THEN UNCHANGED <<loopVars, title>>
       ELSE /\ started < MaxSessions
            /\ started' = started + 1
            /\ proc' = started + 1
            /\ begun' = FALSE
            /\ mute' = FALSE
            /\ title' = 0
    /\ UNCHANGED <<deck, rx, playing, fresh, grace, sent, heard, snoop, hidden, presses, errors>>

\* A deck that plays already is not cued again.
ChecksDeck ==
    /\ bus = "check"
    /\ bus' = IF playing THEN "idle" ELSE "send"
    /\ UNCHANGED <<deck, rx, playing, fresh, grace, sent, loopVars, title, heard, snoop, hidden,
                   presses, errors>>

\* _send: an opcode that went out just now does not go out again; redis may refuse it.
Send(op, done) ==
    /\ \/ op \in sent /\ bus' = "idle" /\ UNCHANGED <<sent, errors, deck, rx, hidden>>
       \/ /\ op \notin sent
          /\ sent' = sent \union {op}
          /\ \/ /\ IF op = "play" THEN DeckPlays ELSE DeckStops
                /\ bus' = done
                /\ hidden' = FALSE
                /\ UNCHANGED errors
             \/ /\ errors > 0
                /\ errors' = errors - 1
                /\ bus' = "idle"
                /\ UNCHANGED <<deck, rx, hidden>>
    /\ UNCHANGED <<playing, fresh, grace, loopVars, title, heard, snoop, presses>>

SendPlay == bus = "send" /\ Send("play", "sent")

\* The belief follows the command, without a lock.
Believes(from, now, to) ==
    /\ bus = from
    /\ bus' = to
    /\ playing' = now
    /\ UNCHANGED <<deck, rx, fresh, grace, sent, loopVars, title, heard, snoop, hidden, presses,
                   errors>>

BelievesPlaying == Believes("sent", TRUE, "idle")

-----------------------------------------------------------------------------
(* pause *)

\* Right after a play it is taken for the end of the session before.
Pause80 ==
    /\ presses > 0
    /\ presses' = presses - 1
    /\ bus = "idle"
    /\ bus' = IF fresh THEN "idle" ELSE "take"
    /\ UNCHANGED <<deck, rx, playing, fresh, grace, sent, loopVars, title, heard, snoop, hidden,
                   errors>>

\* _stop_audio of either thread: it takes the loopback under the lock, kills it, and then
\* forgets the title.
TakeAudio(pc, after) ==
    /\ proc' = 0
    /\ pc' = IF proc = 0 THEN after ELSE "clear"
    /\ UNCHANGED title

ClearTitle(pc, after) == title' = 0 /\ pc' = after /\ UNCHANGED proc

BusStops ==
    /\ \/ bus = "take" /\ TakeAudio(bus, "standby")
       \/ bus = "clear" /\ ClearTitle(bus, "standby")
    /\ UNCHANGED <<deck, rx, playing, fresh, grace, sent, started, begun, mute, heard, snoop,
                   hidden, presses, errors>>

SendStandby == bus = "standby" /\ Send("stop", "parked")

BelievesStopped == Believes("parked", FALSE, "parting")

\* Mutant: no grace for the echoes of a deck that coasts.
NoGrace ==
    /\ bus = "parting"
    /\ bus' = "idle"
    /\ UNCHANGED <<deck, rx, playing, fresh, grace, sent, loopVars, title, heard, snoop, hidden,
                   presses, errors>>

GraceBegins ==
    /\ bus = "parting"
    /\ bus' = "idle"
    /\ grace' = TRUE
    /\ UNCHANGED <<deck, rx, playing, fresh, sent, loopVars, title, heard, snoop, hidden,
                   presses, errors>>

-----------------------------------------------------------------------------
(* _snoop *)

Received(kind) == snoop = "idle" /\ rx # <<>> /\ Head(rx).kind = kind /\ rx' = Tail(rx)

\* The deck plays, the belief is or will be that it does not, and its word is ignored.
Ignored == deck = "spinning" /\ (bus = "parked" \/ (~playing /\ bus # "sent"))

\* A deck that plays is followed, but not right after our own stop.
SnoopStatus ==
    /\ Received("status")
    /\ IF Head(rx).of = "playing"
       THEN /\ snoop' = IF grace THEN "idle" ELSE "follow"
            /\ hidden' = (hidden \/ (grace /\ Ignored))
            /\ UNCHANGED playing
       ELSE /\ snoop' = "take"
            /\ hidden' = (bus = "sent")
            /\ playing' = FALSE
    /\ UNCHANGED <<deck, fresh, grace, sent, loopVars, title, heard, bus, presses, errors>>

\* By now a stop of ours may be under way, or over.
SnoopFollows ==
    /\ snoop = "follow"
    /\ snoop' = "idle"
    /\ playing' = TRUE
    /\ hidden' = (grace \/ bus \in {"parked", "parting"})
    /\ UNCHANGED <<deck, rx, fresh, grace, sent, loopVars, title, heard, bus, presses, errors>>

SnoopStops ==
    /\ \/ snoop = "take" /\ TakeAudio(snoop, "idle")
       \/ snoop = "clear" /\ ClearTitle(snoop, "idle")
    /\ UNCHANGED <<deck, rx, playing, fresh, grace, sent, started, begun, mute, heard, bus,
                   hidden, presses, errors>>

\* Mutant: every result is taken for one of the loopback that runs.
TakenForNow ==
    /\ Received("confirmed") \/ Received("cleared")
    /\ IF proc = 0
       THEN UNCHANGED <<snoop, heard>>
       ELSE /\ snoop' = "found"
            /\ heard' = IF Head(rx).kind = "confirmed" THEN proc ELSE 0
    /\ UNCHANGED <<deck, playing, fresh, grace, sent, loopVars, title, bus, hidden, presses,
                   errors>>

\* _on_recognized: only while the loopback runs ...
OnRecognized ==
    /\ Received("confirmed") \/ Received("cleared")
    /\ IF proc = 0
       THEN UNCHANGED <<snoop, heard>>
       ELSE snoop' = "found" /\ heard' = Head(rx).of
    /\ UNCHANGED <<deck, playing, fresh, grace, sent, loopVars, title, bus, hidden, presses,
                   errors>>

\* ... or ran when the thread looked.
SnoopRecognizes ==
    /\ snoop = "found"
    /\ snoop' = "idle"
    /\ title' = heard
    /\ heard' = 0
    /\ UNCHANGED <<deck, rx, playing, fresh, grace, sent, loopVars, bus, hidden, presses, errors>>

-----------------------------------------------------------------------------
(* The recognizer of the loopback that runs, a process of its own. *)

\* Mutant: it says nothing at first.
BeginsSilent ==
    /\ proc # 0 /\ ~begun
    /\ begun' = TRUE
    /\ UNCHANGED <<deck, rx, playing, fresh, grace, sent, proc, started, mute, title, heard, bus,
                   snoop, hidden, presses, errors>>

\* It first says that it knows nothing; redis may refuse that, and nobody repeats it.
Begins ==
    /\ proc # 0 /\ ~begun
    /\ begun' = TRUE
    /\ \/ /\ Len(rx) < MaxRx
          /\ rx' = Append(rx, Cleared)
          /\ UNCHANGED <<mute, errors>>
       \/ /\ errors > 0
          /\ errors' = errors - 1
          /\ mute' = TRUE
          /\ UNCHANGED rx
    /\ UNCHANGED <<deck, playing, fresh, grace, sent, proc, started, title, heard, bus, snoop,
                   hidden, presses>>

\* It has found the title.
Identifies ==
    /\ presses > 0
    /\ presses' = presses - 1
    /\ proc # 0 /\ begun
    /\ Len(rx) < MaxRx
    /\ rx' = Append(rx, Confirmed(proc))
    /\ mute' = FALSE
    /\ UNCHANGED <<deck, playing, fresh, grace, sent, proc, started, begun, title, heard, bus,
                   snoop, hidden, errors>>

-----------------------------------------------------------------------------
(* Time: an echo of the deck is here well before the grace is over. *)

Pending(s) == \E i \in DOMAIN rx : rx[i] = Status(s)

TimePasses ==
    /\ \/ sent # {} /\ sent' = {} /\ UNCHANGED <<fresh, grace>>
       \/ fresh /\ fresh' = FALSE /\ UNCHANGED <<sent, grace>>
       \/ /\ grace /\ ~Pending("playing") /\ snoop # "follow"
          /\ grace' = FALSE /\ UNCHANGED <<sent, fresh>>
    /\ UNCHANGED <<deck, rx, playing, loopVars, title, heard, bus, snoop, hidden, presses, errors>>

BusThread ==
    \/ StartAudio \/ ChecksDeck \/ SendPlay \/ BelievesPlaying
    \/ BusStops \/ SendStandby \/ BelievesStopped \/ GraceBegins
SnoopThread == SnoopStatus \/ SnoopFollows \/ SnoopStops \/ OnRecognized \/ SnoopRecognizes
People == ButtonPlay \/ ButtonStop \/ Play80 \/ Pause80 \/ Identifies

TurntableNext == BusThread \/ SnoopThread \/ Begins \/ People \/ TimePasses

TurntableFairness ==
    /\ WF_deckVars(BusThread)
    /\ WF_deckVars(SnoopThread)
    /\ WF_deckVars(Begins)
    /\ WF_deckVars(TimePasses)

-----------------------------------------------------------------------------
(* What the bridge believes of the deck is true again once everything has  *)
(* been reported, whatever was pressed, commanded, refused and coasting,   *)
(* unless the last thing the deck said fell into the grace after our own   *)
(* stop, or between a command of ours and the belief that follows it.      *)
FollowsDeck == <>[](hidden \/ playing = (deck = "spinning"))

(* A session never keeps the title of the record before: a recognition     *)
(* that was still on its way when the loopback went down is replaced, by   *)
(* the first message of the new recognizer if redis takes it, or by the    *)
(* first title it finds.                                                   *)
TitleOfThisSession == <>[](proc = 0 \/ title \in {0, proc} \/ mute)

================================================================================
