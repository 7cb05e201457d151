---------------------------- MODULE Recognizer ----------------------------
(***************************************************************************)
(* The recognizer of one capture (providers/phono_recognize.py in the      *)
(* worker of providers/audio_tap.py).  The read loop looks for gaps and    *)
(* takes the "new track" signal; either starts the policy afresh.  The     *)
(* recognition thread asks Shazam about the newest seconds and, after two  *)
(* attempts in vain, AcoustID about the head of the track; it holds no     *)
(* lock while it asks.  A song is shown once two attempts agree.           *)
(***************************************************************************)
EXTENDS Naturals, Sequences

CONSTANTS
    NoSong,
    MaxInbox    \* bound: messages and log lines on their way

VARIABLES
    music,      \* the song that sounds, NoSong between two
    before,     \* the song that sounded before it
    tap,        \* the worker: policy, read loop and recognition thread
    inbox,      \* redis messages on their way to the bus listener
    link,       \* its subscription: "down", "subscribed" or "up", or "refused" while redis does
                \* not take what the recognizer publishes
    lost,       \* history: the last message of the recognizer was lost
    lines,      \* log lines of the tap on their way to the bus listener
    faults      \* bound: failures of redis and of requests, and dying threads left

wire == <<inbox, link, lost>>

Confirmed(s) == [kind |-> "confirmed", song |-> s]
Cleared == [kind |-> "cleared", song |-> NoSong]

\* _reset: the first attempt comes when the window holds the new track alone.
\* fresh: the attempt under way began in the present generation.
Afresh(t) ==
    [t EXCEPT !.due = "wait", !.candidate = NoSong, !.shown = NoSong, !.misses = 0, !.retry = 0,
              !.acTried = FALSE, !.via = "shazam", !.fresh = FALSE]

NoTap == [on |-> FALSE, key |-> FALSE, at |-> "start", song |-> NoSong, clear |-> FALSE,
          inGap |-> FALSE, mixed |-> FALSE, signal |-> FALSE, signalled |-> FALSE,
          armed |-> FALSE, head |-> NoSong, headFull |-> FALSE, heard |-> {},
          due |-> "wait", candidate |-> NoSong, shown |-> NoSong, misses |-> 0, retry |-> 0,
          acTried |-> FALSE, via |-> "shazam", fresh |-> FALSE]

\* A worker that has just been started, with or without a key for AcoustID and a head to
\* collect; heard: the songs of the present track.
NewTap(key, armed) ==
    [NoTap EXCEPT !.on = TRUE, !.key = key, !.armed = armed, !.head = music, !.heard = {music}]

(* Timing: a message or a log line arrives long before the ten seconds of a window, the     *)
(* twenty of a silence or a song have passed.                                               *)
Calm == inbox = <<>> /\ lines = <<>>

Delivers(message) == Len(inbox) < MaxInbox /\ inbox' = Append(inbox, message)

\* redis_publisher: a message that redis refuses, or that nobody has subscribed to, is gone.
Send(message) ==
    /\ UNCHANGED link
    /\ IF link \in {"refused", "down"}
       THEN lost' = TRUE /\ UNCHANGED inbox
       ELSE lost' = FALSE /\ Delivers(message)

-----------------------------------------------------------------------------
(* The read loop *)

\* new_track, after the head was reset: the publish is left to the other thread.
NewTrack(t) ==
    [Afresh(t) EXCEPT !.clear = @ \/ t.shown # NoSong,
                      !.armed = TRUE, !.mixed = FALSE, !.head = music, !.headFull = FALSE,
                      !.heard = {music}]

Says(line) == Len(lines) < MaxInbox /\ lines' = Append(lines, line)

\* The gap detector: silence for min_gap_s, then sound again.  A gap right after a signalled
\* track is the one before that track.
Gap ==
    /\ tap.on /\ music = NoSong /\ ~tap.inGap
    /\ tap' = [tap EXCEPT !.inGap = TRUE]
    /\ Says("gap")
    /\ UNCHANGED <<music, before, wire, faults>>

Resume ==
    /\ tap.on /\ music # NoSong /\ tap.inGap
    /\ LET t == [tap EXCEPT !.inGap = FALSE] IN
       IF tap.signalled
       THEN tap' = t /\ Says("music")
       ELSE tap' = NewTrack(t) /\ Says("new track")
    /\ UNCHANGED <<music, before, wire, faults>>

\* SIGUSR1, acted upon by the read loop.
Signalled ==
    /\ tap.on /\ tap.signal
    /\ tap' = NewTrack([tap EXCEPT !.signal = FALSE, !.signalled = TRUE])
    /\ Says("new track")
    /\ UNCHANGED <<music, before, wire, faults>>

\* The next attempt falls due, ten seconds or more after the last one or the new track: no
\* signal is recent then.
FallsDue ==
    /\ Calm /\ tap.on /\ tap.due = "wait"
    /\ tap' = [tap EXCEPT !.due = "due", !.signalled = FALSE]
    /\ UNCHANGED <<music, before, wire, lines, faults>>

\* The signal is five seconds old.
SignalAges ==
    /\ Calm /\ tap.on /\ tap.signalled
    /\ tap' = [tap EXCEPT !.signalled = FALSE]
    /\ UNCHANGED <<music, before, wire, lines, faults>>

\* The first two minutes of the track are complete.
HeadFills ==
    /\ Calm /\ tap.on /\ tap.key /\ tap.armed /\ ~tap.headFull /\ tap.head # NoSong
    /\ tap.due # "wait"
    /\ tap' = [tap EXCEPT !.headFull = TRUE]
    /\ UNCHANGED <<music, before, wire, lines, faults>>

ReadLoop == Gap \/ Resume \/ Signalled

-----------------------------------------------------------------------------
(* The recognition thread *)

Thread(step) == tap.on /\ tap.at = step

\* run: first of all, and after every new track, what is shown is cleared.
ClearsFirst ==
    /\ Thread("start")
    /\ tap' = [tap EXCEPT !.at = "idle"]
    /\ Send(Cleared)
    /\ UNCHANGED <<music, before, lines, faults>>

FlushClear ==
    /\ Thread("idle") /\ tap.clear
    /\ tap' = [tap EXCEPT !.clear = FALSE]
    /\ Send(Cleared)
    /\ UNCHANGED <<music, before, lines, faults>>

AcoustidPending == tap.key /\ ~tap.acTried /\ tap.shown = NoSong /\ tap.retry = 2

\* attempt: the window may still hold the end of the song before, if this track began with
\* it; not so the next one.
Asks ==
    /\ Thread("idle") /\ ~tap.clear /\ tap.due = "due"
    /\ \E s \in {music} \union IF tap.mixed THEN {before, NoSong} \cap tap.heard ELSE {} :
          tap' = [tap EXCEPT !.at = "asking", !.song = s, !.fresh = TRUE, !.mixed = FALSE]
    /\ UNCHANGED <<music, before, wire, lines, faults>>

\* The count matters below two, and for AcoustID alone.
Retried(t) == [t EXCEPT !.retry = IF t.key /\ @ < 2 THEN @ + 1 ELSE @]

\* The request fails; what follows is not told from the present generation.
RequestFails ==
    /\ Thread("asking") /\ faults > 0
    /\ faults' = faults - 1
    /\ LET t == [tap EXCEPT !.due = "wait", !.at = "acoustid"] IN
       tap' = IF tap.shown = NoSong THEN Retried(t) ELSE t
    /\ UNCHANGED <<music, before, wire, lines>>

\* An answer about an older generation is dropped here.
Answered ==
    /\ Thread("asking")
    /\ \E match \in BOOLEAN :
          /\ match \/ tap.song = NoSong \/ faults > 0
          /\ faults' = IF match \/ tap.song = NoSong THEN faults ELSE faults - 1
          /\ tap' = IF tap.fresh
                    THEN [tap EXCEPT !.at = "judge", !.song = IF match THEN @ ELSE NoSong]
                    ELSE [tap EXCEPT !.at = "idle"]
    /\ UNCHANGED <<music, before, wire, lines>>

\* on_result, which takes the lock anew: what is shown after the answer, and what is said.
NoMatch ==
    IF tap.via = "acoustid" THEN [tap EXCEPT !.due = "never"]
    ELSE IF tap.shown = NoSong
    THEN Retried([tap EXCEPT !.candidate = NoSong, !.due = "wait"])
    ELSE [tap EXCEPT !.candidate = NoSong, !.due = "wait",
                     !.misses = IF @ < 1 THEN @ + 1 ELSE @,
                     !.shown = IF tap.misses = 1 THEN NoSong ELSE @]

Judge ==
    /\ Thread("judge") /\ tap.song = NoSong
    /\ tap' = [NoMatch EXCEPT !.at = "acoustid"]
    /\ IF tap.shown # NoSong /\ NoMatch.shown = NoSong THEN Send(Cleared) ELSE UNCHANGED wire
    /\ UNCHANGED <<music, before, lines, faults>>

\* Mutant: the first match is believed.
ConfirmAtOnce ==
    /\ Thread("judge") /\ tap.song # NoSong
    /\ tap' = [tap EXCEPT !.at = "idle", !.due = "wait", !.candidate = NoSong,
                          !.shown = tap.song, !.via = "shazam", !.misses = 0, !.retry = 0]
    /\ IF tap.song # tap.shown THEN Send(Confirmed(tap.song)) ELSE UNCHANGED wire
    /\ UNCHANGED <<music, before, lines, faults>>

Confirm ==
    /\ Thread("judge") /\ tap.song # NoSong
    /\ LET t == [tap EXCEPT !.at = "idle", !.due = "wait"] IN
       CASE tap.song = tap.shown ->
              /\ tap' = [t EXCEPT !.misses = 0, !.candidate = NoSong]
              /\ UNCHANGED wire
         [] tap.song # tap.shown /\ tap.song = tap.candidate ->
              /\ tap' = [t EXCEPT !.shown = tap.song, !.candidate = NoSong, !.via = "shazam",
                                  !.misses = 0, !.retry = 0]
              /\ Send(Confirmed(tap.song))
         [] OTHER ->
              /\ tap' = [t EXCEPT !.candidate = tap.song]
              /\ UNCHANGED wire
    /\ UNCHANGED <<music, before, lines, faults>>

\* _try_acoustid: after a miss or when the head is due; it looks, and only then marks.
HeadTurn ==
    /\ Thread("idle") /\ ~tap.clear /\ AcoustidPending /\ tap.due = "wait" /\ tap.headFull
    /\ tap' = [tap EXCEPT !.at = "acoustid", !.fresh = TRUE]
    /\ UNCHANGED <<music, before, wire, lines, faults>>

TryAcoustid ==
    /\ Thread("acoustid")
    /\ tap' = IF AcoustidPending /\ tap.headFull
              THEN [tap EXCEPT !.at = "marking", !.song = tap.head]
              ELSE [tap EXCEPT !.at = "idle", !.song = NoSong]
    /\ UNCHANGED <<music, before, wire, lines, faults>>

MarkTried ==
    /\ Thread("marking")
    /\ tap' = [tap EXCEPT !.at = "identify", !.acTried = TRUE]
    /\ UNCHANGED <<music, before, wire, lines, faults>>

\* Whether AcoustID knows a head that it should know.
Identifies(hit) == hit \/ faults > 0

\* Its answer counts for the generation it was asked for, and only once.
Identified ==
    /\ Thread("identify")
    /\ \E hit \in BOOLEAN :
          /\ Identifies(hit)
          /\ faults' = IF hit THEN faults ELSE faults - 1
          /\ LET t == [tap EXCEPT !.at = "idle", !.song = NoSong] IN
             IF hit /\ tap.fresh /\ tap.shown = NoSong
             THEN /\ tap' = [t EXCEPT !.shown = tap.song, !.via = "acoustid", !.due = "never"]
                  /\ Send(Confirmed(tap.song))
             ELSE tap' = t /\ UNCHANGED wire
    /\ UNCHANGED <<music, before, lines>>

RecognitionThread ==
    \/ ClearsFirst \/ FlushClear \/ Asks \/ RequestFails \/ Answered \/ Judge \/ Confirm
    \/ HeadTurn \/ TryAcoustid \/ MarkTried \/ Identified

================================================================================
