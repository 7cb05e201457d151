---------------------------- MODULE Recognition ----------------------------
(***************************************************************************)
(* The recognition of what the bus carries: the audio master's sources     *)
(* and their songs, the tap with its recognizer, the listener.  A CD       *)
(* player reports track numbers, somewhat before or after the song has     *)
(* changed; a tape does not.  Songs change with or without a gap, sources  *)
(* stop, discs are changed when the drawer was open or in standby.         *)
(***************************************************************************)
EXTENDS Listener, FiniteSets

CONSTANTS
    Discs,      \* the CDs there are
    Scenarios   \* bounds: the changes of song, starts, stops and faults of a behaviour, its
                \* sources, and whether there is a key for AcoustID

\* A song is known by its disc or tape and its number there.
Songs == (Discs \union {"tape"}) \X (1 .. 9)

ASSUME RecognitionAssumption ==
    /\ Sources = {"cd", "tape"} /\ NoSource \notin Discs /\ Discs # {}
    /\ NoSong \notin Songs /\ MaxInbox \in Nat
    /\ Scenarios \subseteq [changes : 0 .. 8, starts : Nat, stops : Nat, faults : Nat,
                            key : BOOLEAN, units : SUBSET Sources]

VARIABLES
    world,  \* what is played, how far, what was reported; and the budget left
    am      \* state:ml, what the state tracker reported last

vars == <<music, before, tap, wire, lines, faults, bl, lookups, world, am>>

\* The discs are alike, so the first one may be any.
Silent(s) ==
    [unit |-> NoSource, disc |-> CHOOSE d \in Discs : TRUE, n |-> 0, told |-> 0, open |-> FALSE,
     changes |-> s.changes, starts |-> s.starts, stops |-> s.stops, key |-> s.key,
     units |-> s.units]

\* A state of the audio master as the state tracker reports it.
Am(src, track, playing, gone) ==
    [kind |-> "am", src |-> src, track |-> track, playing |-> playing, gone |-> gone]

Init ==
    /\ \E s \in Scenarios : faults = s.faults /\ world = Silent(s)
    /\ music = NoSong /\ before = NoSong
    /\ tap = NoTap
    /\ inbox = <<>> /\ lines = <<>> /\ link = "up" /\ lost = FALSE
    /\ am = Am(NoSource, 0, FALSE, FALSE)
    /\ bl = Asleep
    /\ lookups = {}

\* It stores the state and publishes it.
Reports(state) ==
    /\ am' = state
    /\ IF link = "down" THEN UNCHANGED inbox ELSE Delivers(state)
    /\ UNCHANGED <<link, lost>>

SongOf(w) == <<IF w.unit = "cd" THEN w.disc ELSE w.unit, w.n>>

\* A song begins: the recognizer's window still holds what sounded before.
Sounds(w) ==
    /\ music' = SongOf(w)
    /\ before' = IF music # NoSong THEN music ELSE before
    /\ tap' = IF ~tap.on THEN tap
              ELSE [tap EXCEPT !.mixed = TRUE, !.heard = @ \union {SongOf(w)},
                               !.head = IF @ = NoSong THEN SongOf(w) ELSE @]

\* A source starts, also while another one plays; the number may come later.
Starts(u) ==
    /\ Calm /\ world.starts > 0 /\ world.unit # u /\ u \in world.units
    /\ \E d \in IF u = "cd" /\ world.open THEN Discs ELSE {world.disc},
          told \in IF u = "cd" THEN {0, 1} ELSE {0} :
          LET w == [world EXCEPT !.unit = u, !.disc = d, !.n = 1, !.told = told,
                                 !.starts = @ - 1, !.open = IF u = "cd" THEN FALSE ELSE @]
          IN  /\ world' = w
              /\ Sounds(w)
              /\ Reports(Am(u, told, TRUE, FALSE))
    /\ UNCHANGED <<lines, faults, bl, lookups>>

\* The song ends; a CD player counts on at once, the next song follows after a pause.
SongEnds ==
    /\ Calm /\ world.changes > 0 /\ music # NoSong
    /\ world' = [world EXCEPT !.changes = @ - 1, !.n = @ + 1]
    /\ music' = NoSong /\ before' = music
    /\ UNCHANGED <<tap, wire, lines, faults, bl, lookups, am>>

NextSong ==
    /\ world.unit # NoSource /\ music = NoSong
    /\ Sounds(world)
    /\ UNCHANGED <<world, wire, lines, faults, bl, lookups, am>>

\* The next song follows without a gap.
Segue ==
    /\ Calm /\ world.changes > 0 /\ music # NoSong
    /\ LET w == [world EXCEPT !.changes = @ - 1, !.n = @ + 1] IN
       world' = w /\ Sounds(w)
    /\ UNCHANGED <<wire, lines, faults, bl, lookups, am>>

ReportsNumber ==
    /\ world.unit = "cd" /\ world.told # world.n
    /\ world' = [world EXCEPT !.told = @ + 1]
    /\ Reports(Am("cd", world'.told, TRUE, FALSE))
    /\ UNCHANGED <<music, before, tap, lines, faults, bl, lookups>>

\* The source stops; the disc may be another one after standby or an open drawer.
Stops ==
    /\ Calm /\ world.stops > 0 /\ world.unit # NoSource
    /\ \E how \in {"stop", "standby", "drawer"} :
          /\ how = "drawer" => world.unit = "cd"
          /\ world' = [world EXCEPT !.unit = NoSource, !.stops = @ - 1, !.told = 0,
                                    !.open = @ \/ how # "stop"]
          /\ Reports(Am(IF how = "standby" THEN NoSource ELSE world.unit, 0, FALSE, how = "drawer"))
    /\ music' = NoSong
    /\ before' = IF music # NoSong THEN music ELSE before
    /\ UNCHANGED <<tap, lines, faults, bl, lookups>>

Environment ==
    \/ \E u \in Sources : Starts(u)
    \/ SongEnds \/ NextSong \/ Segue \/ ReportsNumber \/ Stops

(* Timing: the wait for an album is over before the next ten seconds are.                   *)
NextWindow == ~bl.pending /\ Cardinality(lookups) <= 1 /\ FallsDue

Tap == ReadLoop \/ NextWindow \/ SignalAges \/ HeadFills \/ RecognitionThread

Next ==
    \/ Environment
    \/ Tap /\ UNCHANGED <<bl, lookups, world, am>>
    \/ /\ \/ Receives(world.key) \/ ConnectionLost \/ Subscribes \/ ReadsState(am, world.key)
          \/ CheckSilence \/ PumpStderr \/ LookupDone \/ LookupDies \/ AlbumTimeout
          \/ Refuses \/ Recovers
       /\ UNCHANGED <<world, am>>

(* Songs that are due begin and numbers are reported; threads run; Shazam and MusicBrainz   *)
(* answer or fail; redis takes what it refused, and a lost subscription is renewed.  A      *)
(* source need not stop, a song need not end.                                               *)
Fairness ==
    /\ WF_vars(NextSong) /\ WF_vars(ReportsNumber)
    /\ WF_vars(ReadLoop /\ UNCHANGED <<bl, lookups, world, am>>)
    /\ WF_vars(NextWindow /\ UNCHANGED <<bl, lookups, world, am>>)
    /\ WF_vars(RecognitionThread /\ UNCHANGED <<bl, lookups, world, am>>)
    /\ WF_vars(Receives(world.key) /\ UNCHANGED <<world, am>>)
    /\ WF_vars((Subscribes \/ ReadsState(am, world.key)) /\ UNCHANGED <<world, am>>)
    /\ WF_vars(Recovers /\ UNCHANGED <<world, am>>)
    /\ WF_vars(PumpStderr /\ UNCHANGED <<world, am>>)
    /\ WF_vars(LookupDone /\ UNCHANGED <<world, am>>)
    /\ WF_vars(AlbumTimeout /\ UNCHANGED <<world, am>>)

Spec == Init /\ [][Next]_vars /\ Fairness

-----------------------------------------------------------------------------
(* Properties *)

Song == Songs \union {NoSong}
Recog == [song : Song, kind : {"none", "heard", "predicted", "placeholder"},
          album : {"none", "shazam", "original"}]

(* Type invariant of the listener and of the recognizer's policy. *)
TypeOK ==
    /\ music \in Song /\ before \in Song
    /\ bl.src \in Sources \union {NoSource} /\ bl.track \in 0 .. 9
    /\ bl.recog \in Recog /\ {bl.pending, bl.silent, bl.silentSince} \subseteq BOOLEAN
    /\ bl.disc \in [unit : Discs \union {"tape", "none"}, source : Sources \union {NoSource}]
    /\ bl.out \in [Sources -> [state : {"idle", "playing"}, song : Song, track : 0 .. 9,
                               album : {"none", "shazam", "original"}]]
    /\ bl.refused \subseteq Sources /\ bl.stale \subseteq Sources
    /\ link \in {"down", "subscribed", "up", "refused"} /\ lost \in BOOLEAN
    /\ tap.on <=> bl.src # NoSource
    /\ tap.due \in {"wait", "due", "never"} /\ {tap.candidate, tap.shown, tap.song} \subseteq Song
    /\ bl.pending => bl.recog.kind = "heard"
    /\ lookups \subseteq [song : Song, track : 0 .. 9]

(* The hash shows what the listener believes, of every source whose last write redis took   *)
(* (ml_listen.py: every path that changes the title, the album, the number or the silence   *)
(* ends in _write, except while an album is awaited; _write does not repeat a failed one).  *)
ShownIsCurrent ==
    \A s \in Sources \ bl.stale :
       IF s = bl.src
       THEN ~bl.pending => bl.out[s] = IF bl.silent THEN Idle ELSE Blob(bl)
       ELSE bl.out[s] = Idle

(* A song the recognizer shows was heard since the present track began                      *)
(* (phono_recognize.py:250: an attempt that began before is dropped; the one that slips     *)
(* past that check, which is not under the lock of on_result, needs a second match).        *)
OfThisTrack == tap.shown # NoSong => tap.shown \in tap.heard

Title == bl.out[bl.src].song

(* In the end the title of the song that plays is shown, whatever came late, was predicted  *)
(* wrongly or was lost on the way (ml_listen.py:398: with the recognizer's own resets, the  *)
(* signal of a new number and the state read after a reconnect), unless the last thing that *)
(* was to be shown was itself lost: the recognizer's last message, or the listener's last   *)
(* write.  An AcoustID title stays for the whole track.                                     *)
RightInTheEnd ==
    <>[](music # NoSong =>
           /\ bl.src = world.unit
           /\ \/ Title = music
              \/ tap.via = "acoustid" /\ Title \in tap.heard
              \/ lost \/ bl.src \in bl.stale)

================================================================================
