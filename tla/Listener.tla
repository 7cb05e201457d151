------------------------------ MODULE Listener ------------------------------
(***************************************************************************)
(* The results of the bus listener (core/ml_listen.py): what it shows of   *)
(* the source it listens to.  A title comes from the recognizer, or from   *)
(* the track list of a disc it has identified; a new title waits for its   *)
(* album until MusicBrainz answers or six seconds have passed.  The        *)
(* messages of the state tracker and of the tap come in one subscription;  *)
(* the tap's log lines, the answers of MusicBrainz and the timer come on   *)
(* threads of their own.  Every handler runs under the listener's lock.    *)
(***************************************************************************)
EXTENDS Recognizer

CONSTANT Sources

VARIABLES
    bl,         \* the listener: what it believes; the hash as it stands, the fields redis does
                \* not take now, and (history) those whose last write it did not take
    lookups     \* requests to MusicBrainz under way: [song, track]

NoSource == "none"
NoTrack == 0

Nothing == [song |-> NoSong, kind |-> "none", album |-> "none"]
NoDisc == [unit |-> "none", source |-> NoSource]
Idle == [state |-> "idle", song |-> NoSong, album |-> "none", track |-> NoTrack]

Asleep == [src |-> NoSource, track |-> NoTrack, recog |-> Nothing, pending |-> FALSE,
           silentSince |-> FALSE, silent |-> FALSE, disc |-> NoDisc,
           out |-> [s \in Sources |-> Idle], refused |-> {}, stale |-> {}]

\* _blob: a title whose album is awaited is not shown yet.
Blob(b) ==
    LET rec == IF b.pending THEN Nothing ELSE b.recog IN
    [state |-> "playing", song |-> rec.song, album |-> rec.album, track |-> b.track]

\* _write: what redis does not take is logged and not repeated.
Write(b, s, shown) ==
    IF s \in b.refused
    THEN [b EXCEPT !.stale = @ \union {s}]
    ELSE [b EXCEPT !.out[s] = shown, !.stale = @ \ {s}]

Publish(b) == IF b.src # NoSource /\ ~b.silent THEN Write(b, b.src, Blob(b)) ELSE b

Predict(b) ==
    IF /\ b.disc # NoDisc /\ b.disc.source = b.src
       /\ b.recog = Nothing /\ b.track # NoTrack
    THEN [b EXCEPT !.recog = [song |-> <<b.disc.unit, b.track>>, kind |-> "predicted",
                              album |-> "original"]]
    ELSE b

-----------------------------------------------------------------------------
(* _evaluate: a state of the audio master [src, track, playing, gone] *)

Forget(b, m) ==
    IF m.src = NoSource \/ (m.gone /\ m.src = b.disc.source)
    THEN [b EXCEPT !.disc = NoDisc] ELSE b

StopCapture(b) ==
    IF b.src = NoSource THEN b
    ELSE [Write(b, b.src, Idle) EXCEPT
             !.src = NoSource, !.track = NoTrack, !.recog = Nothing, !.pending = FALSE,
             !.silentSince = FALSE, !.silent = FALSE]

StartCapture(b, m) ==
    Publish(Predict([b EXCEPT !.src = m.src, !.track = m.track, !.recog = Nothing,
                              !.pending = FALSE, !.silentSince = FALSE, !.silent = FALSE]))

\* _check_silence, twenty seconds after the gap began.
Silenced(b) == [Write(b, b.src, Idle) EXCEPT !.silent = TRUE]

NewNumber(b, m) == m.track # NoTrack /\ m.track # b.track

\* The album is kept on display until the new title is known.
Placeholder(b, prev) ==
    IF b.recog = Nothing /\ prev.album # "none"
    THEN [b EXCEPT !.recog = [prev EXCEPT !.song = NoSong, !.kind = "placeholder"]]
    ELSE b

\* Mutant: the wait for the old title's album goes on.
TrackChangePending(b, m) ==
    LET first == b.track = NoTrack
        known == [b EXCEPT !.track = m.track]
        blank == [known EXCEPT !.recog = Nothing]
    IN  Publish(IF first THEN Predict(known) ELSE Placeholder(Predict(blank), b.recog))

TrackChange(b, m) ==
    LET first == b.track = NoTrack
        known == [b EXCEPT !.track = m.track]
        blank == [known EXCEPT !.recog = Nothing, !.pending = FALSE]
    IN  Publish(IF first THEN Predict(known) ELSE Placeholder(Predict(blank), b.recog))

\* Mutant: a new number shows a new title and leaves the recognizer alone.
EvaluateUnsignalled(m, key) ==
    LET forgot == Forget(bl, m)
        b == IF ~m.playing \/ forgot.src # m.src THEN StopCapture(forgot) ELSE forgot
    IN  IF ~m.playing
        THEN bl' = b /\ tap' = NoTap /\ lines' = <<>>
        ELSE IF b.src = NoSource
        THEN /\ bl' = StartCapture(b, m)
             /\ \E armed \in {key, FALSE} : tap' = NewTap(key, armed)
             /\ lines' = <<>>
        ELSE /\ bl' = IF NewNumber(b, m) THEN TrackChange(b, m) ELSE b
             /\ UNCHANGED <<tap, lines>>

\* The recognizer is told of a new number, but not of the first one.
Evaluate(m, key) ==
    LET forgot == Forget(bl, m)
        b == IF ~m.playing \/ forgot.src # m.src THEN StopCapture(forgot) ELSE forgot
    IN  IF ~m.playing
        THEN bl' = b /\ tap' = NoTap /\ lines' = <<>>
        ELSE IF b.src = NoSource
        THEN /\ bl' = StartCapture(b, m)
             /\ \E armed \in {key, FALSE} : tap' = NewTap(key, armed)
             /\ lines' = <<>>
        ELSE /\ bl' = IF NewNumber(b, m) THEN TrackChange(b, m) ELSE b
             /\ tap' = IF NewNumber(b, m) /\ b.track # NoTrack
                       THEN [tap EXCEPT !.signal = TRUE] ELSE tap
             /\ UNCHANGED lines

Subscribed == link \in {"up", "refused"}

\* The evaluation once a second: with the same state it finds only a long silence.
CheckSilence ==
    /\ Subscribed
    /\ bl.src # NoSource /\ bl.silentSince /\ ~bl.silent
    /\ Calm /\ tap.inGap
    /\ bl' = Silenced(bl)
    /\ UNCHANGED <<music, before, tap, wire, lines, faults, lookups>>

-----------------------------------------------------------------------------
(* _on_recognized *)

Hears(song) ==
    IF bl.recog.song = song THEN UNCHANGED <<bl, lookups>>
    ELSE /\ bl' = [bl EXCEPT !.recog = [song |-> song, kind |-> "heard", album |-> "shazam"],
                             !.pending = TRUE,
                             !.disc = IF bl.recog.kind = "predicted" THEN NoDisc ELSE @]
         /\ lookups' = lookups \union {[song |-> song, track |-> bl.track]}

\* With a number from the audio master the title stays until the number changes.
Loses ==
    /\ UNCHANGED lookups
    /\ bl' = IF bl.recog = Nothing \/ bl.track # NoTrack THEN bl
             ELSE Publish([bl EXCEPT !.recog = Nothing, !.pending = FALSE])

OnRecognized(m) ==
    IF bl.src = NoSource THEN UNCHANGED <<bl, lookups>>
    ELSE IF m.kind = "confirmed" THEN Hears(m.song) ELSE Loses

\* _run: the next message of the subscription.
Receives(key) ==
    /\ Subscribed /\ inbox # <<>>
    /\ inbox' = Tail(inbox)
    /\ LET m == Head(inbox) IN
       \/ m.kind = "am" /\ Evaluate(m, key) /\ UNCHANGED lookups
       \/ m.kind # "am" /\ OnRecognized(m) /\ UNCHANGED <<tap, lines>>
    /\ UNCHANGED <<music, before, link, lost, faults>>

\* The connection breaks: what is on its way is lost, and so is what is published until the
\* thread has subscribed again; then it reads the state as it is now.
ConnectionLost ==
    /\ Subscribed /\ faults > 0
    /\ faults' = faults - 1
    /\ link' = "down"
    /\ lost' = (lost \/ \E i \in DOMAIN inbox : inbox[i].kind # "am")
    /\ inbox' = <<>>
    /\ UNCHANGED <<music, before, tap, lines, bl, lookups>>

Subscribes ==
    /\ link = "down"
    /\ link' = "subscribed"
    /\ UNCHANGED <<music, before, tap, inbox, lost, lines, faults, bl, lookups>>

ReadsState(state, key) ==
    /\ link = "subscribed"
    /\ link' = "up"
    /\ Evaluate(state, key)
    /\ UNCHANGED <<music, before, inbox, lost, faults, lookups>>

\* Redis does not take what the recognizer publishes, or the fields of some sources, and
\* takes everything again.
Refuses ==
    /\ faults > 0
    /\ faults' = faults - 1
    /\ \/ link = "up" /\ link' = "refused" /\ UNCHANGED bl
       \/ /\ bl.refused = {}
          /\ \E fields \in SUBSET Sources \ {{}} : bl' = [bl EXCEPT !.refused = fields]
          /\ UNCHANGED link
    /\ UNCHANGED <<music, before, tap, inbox, lost, lines, lookups>>

Recovers ==
    /\ \/ link = "refused" /\ link' = "up" /\ UNCHANGED bl
       \/ bl.refused # {} /\ bl' = [bl EXCEPT !.refused = {}] /\ UNCHANGED link
    /\ UNCHANGED <<music, before, tap, inbox, lost, lines, faults, lookups>>

\* _pump_stderr: the next line of the present tap.
PumpStderr ==
    /\ lines # <<>>
    /\ lines' = Tail(lines)
    /\ bl' = CASE Head(lines) = "gap" -> [bl EXCEPT !.silentSince = TRUE]
               [] bl.silent -> Publish([bl EXCEPT !.silentSince = FALSE, !.silent = FALSE])
               [] OTHER -> [bl EXCEPT !.silentSince = FALSE]
    /\ UNCHANGED <<music, before, tap, wire, faults, lookups>>

-----------------------------------------------------------------------------
(* _lookup_album and _album_timeout *)

\* The track list is trusted when the song sits at the number it was heard under, and kept
\* for the source that is listened to now.
WithDisc(b, l) ==
    IF l.track = l.song[2] /\ b.src # NoSource
    THEN [b EXCEPT !.disc = [unit |-> l.song[1], source |-> b.src]]
    ELSE b

\* The answer, which may find the song gone, the album or nothing.
Answer(b, l, found) ==
    IF b.recog = Nothing \/ b.recog.song # l.song THEN b
    ELSE IF found THEN Publish([b EXCEPT !.pending = FALSE, !.recog.album = "original"])
    ELSE IF b.pending THEN Publish([b EXCEPT !.pending = FALSE])
    ELSE b

\* MusicBrainz: the original album or nothing (no match, no network), and then the track
\* list of its release or an empty one (several discs, no network).
OriginalAlbum == BOOLEAN
Tracklist(found) == {found, FALSE}

LookupDone ==
    /\ \E l \in lookups, found \in OriginalAlbum : \E listed \in Tracklist(found) :
          /\ lookups' = lookups \ {l}
          /\ bl' = Answer(IF listed THEN WithDisc(bl, l) ELSE bl, l, found)
    /\ UNCHANGED <<music, before, tap, wire, lines, faults>>

\* The thread dies of an exception.
LookupDies ==
    /\ faults > 0 /\ faults' = faults - 1
    /\ \E l \in lookups : lookups' = lookups \ {l}
    /\ UNCHANGED <<music, before, tap, wire, lines, bl>>

\* Mutant: the timer ends the wait and shows nothing.
TimeoutSilent ==
    /\ bl.pending
    /\ bl' = [bl EXCEPT !.pending = FALSE]
    /\ UNCHANGED <<music, before, tap, wire, lines, faults, lookups>>

AlbumTimeout ==
    /\ bl.pending
    /\ bl' = Publish([bl EXCEPT !.pending = FALSE])
    /\ UNCHANGED <<music, before, tap, wire, lines, faults, lookups>>

================================================================================
