-------------------------- MODULE RecognitionProofs --------------------------
(***************************************************************************)
(* Theorems of Recognition, for any discs, scenarios and bound on messages.*)
(***************************************************************************)
EXTENDS Recognition, SequenceTheorems, TLAPS

-----------------------------------------------------------------------------
(* Types.                                                                  *)

Flags == BOOLEAN
Steps == {"start", "idle", "asking", "acoustid", "judge", "marking", "identify"}
Dues == {"wait", "due", "never"}
Vias == {"shazam", "acoustid"}
Misses == 0 .. 1
Retries == 0 .. 2
SongSets == SUBSET Song
Taps ==
    [on : Flags, key : Flags, at : Steps, song : Song, clear : Flags, inGap : Flags,
     mixed : Flags, signal : Flags, signalled : Flags, armed : Flags, head : Song,
     headFull : Flags, heard : SongSets, due : Dues, candidate : Song, shown : Song,
     misses : Misses, retry : Retries, acTried : Flags, via : Vias, fresh : Flags]

\* What AcoustID is asked about is a song.
TapTypes ==
    /\ tap \in Taps
    /\ tap.headFull => tap.head # NoSong
    /\ tap.at \in {"marking", "identify"} => tap.song # NoSong

States == [kind : {"am"}, src : Sources \union {NoSource}, track : 0 .. 9,
           playing : BOOLEAN, gone : BOOLEAN]
Confirmations == [kind : {"confirmed"}, song : Songs]
Reported == {m \in States : m.playing => m.src # NoSource}
Messages == Reported \union Confirmations \union {Cleared}
Lines == {"gap", "music", "new track"}

\* A disc is known of a source, by a unit that songs have.
Units == {NoDisc} \union [unit : Discs \union {"tape"}, source : Sources]
Albums == {"none", "shazam", "original"}
Shows == [state : {"idle", "playing"}, song : Song, album : Albums, track : 0 .. 9]
Sites == Sources \union {NoSource}
Numbers == 0 .. 9
Outs == [Sources -> Shows]
UnitSets == SUBSET Sources
Listeners ==
    [src : Sites, track : Numbers, recog : Recog, pending : Flags, silentSince : Flags,
     silent : Flags, disc : Units, out : Outs, refused : UnitSets, stale : UnitSets]
Requests == [song : Songs, track : 0 .. 9]

Left == 0 .. 8
Worlds ==
    [unit : Sites, disc : Discs, n : Numbers, told : Numbers, open : Flags, changes : Left,
     starts : Nat, stops : Nat, key : Flags, units : UnitSets]

\* The numbers of a disc do not run out; what sounds comes from a source.
Plausible(w) ==
    /\ w \in Worlds
    /\ w.n + w.changes <= 9 /\ w.told <= w.n
    /\ w.unit # NoSource => w.n >= 1
WorldTypes ==
    /\ Plausible(world)
    /\ music # NoSong => world.unit # NoSource
    /\ music \in Song /\ before \in Song

\* A title whose album is awaited was heard.
Awaits(b) == b.pending => b.recog.kind = "heard"

Captures == tap.on <=> bl.src # NoSource
BlTypes ==
    /\ Captures
    /\ lookups \in SUBSET Requests

Links == {"down", "subscribed", "up", "refused"}
Transit == inbox \in Seq(Messages) /\ link \in Links /\ lost \in BOOLEAN /\ am \in Reported
WireTypes == Transit /\ lines \in Seq(Lines)

Heard == tap.heard \union {NoSong}
Fits ==
    /\ tap.on => music \in Heard /\ tap.head \in Heard
    /\ tap.shown \in Heard
    /\ tap.at \in {"asking", "marking", "identify"} /\ tap.fresh => tap.song \in Heard
    /\ tap.at = "judge" /\ tap.song \notin Heard => tap.candidate = NoSong /\ tap.shown = NoSong

\* What is shown of the sources that b does not listen to, and while it is silent; and of
\* the one it listens to.  Of a stale one it may be anything.
Others(b) ==
    /\ \A s \in Sources \ b.stale : s # b.src => b.out[s] = Idle
    /\ b.src # NoSource /\ b.silent /\ b.src \notin b.stale => b.out[b.src] = Idle
Current(b) ==
    /\ Others(b)
    /\ b.src # NoSource /\ ~b.silent /\ ~b.pending /\ b.src \notin b.stale
          => b.out[b.src] = Blob(b)

Good(b) == b \in Listeners /\ Awaits(b) /\ Current(b)

-----------------------------------------------------------------------------
(* The recognizer: its type, and that what it shows is of this track.      *)

LEMMA NoSongs ==
    /\ NoSong \notin Songs /\ NoSong \in Song
    /\ \A x \in Songs : x \in Song
    /\ \A x \in Song : x # NoSong => x \in Songs
BY RecognitionAssumption DEF Song

LEMMA Values ==
    /\ TRUE \in Flags /\ FALSE \in Flags
    /\ "start" \in Steps /\ "idle" \in Steps /\ "asking" \in Steps /\ "acoustid" \in Steps
    /\ "judge" \in Steps /\ "marking" \in Steps /\ "identify" \in Steps
    /\ "wait" \in Dues /\ "due" \in Dues /\ "never" \in Dues
    /\ "shazam" \in Vias /\ "acoustid" \in Vias
    /\ 0 \in Misses /\ 0 \in Retries
    /\ {} \in SongSets /\ \A x \in Song : {x} \in SongSets
BY DEF Flags, Steps, Dues, Vias, Misses, Retries, SongSets

\* What the properties are about is the same in t and u.
Same(t, u) ==
    /\ t.on = u.on /\ t.at = u.at /\ t.song = u.song /\ t.fresh = u.fresh
    /\ t.head = u.head /\ t.headFull = u.headFull /\ t.heard = u.heard
    /\ t.shown = u.shown /\ t.candidate = u.candidate

\* t begins a new track, in the step it is in.
Begins(t, u) ==
    /\ t.on = u.on /\ t.at = u.at /\ t.song = u.song /\ t.fresh = FALSE
    /\ t.head = music /\ t.headFull = FALSE /\ t.heard = {music}
    /\ t.shown = NoSong /\ t.candidate = NoSong

LEMMA NewTrackTypes ==
    ASSUME NEW t \in Taps, music \in Song
    PROVE  NewTrack(t) \in Taps /\ Begins(NewTrack(t), t)
<1> USE NoSongs, Values
<1>1. /\ Afresh(t) \in Taps
      /\ Afresh(t).shown = NoSong /\ Afresh(t).candidate = NoSong /\ Afresh(t).fresh = FALSE
      /\ Afresh(t).at = t.at /\ Afresh(t).song = t.song /\ Afresh(t).on = t.on
  BY Zenon DEF Taps, Afresh
<1>2. (Afresh(t).clear \/ t.shown # NoSong) \in Flags
  BY DEF Flags
<1>3. {music} \in SongSets
  OBVIOUS
<1>4. PICK x \in Taps, c \in Flags :
          /\ x.at = t.at /\ x.song = t.song /\ x.on = t.on
          /\ x.shown = NoSong /\ x.candidate = NoSong /\ x.fresh = FALSE
          /\ NewTrack(t) = [x EXCEPT !.clear = c, !.armed = TRUE, !.mixed = FALSE,
                                     !.head = music, !.headFull = FALSE, !.heard = {music}]
  BY <1>1, <1>2, Zenon DEF NewTrack
<1> DEFINE r == [x EXCEPT !.clear = c, !.armed = TRUE, !.mixed = FALSE,
                          !.head = music, !.headFull = FALSE, !.heard = {music}]
<1>5. r \in Taps
  BY <1>3, Zenon DEF Taps
<1>6. /\ r.on = x.on /\ r.at = x.at /\ r.song = x.song /\ r.fresh = x.fresh
      /\ r.head = music /\ r.headFull = FALSE /\ r.heard = {music}
      /\ r.shown = x.shown /\ r.candidate = x.candidate
  BY Zenon DEF Taps
<1>7. NewTrack(t) = r
  BY <1>4
<1> HIDE DEF r
<1> QED
  BY <1>4, <1>5, <1>6, <1>7, Zenon DEF Begins

LEMMA NoTapTypes ==
    /\ NoTap \in Taps /\ NoTap.on = FALSE /\ NoTap.headFull = FALSE /\ NoTap.at = "start"
    /\ NoTap.shown = NoSong
BY NoSongs, Values, Zenon DEF Taps, NoTap

LEMMA NewTapTypes ==
    ASSUME NEW key \in BOOLEAN, NEW armed \in BOOLEAN, music \in Song
    PROVE  /\ NewTap(key, armed) \in Taps /\ NewTap(key, armed).headFull = FALSE
           /\ NewTap(key, armed).at = "start" /\ NewTap(key, armed).shown = NoSong
           /\ NewTap(key, armed).heard = {music} /\ NewTap(key, armed).head = music
           /\ NewTap(key, armed).on = TRUE
<1>1. {music} \in SongSets /\ key \in Flags /\ armed \in Flags
  BY Values DEF Flags
<1>2. NoTap \in Taps /\ NoTap.at = "start" /\ NoTap.headFull = FALSE /\ NoTap.shown = NoSong
  BY NoTapTypes
<1> QED
  BY <1>1, <1>2, Values, Zenon DEF Taps, NewTap

\* Same and Begins keep what is to be shown.
TapInv == TapTypes /\ Fits

LEMMA SameStays ==
    ASSUME TapInv, tap' \in Taps, Same(tap', tap), music' \in {music, NoSong}
    PROVE  TapInv'
BY DEF TapInv, TapTypes, Fits, Heard, Same

LEMMA BeginsStays ==
    ASSUME TapInv, tap' \in Taps, Begins(tap', tap), music' = music
    PROVE  TapInv'
BY DEF TapInv, TapTypes, Fits, Heard, Begins

LEMMA ReadLoopTypes ==
    ASSUME TapInv, music \in Song, ReadLoop
    PROVE  TapInv' /\ tap'.on = tap.on
<1> USE Values
<1>0. tap \in Taps /\ music' = music
  BY DEF TapInv, TapTypes, ReadLoop, Gap, Resume, Signalled
<1>1. CASE Gap
  <2>1. tap' \in Taps /\ Same(tap', tap)
    BY <1>0, <1>1, Zenon DEF Gap, Taps, Same
  <2> QED
    BY <1>0, <2>1, SameStays DEF Same
<1>2. CASE Resume
  <2> DEFINE t == [tap EXCEPT !.inGap = FALSE]
  <2>1. t \in Taps /\ Same(t, tap)
    BY <1>0, Zenon DEF Taps, Same
  <2>2. tap' = t \/ tap' = NewTrack(t)
    BY <1>2 DEF Resume
  <2> HIDE DEF t
  <2>3. CASE tap' = t
    BY <1>0, <2>1, <2>3, SameStays DEF Same
  <2>4. CASE tap' = NewTrack(t)
    <3>1. tap' \in Taps /\ Begins(tap', t)
      BY <2>1, <2>4, NewTrackTypes
    <3>2. Begins(tap', tap)
      BY <2>1, <3>1 DEF Begins, Same
    <3> QED
      BY <1>0, <3>1, <3>2, BeginsStays DEF Begins
  <2> QED
    BY <2>2, <2>3, <2>4
<1>3. CASE Signalled
  <2> DEFINE t == [tap EXCEPT !.signal = FALSE, !.signalled = TRUE]
  <2>1. t \in Taps /\ Same(t, tap)
    BY <1>0, Zenon DEF Taps, Same
  <2>2. tap' = NewTrack(t)
    BY <1>3 DEF Signalled
  <2> HIDE DEF t
  <2>3. tap' \in Taps /\ Begins(tap', t)
    BY <2>1, <2>2, NewTrackTypes
  <2>4. Begins(tap', tap)
    BY <2>1, <2>3 DEF Begins, Same
  <2> QED
    BY <1>0, <2>3, <2>4, BeginsStays DEF Begins
<1> QED
  BY <1>1, <1>2, <1>3 DEF ReadLoop

LEMMA TimeTypes ==
    ASSUME TapInv, FallsDue \/ SignalAges \/ HeadFills
    PROVE  TapInv' /\ tap'.on = tap.on
<1> USE Values
<1>0. tap \in Taps /\ music' = music
  BY DEF TapInv, TapTypes, FallsDue, SignalAges, HeadFills
<1>1. CASE FallsDue
  <2>1. tap' \in Taps /\ Same(tap', tap)
    BY <1>0, <1>1, Zenon DEF FallsDue, Taps, Same
  <2> QED
    BY <1>0, <2>1, SameStays DEF Same
<1>2. CASE SignalAges
  <2>1. tap' \in Taps /\ Same(tap', tap)
    BY <1>0, <1>2, Zenon DEF SignalAges, Taps, Same
  <2> QED
    BY <1>0, <2>1, SameStays DEF Same
<1>3. CASE HeadFills
  <2>1. /\ tap' \in Taps /\ tap'.head = tap.head /\ tap.head # NoSong
        /\ tap'.on = tap.on /\ tap'.at = tap.at /\ tap'.song = tap.song
        /\ tap'.fresh = tap.fresh /\ tap'.heard = tap.heard
        /\ tap'.shown = tap.shown /\ tap'.candidate = tap.candidate
    BY <1>0, <1>3, Zenon DEF HeadFills, Taps
  <2> QED
    BY <1>0, <2>1 DEF TapInv, TapTypes, Fits, Heard
<1> QED
  BY <1>1, <1>2, <1>3

\* The recognition thread moves on; the track is the one it was.
Track(t, u) == t.on = u.on /\ t.head = u.head /\ t.headFull = u.headFull /\ t.heard = u.heard

LEMMA RetriedTypes ==
    ASSUME NEW t \in Taps
    PROVE  Retried(t) \in Taps /\ Same(Retried(t), t)
<1>1. t.retry \in Retries
  BY Zenon DEF Taps
<1>2. (IF t.key /\ t.retry < 2 THEN t.retry + 1 ELSE t.retry) \in Retries
  BY <1>1 DEF Retries
<1>3. PICK y \in Retries : Retried(t) = [t EXCEPT !.retry = y]
  BY <1>2, Zenon DEF Retried
<1> QED
  BY <1>3, Zenon DEF Taps, Same

LEMMA NoMatchTypes ==
    ASSUME tap \in Taps
    PROVE  /\ NoMatch \in Taps /\ Track(NoMatch, tap) /\ NoMatch.song = tap.song
           /\ NoMatch.fresh = tap.fresh /\ NoMatch.shown \in {tap.shown, NoSong}
<1> USE NoSongs, Values
<1> DEFINE t1 == [tap EXCEPT !.due = "never"]
           t2 == [tap EXCEPT !.candidate = NoSong, !.due = "wait"]
           y == IF tap.misses < 1 THEN tap.misses + 1 ELSE tap.misses
           z == IF tap.misses = 1 THEN NoSong ELSE tap.shown
           t3 == [tap EXCEPT !.candidate = NoSong, !.due = "wait", !.misses = y, !.shown = z]
<1>1. t1 \in Taps /\ Track(t1, tap) /\ t1.song = tap.song /\ t1.fresh = tap.fresh
      /\ t1.shown = tap.shown
  BY Zenon DEF Taps, Track
<1>2. t2 \in Taps /\ Track(t2, tap) /\ t2.song = tap.song /\ t2.fresh = tap.fresh
      /\ t2.shown = tap.shown
  BY Zenon DEF Taps, Track
<1>3. t3 \in Taps /\ Track(t3, tap) /\ t3.song = tap.song /\ t3.fresh = tap.fresh
      /\ t3.shown = z
  <2>1. tap.misses \in Misses /\ tap.shown \in Song
    BY Zenon DEF Taps
  <2>2. y \in Misses /\ z \in Song
    BY <2>1 DEF Misses
  <2> HIDE DEF y, z
  <2> QED
    BY <2>2, Zenon DEF Taps, Track
<1>4. NoMatch \in {t1, Retried(t2), t3}
  BY Zenon DEF NoMatch
<1>5. z \in {tap.shown, NoSong}
  OBVIOUS
<1> HIDE DEF t1, t2, t3, z
<1>6. /\ Retried(t2) \in Taps /\ Track(Retried(t2), tap) /\ Retried(t2).song = tap.song
      /\ Retried(t2).fresh = tap.fresh /\ Retried(t2).shown = tap.shown
  BY <1>2, RetriedTypes DEF Same, Track
<1> QED
  BY <1>1, <1>3, <1>4, <1>5, <1>6, Zenon

LEMMA ClearTypes ==
    ASSUME TapInv, ClearsFirst \/ FlushClear
    PROVE  TapInv' /\ tap'.on = tap.on
<1> USE Values
<1>0. tap \in Taps /\ music' = music
  BY DEF TapInv, TapTypes, ClearsFirst, FlushClear
<1>1. CASE ClearsFirst
  <2>1. tap' \in Taps /\ Track(tap', tap) /\ tap'.at = "idle" /\ tap'.shown = tap.shown
    BY <1>0, <1>1, Zenon DEF ClearsFirst, Taps, Track
  <2> QED
    BY <1>0, <2>1 DEF TapInv, TapTypes, Fits, Heard, Track
<1>2. CASE FlushClear
  <2>1. tap' \in Taps /\ Same(tap', tap)
    BY <1>0, <1>2, Zenon DEF FlushClear, Taps, Same
  <2> QED
    BY <1>0, <2>1, SameStays DEF Same
<1> QED
  BY <1>1, <1>2

LEMMA AsksTypes ==
    ASSUME TapInv, music \in Song, before \in Song, Asks
    PROVE  TapInv' /\ tap'.on = tap.on
<1> USE Values, NoSongs
<1>0. tap \in Taps /\ music' = music /\ tap.on
  BY DEF TapInv, TapTypes, Asks, Thread
<1>1. PICK s \in {music} \union IF tap.mixed THEN {before, NoSong} \cap tap.heard ELSE {} :
          tap' = [tap EXCEPT !.at = "asking", !.song = s, !.fresh = TRUE, !.mixed = FALSE]
  BY DEF Asks
<1>2. s \in Song /\ s \in Heard
  BY <1>0, <1>1 DEF TapInv, Fits, Heard
<1>3. /\ tap' \in Taps /\ Track(tap', tap) /\ tap'.at = "asking" /\ tap'.song = s
      /\ tap'.shown = tap.shown
  BY <1>0, <1>1, <1>2, Zenon DEF Taps, Track
<1> QED
  BY <1>0, <1>2, <1>3 DEF TapInv, TapTypes, Fits, Heard, Track

LEMMA RequestFailsTypes ==
    ASSUME TapInv, RequestFails
    PROVE  TapInv' /\ tap'.on = tap.on
<1> USE Values
<1>0. tap \in Taps /\ music' = music
  BY DEF TapInv, TapTypes, RequestFails
<1> DEFINE t == [tap EXCEPT !.due = "wait", !.at = "acoustid"]
<1>1. t \in Taps /\ Track(t, tap) /\ t.at = "acoustid" /\ t.shown = tap.shown
  BY <1>0, Zenon DEF Taps, Track
<1>2. tap' = t \/ tap' = Retried(t)
  BY DEF RequestFails
<1> HIDE DEF t
<1>3. tap' \in Taps /\ Track(tap', tap) /\ tap'.at = "acoustid" /\ tap'.shown = tap.shown
  BY <1>1, <1>2, RetriedTypes DEF Same, Track
<1> QED
  BY <1>0, <1>3 DEF TapInv, TapTypes, Fits, Heard, Track

LEMMA AnsweredTypes ==
    ASSUME TapInv, Answered
    PROVE  TapInv' /\ tap'.on = tap.on
<1> USE Values, NoSongs
<1>0. tap \in Taps /\ music' = music /\ tap.at = "asking" /\ tap.song \in Song
  BY Zenon DEF TapInv, TapTypes, Taps, Answered, Thread
<1>1. ASSUME NEW x \in {tap.song, NoSong}, tap.fresh, tap' = [tap EXCEPT !.at = "judge", !.song = x]
      PROVE  TapInv' /\ tap'.on = tap.on
  <2>1. x \in Song /\ x \in Heard
    BY <1>0, <1>1 DEF TapInv, Fits, Heard
  <2>2. /\ tap' \in Taps /\ Track(tap', tap) /\ tap'.at = "judge" /\ tap'.song = x
        /\ tap'.shown = tap.shown
    BY <1>0, <1>1, <2>1, Zenon DEF Taps, Track
  <2> QED
    BY <1>0, <2>1, <2>2 DEF TapInv, TapTypes, Fits, Heard, Track
<1>2. CASE tap' = [tap EXCEPT !.at = "idle"]
  <2>1. tap' \in Taps /\ Track(tap', tap) /\ tap'.at = "idle" /\ tap'.shown = tap.shown
    BY <1>0, <1>2, Zenon DEF Taps, Track
  <2> QED
    BY <1>0, <2>1 DEF TapInv, TapTypes, Fits, Heard, Track
<1>3. \/ \E x \in {tap.song, NoSong} :
             tap.fresh /\ tap' = [tap EXCEPT !.at = "judge", !.song = x]
      \/ tap' = [tap EXCEPT !.at = "idle"]
  BY Zenon DEF Answered
<1> QED
  BY <1>1, <1>2, <1>3

LEMMA JudgeTypes ==
    ASSUME TapInv, Judge
    PROVE  TapInv' /\ tap'.on = tap.on
<1> USE Values
<1>0. tap \in Taps /\ music' = music
  BY DEF TapInv, TapTypes, Judge
<1>1. /\ NoMatch \in Taps /\ Track(NoMatch, tap) /\ NoMatch.song = tap.song
      /\ NoMatch.fresh = tap.fresh /\ NoMatch.shown \in {tap.shown, NoSong}
  BY <1>0, NoMatchTypes
<1>2. /\ tap' \in Taps /\ Track(tap', NoMatch) /\ tap'.at = "acoustid"
      /\ tap'.shown = NoMatch.shown
  BY <1>1, Zenon DEF Judge, Taps, Track
<1> QED
  BY <1>0, <1>1, <1>2 DEF TapInv, TapTypes, Fits, Heard, Track

LEMMA ConfirmTypes ==
    ASSUME TapInv, Confirm
    PROVE  TapInv' /\ tap'.on = tap.on
<1> USE Values, NoSongs
<1>0. /\ tap \in Taps /\ music' = music /\ tap.at = "judge" /\ tap.song # NoSong
      /\ tap.song \in Song
  BY Zenon DEF TapInv, TapTypes, Taps, Confirm, Thread
<1> DEFINE t == [tap EXCEPT !.at = "idle", !.due = "wait"]
<1>1. /\ t \in Taps /\ Track(t, tap) /\ t.at = "idle" /\ t.shown = tap.shown
  BY <1>0, Zenon DEF Taps, Track
<1>2. \/ tap' = [t EXCEPT !.misses = 0, !.candidate = NoSong]
      \/ /\ tap.song # tap.shown /\ tap.song = tap.candidate
         /\ tap' = [t EXCEPT !.shown = tap.song, !.candidate = NoSong, !.via = "shazam",
                             !.misses = 0, !.retry = 0]
      \/ tap' = [t EXCEPT !.candidate = tap.song]
  BY Zenon DEF Confirm
<1> HIDE DEF t
<1>3. CASE tap' = [t EXCEPT !.misses = 0, !.candidate = NoSong]
  <2>1. tap' \in Taps /\ Track(tap', t) /\ tap'.at = t.at /\ tap'.shown = t.shown
    BY <1>1, <1>3, Zenon DEF Taps, Track
  <2> QED
    BY <1>0, <1>1, <2>1 DEF TapInv, TapTypes, Fits, Heard, Track
<1>4. CASE tap' = [t EXCEPT !.candidate = tap.song]
  <2>1. tap' \in Taps /\ Track(tap', t) /\ tap'.at = t.at /\ tap'.shown = t.shown
    BY <1>0, <1>1, <1>4, Zenon DEF Taps, Track
  <2> QED
    BY <1>0, <1>1, <2>1 DEF TapInv, TapTypes, Fits, Heard, Track
<1>5. CASE /\ tap.song # tap.shown /\ tap.song = tap.candidate
           /\ tap' = [t EXCEPT !.shown = tap.song, !.candidate = NoSong, !.via = "shazam",
                               !.misses = 0, !.retry = 0]
  <2>1. tap' \in Taps /\ Track(tap', t) /\ tap'.at = t.at /\ tap'.shown = tap.song
    BY <1>0, <1>1, <1>5, Zenon DEF Taps, Track
  <2>2. tap.song \in Heard
    BY <1>0, <1>5 DEF TapInv, Fits
  <2> QED
    BY <1>0, <1>1, <2>1, <2>2 DEF TapInv, TapTypes, Fits, Heard, Track
<1> QED
  BY <1>2, <1>3, <1>4, <1>5

LEMMA HeadTurnTypes ==
    ASSUME TapInv, HeadTurn \/ MarkTried
    PROVE  TapInv' /\ tap'.on = tap.on
<1> USE Values
<1>0. tap \in Taps /\ music' = music
  BY DEF TapInv, TapTypes, HeadTurn, MarkTried
<1>1. CASE HeadTurn
  <2>1. tap' \in Taps /\ Track(tap', tap) /\ tap'.at = "acoustid" /\ tap'.shown = tap.shown
    BY <1>0, <1>1, Zenon DEF HeadTurn, Taps, Track
  <2> QED
    BY <1>0, <2>1 DEF TapInv, TapTypes, Fits, Heard, Track
<1>2. CASE MarkTried
  <2>1. /\ tap' \in Taps /\ Track(tap', tap) /\ tap'.at = "identify" /\ tap'.shown = tap.shown
        /\ tap'.song = tap.song /\ tap'.fresh = tap.fresh
    BY <1>0, <1>2, Zenon DEF MarkTried, Taps, Track
  <2>2. tap.at = "marking"
    BY <1>2 DEF MarkTried, Thread
  <2> QED
    BY <1>0, <2>1, <2>2 DEF TapInv, TapTypes, Fits, Heard, Track
<1> QED
  BY <1>1, <1>2

LEMMA TryAcoustidTypes ==
    ASSUME TapInv, TryAcoustid
    PROVE  TapInv' /\ tap'.on = tap.on
<1> USE Values, NoSongs
<1>0. tap \in Taps /\ music' = music /\ tap.head \in Song /\ tap.on
  BY Zenon DEF TapInv, TapTypes, Taps, TryAcoustid, Thread
<1>1. CASE tap.headFull /\ tap' = [tap EXCEPT !.at = "marking", !.song = tap.head]
  <2>1. /\ tap' \in Taps /\ Track(tap', tap) /\ tap'.at = "marking" /\ tap'.shown = tap.shown
        /\ tap'.song = tap.head
    BY <1>0, <1>1, Zenon DEF Taps, Track
  <2> QED
    BY <1>0, <1>1, <2>1 DEF TapInv, TapTypes, Fits, Heard, Track
<1>2. CASE tap' = [tap EXCEPT !.at = "idle", !.song = NoSong]
  <2>1. tap' \in Taps /\ Track(tap', tap) /\ tap'.at = "idle" /\ tap'.shown = tap.shown
    BY <1>0, <1>2, Zenon DEF Taps, Track
  <2> QED
    BY <1>0, <2>1 DEF TapInv, TapTypes, Fits, Heard, Track
<1> QED
  BY <1>1, <1>2 DEF TryAcoustid

LEMMA IdentifiedTypes ==
    ASSUME TapInv, Identified
    PROVE  TapInv' /\ tap'.on = tap.on
<1> USE Values, NoSongs
<1>0. tap \in Taps /\ music' = music /\ tap.at = "identify" /\ tap.song \in Song
  BY Zenon DEF TapInv, TapTypes, Taps, Identified, Thread
<1> DEFINE t == [tap EXCEPT !.at = "idle", !.song = NoSong]
<1>1. t \in Taps /\ Track(t, tap) /\ t.at = "idle" /\ t.shown = tap.shown
  BY <1>0, Zenon DEF Taps, Track
<1>2. \/ /\ tap.fresh
         /\ tap' = [t EXCEPT !.shown = tap.song, !.via = "acoustid", !.due = "never"]
      \/ tap' = t
  BY Zenon DEF Identified
<1> HIDE DEF t
<1>3. CASE tap' = t
  BY <1>0, <1>1, <1>3 DEF TapInv, TapTypes, Fits, Heard, Track
<1>4. CASE /\ tap.fresh
           /\ tap' = [t EXCEPT !.shown = tap.song, !.via = "acoustid", !.due = "never"]
  <2>1. tap' \in Taps /\ Track(tap', t) /\ tap'.at = t.at /\ tap'.shown = tap.song
    BY <1>0, <1>1, <1>4, Zenon DEF Taps, Track
  <2>2. tap.song \in Heard
    BY <1>0, <1>4 DEF TapInv, Fits
  <2> QED
    BY <1>0, <1>1, <2>1, <2>2 DEF TapInv, TapTypes, Fits, Heard, Track
<1> QED
  BY <1>2, <1>3, <1>4

LEMMA ThreadTypes ==
    ASSUME TapInv, music \in Song, before \in Song, RecognitionThread
    PROVE  TapInv' /\ tap'.on = tap.on
BY ClearTypes, AsksTypes, RequestFailsTypes, AnsweredTypes, JudgeTypes, ConfirmTypes,
   HeadTurnTypes, TryAcoustidTypes, IdentifiedTypes DEF RecognitionThread

-----------------------------------------------------------------------------
(* The listener: its type, and that what it shows is what it believes.     *)

LEMMA ListenerValues ==
    /\ TRUE \in Flags /\ FALSE \in Flags
    /\ NoSource \in Sites /\ NoSource \notin Sources /\ \A s \in Sources : s \in Sites
    /\ \A s \in Sites : s # NoSource => s \in Sources
    /\ 0 \in Numbers /\ NoTrack = 0
    /\ Nothing \in Recog /\ Nothing.kind = "none" /\ NoDisc \in Units
    /\ Idle \in Shows
    /\ \A r \in Recog, t \in Numbers :
          [state |-> "playing", song |-> r.song, album |-> r.album, track |-> t] \in Shows
<1>1. Nothing \in Recog /\ Nothing.kind = "none"
  BY NoSongs DEF Nothing, Recog
<1>2. Idle \in Shows
  BY NoSongs DEF Idle, Shows, Albums, NoTrack
<1>3. \A r \in Recog, t \in Numbers :
          [state |-> "playing", song |-> r.song, album |-> r.album, track |-> t] \in Shows
  BY DEF Recog, Shows, Albums, Numbers
<1>4. NoSource \notin Sources
  BY RecognitionAssumption DEF NoSource
<1>5. NoDisc \in Units
  BY DEF Units
<1>6. 0 \in Numbers /\ NoTrack = 0
  BY DEF Numbers, NoTrack
<1> QED
  BY <1>1, <1>2, <1>3, <1>4, <1>5, <1>6 DEF Flags, Sites

LEMMA BlobTypes ==
    ASSUME NEW b \in Listeners
    PROVE  Blob(b) \in Shows
<1>1. b.recog \in Recog /\ b.track \in Numbers
  BY Zenon DEF Listeners
<1>2. \E r \in Recog : Blob(b) =
          [state |-> "playing", song |-> r.song, album |-> r.album, track |-> b.track]
  BY <1>1, ListenerValues, Zenon DEF Blob
<1> QED
  BY <1>1, <1>2, ListenerValues

\* x shows of the sources what b shows.
Alike(x, b) == x.src = b.src /\ x.out = b.out /\ x.silent = b.silent /\ x.stale = b.stale

\* x believes what b believes.
Believes(x, b) ==
    /\ x.src = b.src /\ x.track = b.track /\ x.recog = b.recog /\ x.pending = b.pending
    /\ x.silent = b.silent

\* A write that redis took is what is shown; another source is shown as before.
LEMMA WriteGood ==
    ASSUME NEW b \in Listeners, NEW s \in Sources, NEW shown \in Shows,
           NEW x, x = Write(b, s, shown)
    PROVE  /\ x \in Listeners /\ Believes(x, b)
           /\ \A u \in Sources :
                 u # s => x.out[u] = b.out[u] /\ (u \in x.stale <=> u \in b.stale)
           /\ s \notin x.stale => x.out[s] = shown
<1>0. b.out \in Outs /\ b.stale \in UnitSets
  BY Zenon DEF Listeners
<1>1. CASE s \in b.refused
  <2> DEFINE f == b.stale \union {s}
             y == [b EXCEPT !.stale = f]
  <2>1. x = y
    BY <1>1, Zenon DEF Write
  <2>2. f \in UnitSets /\ s \in f /\ \A u \in Sources : u # s => (u \in f <=> u \in b.stale)
    BY <1>0 DEF UnitSets
  <2> HIDE DEF f
  <2>3. y \in Listeners /\ Believes(y, b) /\ y.stale = f /\ y.out = b.out
    BY <2>2, Zenon DEF Listeners, Believes
  <2> QED
    BY <2>1, <2>2, <2>3
<1>2. CASE s \notin b.refused
  <2> DEFINE f == b.stale \ {s}
             o == [b.out EXCEPT ![s] = shown]
             y == [b EXCEPT !.out = o, !.stale = f]
  <2>1. x = y
    BY <1>2, Zenon DEF Write
  <2>2. f \in UnitSets /\ \A u \in Sources : u # s => (u \in f <=> u \in b.stale)
    BY <1>0 DEF UnitSets
  <2>3. o \in Outs /\ o[s] = shown /\ \A u \in Sources : u # s => o[u] = b.out[u]
    BY <1>0 DEF Outs
  <2> HIDE DEF f, o
  <2>4. y \in Listeners /\ Believes(y, b) /\ y.stale = f /\ y.out = o
    BY <2>2, <2>3, Zenon DEF Listeners, Believes
  <2> QED
    BY <2>1, <2>2, <2>3, <2>4
<1> QED
  BY <1>1, <1>2

LEMMA PublishGood ==
    ASSUME NEW b \in Listeners, Awaits(b), Others(b)
    PROVE  Good(Publish(b)) /\ Publish(b).src = b.src
<1> USE ListenerValues
<1>0. b.src \in Sites /\ b.out \in Outs /\ b.pending \in Flags /\ b.silent \in Flags
  BY Zenon DEF Listeners
<1>1. CASE b.src # NoSource /\ ~b.silent
  <2> DEFINE x == Write(b, b.src, Blob(b))
  <2>1. Publish(b) = x
    BY <1>1 DEF Publish
  <2>2. b.src \in Sources /\ Blob(b) \in Shows
    BY <1>0, <1>1, BlobTypes
  <2>3. /\ x \in Listeners /\ Believes(x, b)
        /\ \A u \in Sources :
              u # b.src => x.out[u] = b.out[u] /\ (u \in x.stale <=> u \in b.stale)
        /\ b.src \notin x.stale => x.out[b.src] = Blob(b)
    BY <2>2, WriteGood
  <2> HIDE DEF x
  <2>4. Blob(x) = Blob(b)
    BY <2>3, Zenon DEF Blob, Believes
  <2>5. Awaits(x)
    BY <2>3 DEF Awaits, Believes
  <2>6. x.src = b.src /\ x.silent = FALSE
    BY <1>0, <1>1, <2>3 DEF Believes, Flags
  <2>7. ASSUME NEW s \in Sources, s \notin x.stale, s # b.src PROVE x.out[s] = Idle
    <3>1. x.out[s] = b.out[s] /\ s \notin b.stale
      BY <2>3, <2>7
    <3> QED
      BY <2>7, <3>1 DEF Others
  <2>8. Current(x)
    BY <2>3, <2>4, <2>6, <2>7 DEF Current, Others
  <2> QED
    BY <2>1, <2>3, <2>5, <2>6, <2>8 DEF Good
<1>2. CASE ~(b.src # NoSource /\ ~b.silent)
  <2>1. Publish(b) = b
    BY <1>2 DEF Publish
  <2> QED
    BY <1>2, <2>1 DEF Good, Current
<1> QED
  BY <1>1, <1>2

LEMMA PredictGood ==
    ASSUME NEW b \in Listeners, Awaits(b)
    PROVE  Predict(b) \in Listeners /\ Awaits(Predict(b)) /\ Alike(Predict(b), b)
<1> USE ListenerValues
<1>0. b.disc \in Units /\ b.track \in Numbers
  BY Zenon DEF Listeners
<1>1. CASE Predict(b) = b
  BY <1>1 DEF Alike
<1>2. CASE Predict(b) # b
  <2> DEFINE r == [song |-> <<b.disc.unit, b.track>>, kind |-> "predicted", album |-> "original"]
             x == [b EXCEPT !.recog = r]
  <2>1. b.disc # NoDisc /\ b.recog = Nothing /\ b.track # NoTrack /\ Predict(b) = x
    BY <1>2, Zenon DEF Predict
  <2>2. r \in Recog
    <3>1. b.disc.unit \in Discs \union {"tape"} /\ b.track \in 1 .. 9
      <4>1. b.disc \in [unit : Discs \union {"tape"}, source : Sources]
        BY <1>0, <2>1 DEF Units
      <4>2. b.disc.unit \in Discs \union {"tape"}
        BY <4>1
      <4> QED
        BY <1>0, <2>1, <4>2 DEF Numbers, NoTrack
    <3>2. <<b.disc.unit, b.track>> \in Song
      BY <3>1 DEF Song, Songs
    <3> DEFINE y == <<b.disc.unit, b.track>>
    <3> HIDE DEF y
    <3>3. [song |-> y, kind |-> "predicted", album |-> "original"] \in Recog
      BY <3>2 DEF Recog, y
    <3> QED
      BY <3>3 DEF y
  <2> HIDE DEF r
  <2>3. /\ x \in Listeners /\ Alike(x, b) /\ x.pending = b.pending
    BY <2>2, Zenon DEF Listeners, Alike
  <2>4. ~b.pending
    BY <2>1 DEF Awaits
  <2> QED
    BY <2>1, <2>3, <2>4 DEF Awaits
<1> QED
  BY <1>1, <1>2

LEMMA ForgetGood ==
    ASSUME NEW b, Good(b), NEW m
    PROVE  Good(Forget(b, m)) /\ Forget(b, m).src = b.src
<1> USE ListenerValues
<1>1. CASE Forget(b, m) = b
  BY <1>1
<1>2. CASE Forget(b, m) # b
  <2> DEFINE x == [b EXCEPT !.disc = NoDisc]
  <2>1. Forget(b, m) = x
    BY <1>2, Zenon DEF Forget
  <2>2. b \in Listeners
    BY DEF Good
  <2>3. /\ x \in Listeners /\ Alike(x, b) /\ x.pending = b.pending /\ x.recog = b.recog
        /\ x.track = b.track
    BY <2>2, Zenon DEF Listeners, Alike
  <2> HIDE DEF x
  <2>4. Blob(x) = Blob(b)
    BY <2>3, Zenon DEF Blob
  <2> QED
    BY <2>1, <2>3, <2>4 DEF Good, Alike, Awaits, Current, Others
<1> QED
  BY <1>1, <1>2

LEMMA StopCaptureGood ==
    ASSUME NEW b, Good(b)
    PROVE  Good(StopCapture(b)) /\ StopCapture(b).src = NoSource
<1> USE ListenerValues
<1>0. b \in Listeners /\ b.out \in Outs /\ b.src \in Sites
  BY Zenon DEF Good, Listeners
<1>1. CASE b.src = NoSource
  BY <1>1, Zenon DEF StopCapture
<1>2. CASE b.src # NoSource
  <2> DEFINE y == Write(b, b.src, Idle)
             x == [y EXCEPT !.src = NoSource, !.track = NoTrack, !.recog = Nothing,
                            !.pending = FALSE, !.silentSince = FALSE, !.silent = FALSE]
  <2>1. StopCapture(b) = x
    BY <1>2, Zenon DEF StopCapture
  <2>2. /\ y \in Listeners
        /\ \A u \in Sources :
              u # b.src => y.out[u] = b.out[u] /\ (u \in y.stale <=> u \in b.stale)
        /\ b.src \notin y.stale => y.out[b.src] = Idle
    BY <1>0, <1>2, WriteGood
  <2> HIDE DEF y
  <2>3. /\ x \in Listeners /\ x.src = NoSource /\ x.out = y.out /\ x.stale = y.stale
        /\ x.pending = FALSE
    BY <2>2, Zenon DEF Listeners
  <2> HIDE DEF x
  <2>4. ASSUME NEW s \in Sources, s \notin y.stale PROVE y.out[s] = Idle
    <3>1. CASE s = b.src
      BY <2>2, <2>4, <3>1
    <3>2. CASE s # b.src
      <4>1. y.out[s] = b.out[s] /\ s \notin b.stale
        BY <2>2, <2>4, <3>2
      <4> QED
        BY <3>2, <4>1 DEF Good, Current, Others
    <3> QED
      BY <3>1, <3>2
  <2> QED
    BY <2>1, <2>3, <2>4 DEF Good, Awaits, Current, Others
<1> QED
  BY <1>1, <1>2

LEMMA StartCaptureGood ==
    ASSUME NEW b, Good(b), b.src = NoSource, NEW m, m.src \in Sources, m.track \in Numbers
    PROVE  Good(StartCapture(b, m)) /\ StartCapture(b, m).src = m.src
<1> USE ListenerValues
<1> DEFINE x == [b EXCEPT !.src = m.src, !.track = m.track, !.recog = Nothing,
                          !.pending = FALSE, !.silentSince = FALSE, !.silent = FALSE]
<1>0. b \in Listeners
  BY DEF Good
<1>1. /\ x \in Listeners /\ x.src = m.src /\ x.out = b.out /\ x.pending = FALSE
      /\ x.silent = FALSE /\ x.stale = b.stale
  BY <1>0, Zenon DEF Listeners
<1>2. StartCapture(b, m) = Publish(Predict(x))
  BY Zenon DEF StartCapture
<1> HIDE DEF x
<1>3. Awaits(x) /\ Others(x)
  BY <1>1 DEF Awaits, Others, Good, Current
<1>4. Predict(x) \in Listeners /\ Awaits(Predict(x)) /\ Others(Predict(x)) /\ Predict(x).src = m.src
  BY <1>1, <1>3, PredictGood DEF Alike, Others
<1> QED
  BY <1>2, <1>4, PublishGood

LEMMA TrackChangeGood ==
    ASSUME NEW b, Good(b), NEW m, m.track \in Numbers
    PROVE  Good(TrackChange(b, m)) /\ TrackChange(b, m).src = b.src
<1> USE ListenerValues
<1>0. b \in Listeners /\ Others(b) /\ Awaits(b) /\ b.recog \in Recog
  BY Zenon DEF Good, Current, Listeners
<1> DEFINE known == [b EXCEPT !.track = m.track]
           blank == [known EXCEPT !.recog = Nothing, !.pending = FALSE]
           p == Predict(blank)
<1>1. /\ known \in Listeners /\ Alike(known, b) /\ known.pending = b.pending
      /\ known.recog = b.recog
  BY <1>0, Zenon DEF Listeners, Alike
<1>2. TrackChange(b, m) \in {Publish(Predict(known)), Publish(Placeholder(p, b.recog))}
  BY Zenon DEF TrackChange
<1> HIDE DEF known
<1>3. /\ blank \in Listeners /\ Alike(blank, known) /\ blank.pending = FALSE
  BY <1>1, Zenon DEF Listeners, Alike
<1> HIDE DEF blank
<1>4. /\ Predict(known) \in Listeners /\ Awaits(Predict(known))
      /\ Others(Predict(known)) /\ Predict(known).src = b.src
  <2>1. Awaits(known)
    BY <1>0, <1>1 DEF Awaits
  <2> QED
    BY <1>0, <1>1, <2>1, PredictGood DEF Alike, Others
<1>5. /\ p \in Listeners /\ Awaits(p) /\ Others(p) /\ p.src = b.src
  <2>1. Awaits(blank)
    BY <1>3 DEF Awaits
  <2> QED
    BY <1>0, <1>1, <1>3, <2>1, PredictGood DEF Alike, Others
<1> HIDE DEF p
<1>6. ASSUME NEW x, x = Placeholder(p, b.recog)
      PROVE  x \in Listeners /\ Awaits(x) /\ Others(x) /\ x.src = b.src
  <2>1. CASE x = p
    BY <1>5, <2>1
  <2>2. CASE x # p
    <3> DEFINE r == [b.recog EXCEPT !.song = NoSong, !.kind = "placeholder"]
               y == [p EXCEPT !.recog = r]
    <3>1. x = y /\ p.recog = Nothing
      BY <1>6, <2>2, Zenon DEF Placeholder
    <3>2. r \in Recog
      <4>1. "placeholder" \in {"none", "heard", "predicted", "placeholder"}
        OBVIOUS
      <4> QED
        BY <1>0, <4>1, NoSongs, Zenon DEF Recog
    <3> HIDE DEF r
    <3>3. y \in Listeners /\ Alike(y, p) /\ y.pending = p.pending
      BY <1>5, <3>2, Zenon DEF Listeners, Alike
    <3>4. ~p.pending
      BY <1>5, <3>1 DEF Awaits
    <3> HIDE DEF y
    <3> QED
      BY <1>5, <3>1, <3>3, <3>4 DEF Awaits, Alike, Others
  <2> QED
    BY <2>1, <2>2
<1> QED
  BY <1>2, <1>4, <1>6, PublishGood

LEMMA SilencedGood ==
    ASSUME NEW b, Good(b), b.src # NoSource
    PROVE  Good(Silenced(b)) /\ Silenced(b).src = b.src
<1> USE ListenerValues
<1>0. b \in Listeners /\ b.out \in Outs /\ b.src \in Sites
  BY Zenon DEF Good, Listeners
<1> DEFINE y == Write(b, b.src, Idle)
           x == [y EXCEPT !.silent = TRUE]
<1>1. Silenced(b) = x
  BY Zenon DEF Silenced
<1>2. /\ y \in Listeners /\ Believes(y, b)
      /\ \A u \in Sources :
            u # b.src => y.out[u] = b.out[u] /\ (u \in y.stale <=> u \in b.stale)
      /\ b.src \notin y.stale => y.out[b.src] = Idle
  BY <1>0, WriteGood
<1> HIDE DEF y
<1>3. /\ x \in Listeners /\ x.src = y.src /\ x.out = y.out /\ x.stale = y.stale
      /\ x.silent = TRUE /\ x.pending = y.pending /\ x.recog = y.recog
  BY <1>2, Zenon DEF Listeners
<1> HIDE DEF x
<1>4. x.src = b.src /\ x.pending = b.pending /\ x.recog = b.recog
  BY <1>2, <1>3 DEF Believes
<1>5. ASSUME NEW s \in Sources, s \notin x.stale, s # b.src PROVE x.out[s] = Idle
  <2>1. x.out[s] = b.out[s] /\ s \notin b.stale
    BY <1>2, <1>3, <1>5
  <2> QED
    BY <1>5, <2>1 DEF Good, Current, Others
<1>6. Awaits(x)
  BY <1>4 DEF Good, Awaits
<1>7. Current(x)
  BY <1>2, <1>3, <1>4, <1>5 DEF Current, Others
<1> QED
  BY <1>1, <1>3, <1>4, <1>6, <1>7 DEF Good

LEMMA LoudGood ==
    ASSUME NEW b, Good(b)
    PROVE  LET x == [b EXCEPT !.silentSince = FALSE, !.silent = FALSE]
               y == [b EXCEPT !.silentSince = FALSE]
               z == [b EXCEPT !.silentSince = TRUE]
           IN  /\ Good(Publish(x)) /\ Publish(x).src = b.src
               /\ Good(y) /\ y.src = b.src
               /\ Good(z) /\ z.src = b.src
<1> USE ListenerValues
<1> DEFINE x == [b EXCEPT !.silentSince = FALSE, !.silent = FALSE]
           y == [b EXCEPT !.silentSince = FALSE]
           z == [b EXCEPT !.silentSince = TRUE]
<1>0. b \in Listeners
  BY DEF Good
<1>1. /\ x \in Listeners /\ x.src = b.src /\ x.out = b.out /\ x.silent = FALSE
      /\ x.pending = b.pending /\ x.recog = b.recog /\ x.stale = b.stale
  BY <1>0, Zenon DEF Listeners
<1>2. /\ y \in Listeners /\ Alike(y, b) /\ y.pending = b.pending /\ y.recog = b.recog
      /\ y.track = b.track
  BY <1>0, Zenon DEF Listeners, Alike
<1>3. /\ z \in Listeners /\ Alike(z, b) /\ z.pending = b.pending /\ z.recog = b.recog
      /\ z.track = b.track
  BY <1>0, Zenon DEF Listeners, Alike
<1> HIDE DEF x, y, z
<1>4. Good(Publish(x)) /\ Publish(x).src = b.src
  <2>1. Awaits(x) /\ Others(x)
    BY <1>1 DEF Good, Awaits, Current, Others
  <2> QED
    BY <1>1, <2>1, PublishGood
<1>5. Good(y) /\ y.src = b.src
  <2>1. Blob(y) = Blob(b)
    BY <1>2, Zenon DEF Blob
  <2> QED
    BY <1>2, <2>1 DEF Good, Alike, Awaits, Current, Others
<1>6. Good(z) /\ z.src = b.src
  <2>1. Blob(z) = Blob(b)
    BY <1>3, Zenon DEF Blob
  <2> QED
    BY <1>3, <2>1 DEF Good, Alike, Awaits, Current, Others
<1> QED
  BY <1>4, <1>5, <1>6 DEF x, y, z

\* A wait that ends is published.
LEMMA EndsWaitGood ==
    ASSUME NEW b, Good(b)
    PROVE  LET x == [b EXCEPT !.pending = FALSE]
           IN  Good(Publish(x)) /\ Publish(x).src = b.src
<1> USE ListenerValues
<1> DEFINE x == [b EXCEPT !.pending = FALSE]
<1>0. b \in Listeners
  BY DEF Good
<1>1. x \in Listeners /\ Alike(x, b) /\ x.pending = FALSE
  BY <1>0, Zenon DEF Listeners, Alike
<1> HIDE DEF x
<1>2. Awaits(x) /\ Others(x) /\ x.src = b.src
  BY <1>1 DEF Good, Alike, Awaits, Current, Others
<1>3. Good(Publish(x)) /\ Publish(x).src = b.src
  BY <1>1, <1>2, PublishGood
<1> QED
  BY <1>3 DEF x

LEMMA WithDiscGood ==
    ASSUME NEW b, Good(b), NEW l \in Requests
    PROVE  Good(WithDisc(b, l)) /\ WithDisc(b, l).src = b.src
<1> USE ListenerValues
<1>1. CASE WithDisc(b, l) = b
  BY <1>1
<1>2. CASE WithDisc(b, l) # b
  <2> DEFINE d == [unit |-> l.song[1], source |-> b.src]
             x == [b EXCEPT !.disc = d]
  <2>1. WithDisc(b, l) = x /\ b.src # NoSource
    BY <1>2, Zenon DEF WithDisc
  <2>2. b \in Listeners /\ b.src \in Sites
    BY Zenon DEF Good, Listeners
  <2>3. d \in Units
    <3>1. l.song \in Songs
      BY DEF Requests
    <3>2. l.song[1] \in Discs \union {"tape"}
      BY <3>1 DEF Songs
    <3>3. b.src \in Sources
      BY <2>1, <2>2
    <3> QED
      BY <3>2, <3>3 DEF Units
  <2> HIDE DEF d
  <2>4. /\ x \in Listeners /\ Alike(x, b) /\ x.pending = b.pending /\ x.recog = b.recog
        /\ x.track = b.track
    BY <2>2, <2>3, Zenon DEF Listeners, Alike
  <2> HIDE DEF x
  <2>5. Blob(x) = Blob(b)
    BY <2>4, Zenon DEF Blob
  <2> QED
    BY <2>1, <2>4, <2>5 DEF Good, Alike, Awaits, Current, Others
<1> QED
  BY <1>1, <1>2

LEMMA AnswerGood ==
    ASSUME NEW b, Good(b), NEW l, NEW found \in BOOLEAN
    PROVE  Good(Answer(b, l, found)) /\ Answer(b, l, found).src = b.src
<1> USE ListenerValues
<1> DEFINE r == [b.recog EXCEPT !.album = "original"]
           x == [b EXCEPT !.pending = FALSE, !.recog = r]
           y == [b EXCEPT !.pending = FALSE]
<1>1. Answer(b, l, found) \in {b, Publish(x), Publish(y)}
  BY Zenon DEF Answer
<1>2. Good(Publish(y)) /\ Publish(y).src = b.src
  BY EndsWaitGood
<1>3. Good(Publish(x)) /\ Publish(x).src = b.src
  <2>1. b \in Listeners /\ b.recog \in Recog
    BY Zenon DEF Good, Listeners
  <2>2. r \in Recog
    <3>1. "original" \in {"none", "shazam", "original"}
      OBVIOUS
    <3> QED
      BY <2>1, <3>1, Zenon DEF Recog
  <2> HIDE DEF r
  <2>3. x \in Listeners /\ Alike(x, b) /\ x.pending = FALSE
    BY <2>1, <2>2, Zenon DEF Listeners, Alike
  <2> HIDE DEF x
  <2>4. Awaits(x) /\ Others(x) /\ x.src = b.src
    BY <2>3 DEF Good, Alike, Awaits, Current, Others
  <2> QED
    BY <2>3, <2>4, PublishGood
<1> HIDE DEF x, y
<1> QED
  BY <1>1, <1>2, <1>3

LEMMA HearsGood ==
    ASSUME Good(bl), lookups \in SUBSET Requests, NEW song \in Songs, Hears(song)
    PROVE  Good(bl') /\ bl'.src = bl.src /\ lookups' \in SUBSET Requests
<1> USE ListenerValues
<1>0. bl \in Listeners /\ bl.track \in Numbers /\ bl.disc \in Units
  BY Zenon DEF Good, Listeners
<1>1. CASE UNCHANGED <<bl, lookups>>
  BY <1>1
<1>2. CASE ~UNCHANGED <<bl, lookups>>
  <2> DEFINE r == [song |-> song, kind |-> "heard", album |-> "shazam"]
             d == IF bl.recog.kind = "predicted" THEN NoDisc ELSE bl.disc
             x == [bl EXCEPT !.recog = r, !.pending = TRUE, !.disc = d]
  <2>1. bl' = x /\ lookups' = lookups \union {[song |-> song, track |-> bl.track]}
    BY <1>2, Zenon DEF Hears
  <2>2. r \in Recog /\ r.kind = "heard"
    BY NoSongs DEF Recog
  <2>3. d \in Units
    BY <1>0
  <2> HIDE DEF r, d
  <2>4. /\ x \in Listeners /\ Alike(x, bl) /\ x.pending = TRUE /\ x.recog = r
    BY <1>0, <2>2, <2>3, Zenon DEF Listeners, Alike
  <2> HIDE DEF x
  <2>5. Good(x) /\ x.src = bl.src
    BY <2>2, <2>4 DEF Good, Alike, Awaits, Current, Others
  <2>6. [song |-> song, track |-> bl.track] \in Requests
    BY <1>0 DEF Requests, Numbers
  <2> QED
    BY <2>1, <2>5, <2>6
<1> QED
  BY <1>1, <1>2

LEMMA LosesGood ==
    ASSUME Good(bl), Loses
    PROVE  Good(bl') /\ bl'.src = bl.src
<1> USE ListenerValues
<1> DEFINE x == [bl EXCEPT !.recog = Nothing, !.pending = FALSE]
<1>1. bl' = bl \/ bl' = Publish(x)
  BY Zenon DEF Loses
<1>2. bl \in Listeners
  BY DEF Good
<1>3. x \in Listeners /\ Alike(x, bl) /\ x.pending = FALSE
  BY <1>2, Zenon DEF Listeners, Alike
<1> HIDE DEF x
<1>4. Awaits(x) /\ Others(x) /\ x.src = bl.src
  BY <1>3 DEF Good, Alike, Awaits, Current, Others
<1>5. Good(Publish(x)) /\ Publish(x).src = bl.src
  BY <1>3, <1>4, PublishGood
<1> QED
  BY <1>1, <1>5

LEMMA SignalStays ==
    ASSUME TapInv, music' = music, tap' = [tap EXCEPT !.signal = TRUE]
    PROVE  TapInv' /\ tap'.on = tap.on
<1>0. tap \in Taps
  BY DEF TapInv, TapTypes
<1>1. tap' \in Taps /\ Same(tap', tap)
  BY <1>0, Values, Zenon DEF Taps, Same
<1> QED
  BY <1>1, SameStays DEF Same

LEMMA EvaluateGood ==
    ASSUME Good(bl), TapInv, Captures, music \in Song, music' = music, lines \in Seq(Lines),
           NEW m \in Reported, NEW key \in BOOLEAN,
           Evaluate(m, key)
    PROVE  Good(bl') /\ TapInv' /\ Captures' /\ lines' \in Seq(Lines)
<1> USE ListenerValues
<1>0. /\ m.src \in Sites /\ m.track \in Numbers /\ m.playing \in BOOLEAN
      /\ m.playing => m.src # NoSource
  BY DEF Reported, States, Sites, Numbers
<1>1. <<>> \in Seq(Lines)
  OBVIOUS
<1> DEFINE f == Forget(bl, m)
           b == IF ~m.playing \/ f.src # m.src THEN StopCapture(f) ELSE f
<1>2. Good(f) /\ f.src = bl.src
  BY ForgetGood
<1>3. Good(StopCapture(f)) /\ StopCapture(f).src = NoSource
  BY <1>2, StopCaptureGood
<1>4. /\ Good(b)
      /\ b.src # NoSource => m.playing /\ b.src = bl.src
      /\ ~m.playing => b.src = NoSource
  BY <1>2, <1>3
<1>5. \/ /\ ~m.playing /\ bl' = b /\ tap' = NoTap /\ lines' = <<>>
      \/ /\ m.playing /\ b.src = NoSource /\ bl' = StartCapture(b, m)
         /\ \E armed \in {key, FALSE} : tap' = NewTap(key, armed)
         /\ lines' = <<>>
      \/ /\ b.src # NoSource
         /\ bl' \in {TrackChange(b, m), b}
         /\ tap' \in {[tap EXCEPT !.signal = TRUE], tap}
         /\ lines' = lines
  BY Zenon DEF Evaluate
<1> HIDE DEF f, b
<1>6. CASE ~m.playing /\ bl' = b /\ tap' = NoTap /\ lines' = <<>>
  <2>1. TapInv'
    BY <1>6, NoTapTypes DEF TapInv, TapTypes, Fits, Heard
  <2> QED
    BY <1>1, <1>4, <1>6, <2>1, NoTapTypes DEF Captures
<1>7. CASE /\ m.playing /\ b.src = NoSource /\ bl' = StartCapture(b, m)
           /\ \E armed \in {key, FALSE} : tap' = NewTap(key, armed)
           /\ lines' = <<>>
  <2>1. PICK armed \in BOOLEAN : tap' = NewTap(key, armed)
    BY <1>7
  <2>2. /\ tap' \in Taps /\ tap'.headFull = FALSE /\ tap'.at = "start" /\ tap'.shown = NoSong
        /\ tap'.heard = {music} /\ tap'.head = music /\ tap'.on = TRUE
    BY <2>1, NewTapTypes
  <2>3. TapInv'
    BY <2>2 DEF TapInv, TapTypes, Fits, Heard
  <2>4. m.src \in Sources
    BY <1>0, <1>7
  <2>5. Good(bl') /\ bl'.src = m.src
    BY <1>0, <1>4, <1>7, <2>4, StartCaptureGood
  <2> QED
    BY <1>1, <1>7, <2>2, <2>3, <2>4, <2>5 DEF Captures
<1>8. CASE /\ b.src # NoSource
           /\ bl' \in {TrackChange(b, m), b}
           /\ tap' \in {[tap EXCEPT !.signal = TRUE], tap}
           /\ lines' = lines
  <2>1. Good(bl') /\ bl'.src = b.src
    BY <1>0, <1>4, <1>8, TrackChangeGood
  <2>2. TapInv' /\ tap'.on = tap.on
    <3>1. CASE tap' = [tap EXCEPT !.signal = TRUE]
      BY <3>1, SignalStays
    <3>2. CASE tap' = tap
      BY <3>2 DEF TapInv, TapTypes, Fits, Heard
    <3> QED
      BY <1>8, <3>1, <3>2
  <2> QED
    BY <1>4, <1>8, <2>1, <2>2 DEF Captures
<1> QED
  BY <1>5, <1>6, <1>7, <1>8

-----------------------------------------------------------------------------
(* The messages on their way.                                              *)

LEMMA SendTypes ==
    ASSUME Transit, NEW m \in Messages, Send(m), UNCHANGED am
    PROVE  Transit'
<1>1. link' = link /\ lost' \in BOOLEAN
  BY DEF Send
<1>2. inbox' = inbox \/ inbox' = Append(inbox, m)
  BY DEF Send, Delivers
<1>3. inbox' \in Seq(Messages)
  BY <1>2, AppendProperties DEF Transit
<1> QED
  BY <1>1, <1>3 DEF Transit

LEMMA ReportsTypes ==
    ASSUME Transit, NEW m \in Reported, Reports(m)
    PROVE  Transit'
<1>1. m \in Messages
  BY DEF Messages
<1> QED
  BY <1>1, AppendProperties DEF Reports, Delivers, Transit

LEMMA SaysTypes ==
    ASSUME lines \in Seq(Lines), NEW l \in Lines, Says(l)
    PROVE  lines' \in Seq(Lines)
BY AppendProperties DEF Says

LEMMA MessageTypes ==
    /\ Cleared \in Messages
    /\ \A s \in Songs : Confirmed(s) \in Messages
    /\ \A src \in Sites, track \in Numbers, playing, gone \in BOOLEAN :
          (playing => src # NoSource) => Am(src, track, playing, gone) \in Reported
    /\ "gap" \in Lines /\ "music" \in Lines /\ "new track" \in Lines
<1>1. \A s \in Songs : Confirmed(s) \in Confirmations
  BY DEF Confirmed, Confirmations
<1>2. ASSUME NEW src \in Sites, NEW track \in Numbers, NEW playing \in BOOLEAN,
             NEW gone \in BOOLEAN, playing => src # NoSource
      PROVE  Am(src, track, playing, gone) \in Reported
  BY <1>2 DEF Am, Reported, States, Sites, Numbers
<1> QED
  BY <1>1, <1>2 DEF Messages, Lines

LEMMA TapWires ==
    ASSUME WireTypes, tap \in Taps, TapTypes, Tap, UNCHANGED am
    PROVE  WireTypes'
<1> USE MessageTypes
<1>0. Transit /\ lines \in Seq(Lines) /\ tap.song \in Song
  BY Zenon DEF WireTypes, Taps
<1>10. ASSUME UNCHANGED wire PROVE Transit'
  BY <1>0, <1>10 DEF wire, Transit
<1>1. CASE Gap
  BY <1>0, <1>1, <1>10, SaysTypes DEF Gap, WireTypes
<1>2. CASE Resume
  <2>1. (Says("music") \/ Says("new track")) /\ UNCHANGED wire
    BY <1>2 DEF Resume
  <2> QED
    BY <1>0, <1>10, <2>1, SaysTypes DEF WireTypes
<1>3. CASE Signalled
  BY <1>0, <1>3, <1>10, SaysTypes DEF Signalled, WireTypes
<1>4. CASE NextWindow \/ SignalAges \/ HeadFills
  BY <1>0, <1>4, <1>10 DEF NextWindow, FallsDue, SignalAges, HeadFills, WireTypes
<1>5. CASE ClearsFirst \/ FlushClear
  BY <1>0, <1>5, SendTypes DEF ClearsFirst, FlushClear, WireTypes
<1>6. CASE Asks \/ RequestFails \/ Answered \/ HeadTurn \/ TryAcoustid \/ MarkTried
  BY <1>0, <1>6, <1>10 DEF Asks, RequestFails, Answered, HeadTurn, TryAcoustid, MarkTried, WireTypes
<1>7. CASE Judge
  <2>1. (Send(Cleared) \/ UNCHANGED wire) /\ lines' = lines
    BY <1>7 DEF Judge
  <2> QED
    BY <1>0, <1>10, <2>1, SendTypes DEF WireTypes
<1>8. CASE Confirm
  <2>1. (Send(Confirmed(tap.song)) \/ UNCHANGED wire) /\ lines' = lines
    BY <1>8, Zenon DEF Confirm
  <2>2. Confirmed(tap.song) \in Messages
    BY <1>0, <1>8, NoSongs DEF Confirm
  <2> QED
    BY <1>0, <1>10, <2>1, <2>2, SendTypes DEF WireTypes
<1>9. CASE Identified
  <2>1. (Send(Confirmed(tap.song)) \/ UNCHANGED wire) /\ lines' = lines
    BY <1>9, Zenon DEF Identified
  <2>2. Confirmed(tap.song) \in Messages
    BY <1>0, <1>9, NoSongs DEF Identified, Thread, TapTypes
  <2> QED
    BY <1>0, <1>10, <2>1, <2>2, SendTypes DEF WireTypes
<1> QED
  BY <1>1, <1>2, <1>3, <1>4, <1>5, <1>6, <1>7, <1>8, <1>9
  DEF Tap, ReadLoop, RecognitionThread

-----------------------------------------------------------------------------
(* What is played.                                                         *)

LEMMA SongOfTypes ==
    ASSUME NEW w \in Worlds, w.unit # NoSource, w.n >= 1
    PROVE  SongOf(w) \in Songs
<1>1. w.unit \in Sites /\ w.disc \in Discs /\ w.n \in Numbers
  BY Zenon DEF Worlds
<1>2. w.unit \in {"cd", "tape"}
  BY <1>1, RecognitionAssumption DEF Sites
<1>3. w.n \in 1 .. 9
  BY <1>1 DEF Numbers
<1> QED
  BY <1>1, <1>2, <1>3 DEF SongOf, Songs

LEMMA SoundsTypes ==
    ASSUME TapInv, music \in Song, before \in Song, NEW w, SongOf(w) \in Songs, Sounds(w)
    PROVE  /\ TapInv' /\ tap'.on = tap.on
           /\ music' \in Song /\ before' \in Song
<1> USE NoSongs
<1>0. tap \in Taps /\ tap.head \in Song /\ tap.heard \in SongSets
  BY Zenon DEF TapInv, TapTypes, Taps
<1>1. music' = SongOf(w) /\ music' \in Song /\ before' \in Song
  BY DEF Sounds
<1>2. CASE ~tap.on
  <2>1. tap' = tap
    BY <1>2 DEF Sounds
  <2> QED
    BY <1>1, <1>2, <2>1 DEF TapInv, TapTypes, Fits, Heard
<1>3. CASE tap.on
  <2> DEFINE h == tap.heard \union {SongOf(w)}
             d == IF tap.head = NoSong THEN SongOf(w) ELSE tap.head
             t == [tap EXCEPT !.mixed = TRUE, !.heard = h, !.head = d]
  <2>1. tap' = t
    BY <1>3, Zenon DEF Sounds
  <2>2. h \in SongSets /\ d \in Song
    BY <1>0 DEF SongSets
  <2>3. d # NoSong
    OBVIOUS
  <2> HIDE DEF d
  <2>4. tap.heard \subseteq h /\ SongOf(w) \in h
    OBVIOUS
  <2> HIDE DEF h
  <2>5. /\ t \in Taps /\ t.heard = h /\ t.head = d
        /\ t.on = tap.on /\ t.at = tap.at /\ t.song = tap.song /\ t.fresh = tap.fresh
        /\ t.headFull = tap.headFull /\ t.shown = tap.shown /\ t.candidate = tap.candidate
    BY <1>0, <2>2, Values, Zenon DEF Taps
  <2> HIDE DEF t
  <2>6. d \in h \union {NoSong}
    BY <1>3, <2>4 DEF TapInv, Fits, Heard, d
  <2> QED
    BY <1>1, <1>3, <2>1, <2>3, <2>4, <2>5, <2>6 DEF TapInv, TapTypes, Fits, Heard
<1> QED
  BY <1>1, <1>2, <1>3

Playing == WorldTypes /\ TapInv /\ Transit

LEMMA WorldValues ==
    /\ TRUE \in Flags /\ FALSE \in Flags
    /\ NoSource \in Sites /\ \A u \in Sources : u \in Sites /\ u # NoSource
    /\ "cd" \in Sites /\ "cd" # NoSource
    /\ 0 \in Numbers /\ 1 \in Numbers
<1>1. NoSource \notin Sources /\ "cd" \in Sources
  BY RecognitionAssumption DEF NoSource
<1> QED
  BY <1>1 DEF Flags, Sites, Numbers

LEMMA StartsTypes ==
    ASSUME Playing, NEW u \in Sources, Starts(u)
    PROVE  Playing' /\ tap'.on = tap.on
<1> USE WorldValues
<1>0. /\ world \in Worlds /\ world.disc \in Discs /\ world.changes \in Left
      /\ world.starts \in Nat /\ world.open \in Flags
  BY Zenon DEF Playing, WorldTypes, Plausible, Worlds
<1>1. PICK d \in Discs, told \in {0, 1} :
          LET w == [world EXCEPT !.unit = u, !.disc = d, !.n = 1, !.told = told,
                                 !.starts = @ - 1, !.open = IF u = "cd" THEN FALSE ELSE @]
          IN  /\ world' = w
              /\ Sounds(w)
              /\ Reports(Am(u, told, TRUE, FALSE))
  <2>1. (IF u = "cd" /\ world.open THEN Discs ELSE {world.disc}) \subseteq Discs
    BY <1>0
  <2>2. (IF u = "cd" THEN {0, 1} ELSE {0}) \subseteq {0, 1}
    OBVIOUS
  <2> QED
    BY <2>1, <2>2, Zenon DEF Starts
<1> DEFINE x == world.starts - 1
           o == IF u = "cd" THEN FALSE ELSE world.open
           w == [world EXCEPT !.unit = u, !.disc = d, !.n = 1, !.told = told,
                              !.starts = x, !.open = o]
<1>2. world' = w /\ Sounds(w) /\ Reports(Am(u, told, TRUE, FALSE))
  BY <1>1, Zenon
<1>3. x \in Nat /\ o \in Flags /\ told \in Numbers
  <2>1. world.starts > 0
    BY DEF Starts
  <2>2. x \in Nat
    BY <1>0, <2>1
  <2>3. o \in Flags /\ told \in Numbers
    BY <1>0
  <2> QED
    BY <2>2, <2>3
<1> HIDE DEF x, o
<1>4. /\ w \in Worlds /\ w.unit = u /\ w.n = 1 /\ w.told = told /\ w.changes = world.changes
  BY <1>0, <1>3, Zenon DEF Worlds
<1> HIDE DEF w
<1>5. Plausible(w)
  BY <1>0, <1>4 DEF Plausible, Left
<1>6. SongOf(w) \in Songs
  BY <1>4, SongOfTypes
<1>7. TapInv' /\ tap'.on = tap.on /\ music' \in Song /\ before' \in Song
  BY <1>2, <1>6, SoundsTypes DEF Playing, WorldTypes
<1>8. Am(u, told, TRUE, FALSE) \in Reported
  BY <1>3, MessageTypes
<1>9. Transit'
  BY <1>2, <1>8, ReportsTypes DEF Playing
<1> QED
  BY <1>2, <1>4, <1>5, <1>7, <1>9 DEF Playing, WorldTypes

\* A song more on the disc.
LEMMA CountsOn ==
    ASSUME WorldTypes, world.changes > 0, music # NoSong
    PROVE  LET w == [world EXCEPT !.changes = @ - 1, !.n = @ + 1]
           IN  Plausible(w) /\ w.unit = world.unit /\ w.n >= 1
<1>0. /\ world \in Worlds /\ world.changes \in Left /\ world.n \in Numbers
      /\ world.told \in Numbers
  BY Zenon DEF WorldTypes, Plausible, Worlds
<1> DEFINE x == world.changes - 1
           y == world.n + 1
           w == [world EXCEPT !.changes = x, !.n = y]
<1>1. /\ x \in Left /\ y \in Numbers /\ y + x <= 9 /\ y >= 1 /\ world.told <= y
  BY <1>0 DEF WorldTypes, Plausible, Left, Numbers
<1> HIDE DEF x, y
<1>2. w \in Worlds /\ w.unit = world.unit /\ w.n = y /\ w.told = world.told /\ w.changes = x
  BY <1>0, <1>1, Zenon DEF Worlds
<1> HIDE DEF w
<1>3. Plausible(w) /\ w.unit = world.unit /\ w.n >= 1
  BY <1>1, <1>2 DEF Plausible
<1>4. w = [world EXCEPT !.changes = @ - 1, !.n = @ + 1]
  BY Zenon DEF w, x, y
<1> QED
  BY <1>3, <1>4, Zenon

LEMMA SongEndsTypes ==
    ASSUME Playing, SongEnds
    PROVE  Playing' /\ tap'.on = tap.on
<1>1. /\ world' = [world EXCEPT !.changes = @ - 1, !.n = @ + 1]
      /\ world.changes > 0 /\ music # NoSong
      /\ music' = NoSong /\ before' = music /\ tap' = tap /\ UNCHANGED <<inbox, link, lost, am>>
  BY DEF SongEnds, wire
<1>2. Plausible(world') /\ world'.unit = world.unit
  BY <1>1, CountsOn, Zenon DEF Playing
<1>3. TapInv'
  BY <1>1 DEF Playing, TapInv, TapTypes, Fits, Heard
<1> QED
  BY <1>1, <1>2, <1>3, NoSongs DEF Playing, WorldTypes, Plausible, Transit

LEMMA NextSongTypes ==
    ASSUME Playing, NextSong
    PROVE  Playing' /\ tap'.on = tap.on
<1>1. /\ world.unit # NoSource /\ Sounds(world) /\ world' = world
      /\ UNCHANGED <<inbox, link, lost, am>>
  BY DEF NextSong, wire
<1>2. SongOf(world) \in Songs
  BY <1>1, SongOfTypes DEF Playing, WorldTypes, Plausible
<1>3. TapInv' /\ tap'.on = tap.on /\ music' \in Song /\ before' \in Song
  BY <1>1, <1>2, SoundsTypes DEF Playing, WorldTypes
<1> QED
  BY <1>1, <1>3 DEF Playing, WorldTypes, Plausible, Transit

LEMMA SegueTypes ==
    ASSUME Playing, Segue
    PROVE  Playing' /\ tap'.on = tap.on
<1> DEFINE w == [world EXCEPT !.changes = @ - 1, !.n = @ + 1]
<1>1. /\ world' = w /\ Sounds(w) /\ world.changes > 0 /\ music # NoSong
      /\ UNCHANGED <<inbox, link, lost, am>>
  BY Zenon DEF Segue, wire
<1>2. Plausible(w) /\ w.unit = world.unit /\ w.n >= 1
  BY <1>1, CountsOn, Zenon DEF Playing
<1> HIDE DEF w
<1>3. w.unit # NoSource
  BY <1>1, <1>2 DEF Playing, WorldTypes
<1>4. SongOf(w) \in Songs
  BY <1>2, <1>3, SongOfTypes DEF Plausible
<1>5. TapInv' /\ tap'.on = tap.on /\ music' \in Song /\ before' \in Song
  BY <1>1, <1>4, SoundsTypes DEF Playing, WorldTypes
<1> QED
  BY <1>1, <1>2, <1>3, <1>5 DEF Playing, WorldTypes, Plausible, Transit

LEMMA ReportsNumberTypes ==
    ASSUME Playing, ReportsNumber
    PROVE  Playing' /\ tap'.on = tap.on
<1> USE WorldValues
<1>0. /\ world \in Worlds /\ world.told \in Numbers /\ world.n \in Numbers
      /\ world.told <= world.n /\ world.told # world.n
  BY Zenon DEF Playing, WorldTypes, Plausible, Worlds, ReportsNumber
<1> DEFINE y == world.told + 1
           w == [world EXCEPT !.told = y]
<1>1. world' = w /\ Reports(Am("cd", world'.told, TRUE, FALSE))
  BY Zenon DEF ReportsNumber
<1>2. y \in Numbers /\ y <= world.n
  BY <1>0 DEF Numbers
<1> HIDE DEF y
<1>3. /\ w \in Worlds /\ w.told = y /\ w.n = world.n /\ w.changes = world.changes
      /\ w.unit = world.unit
  BY <1>0, <1>2, Zenon DEF Worlds
<1> HIDE DEF w
<1>4. Plausible(world') /\ world'.unit = world.unit
  BY <1>1, <1>2, <1>3 DEF Playing, WorldTypes, Plausible
<1>5. Am("cd", world'.told, TRUE, FALSE) \in Reported
  BY <1>1, <1>2, <1>3, MessageTypes
<1>6. Transit'
  BY <1>1, <1>5, ReportsTypes DEF Playing
<1>7. music' = music /\ before' = before /\ tap' = tap
  BY DEF ReportsNumber
<1>8. TapInv'
  BY <1>7 DEF Playing, TapInv, TapTypes, Fits, Heard
<1> QED
  BY <1>4, <1>6, <1>7, <1>8 DEF Playing, WorldTypes

LEMMA StopsTypes ==
    ASSUME Playing, Stops
    PROVE  Playing' /\ tap'.on = tap.on
<1> USE WorldValues
<1>0. /\ world \in Worlds /\ world.stops \in Nat /\ world.open \in Flags /\ world.unit \in Sites
      /\ world.n \in Numbers
  BY Zenon DEF Playing, WorldTypes, Plausible, Worlds
<1>1. PICK how \in {"stop", "standby", "drawer"} :
          /\ world' = [world EXCEPT !.unit = NoSource, !.stops = @ - 1, !.told = 0,
                                    !.open = @ \/ how # "stop"]
          /\ Reports(Am(IF how = "standby" THEN NoSource ELSE world.unit, 0, FALSE, how = "drawer"))
  BY DEF Stops
<1> DEFINE x == world.stops - 1
           o == world.open \/ how # "stop"
           g == how = "drawer"
           src == IF how = "standby" THEN NoSource ELSE world.unit
           w == [world EXCEPT !.unit = NoSource, !.stops = x, !.told = 0, !.open = o]
<1>2. world' = w /\ Reports(Am(src, 0, FALSE, g))
  BY <1>1, Zenon
<1>3. x \in Nat
  BY <1>0 DEF Stops
<1>4. o \in Flags /\ g \in BOOLEAN
  BY DEF Flags
<1>5. src \in Sites
  BY <1>0
<1> HIDE DEF x, o, g, src
<1>6. /\ w \in Worlds /\ w.unit = NoSource /\ w.told = 0 /\ w.n = world.n
      /\ w.changes = world.changes
  BY <1>0, <1>3, <1>4, Zenon DEF Worlds
<1> HIDE DEF w
<1>7. Plausible(world')
  BY <1>0, <1>2, <1>6 DEF Playing, WorldTypes, Plausible, Numbers
<1>8. Am(src, 0, FALSE, g) \in Reported
  BY <1>4, <1>5, MessageTypes
<1>9. Transit'
  BY <1>2, <1>8, ReportsTypes DEF Playing
<1>10. /\ music' = NoSong /\ before' \in {music, before} /\ tap' = tap
  BY DEF Stops
<1>11. TapInv'
  BY <1>10 DEF Playing, TapInv, TapTypes, Fits, Heard
<1> QED
  BY <1>7, <1>9, <1>10, <1>11, NoSongs DEF Playing, WorldTypes

LEMMA EnvironmentTypes ==
    ASSUME Playing, Environment
    PROVE  Playing' /\ tap'.on = tap.on
BY StartsTypes, SongEndsTypes, NextSongTypes, SegueTypes, ReportsNumberTypes, StopsTypes
   DEF Environment

-----------------------------------------------------------------------------
(* The inductive invariant.                                                *)

Types == WorldTypes /\ TapInv /\ BlTypes /\ WireTypes /\ Good(bl)

LEMMA TapStep ==
    ASSUME Types, Tap, UNCHANGED <<bl, lookups, world, am>>
    PROVE  Types'
<1>1. TapInv' /\ tap'.on = tap.on
  <2>1. CASE ReadLoop
    BY <2>1, ReadLoopTypes DEF Types, WorldTypes
  <2>2. CASE NextWindow \/ SignalAges \/ HeadFills
    BY <2>2, TimeTypes DEF Types, NextWindow
  <2>3. CASE RecognitionThread
    BY <2>3, ThreadTypes DEF Types, WorldTypes
  <2> QED
    BY <2>1, <2>2, <2>3 DEF Tap
<1>2. WireTypes'
  BY TapWires DEF Types, TapInv, TapTypes
<1>3. UNCHANGED <<music, before>>
  BY DEF Tap, ReadLoop, Gap, Resume, Signalled, NextWindow, FallsDue, SignalAges, HeadFills,
         RecognitionThread, ClearsFirst, FlushClear, Asks, RequestFails, Answered, Judge,
         Confirm, HeadTurn, TryAcoustid, MarkTried, Identified
<1>4. WorldTypes'
  BY <1>3 DEF Types, WorldTypes, Plausible
<1>5. BlTypes'
  BY <1>1 DEF Types, BlTypes, Captures
<1>6. Good(bl)'
  BY DEF Types
<1> QED
  BY <1>1, <1>2, <1>4, <1>5, <1>6 DEF Types

LEMMA ReceivesStep ==
    ASSUME Types, Receives(world.key), UNCHANGED <<world, am>>
    PROVE  Types'
<1>0. /\ inbox \in Seq(Messages) /\ lines \in Seq(Lines) /\ inbox # <<>>
      /\ inbox' = Tail(inbox) /\ UNCHANGED <<music, before, link, lost, am>>
  BY DEF Types, WireTypes, Transit, Receives
<1>1. Head(inbox) \in Messages /\ inbox' \in Seq(Messages)
  BY <1>0, HeadTailProperties
<1>2. WorldTypes'
  BY <1>0 DEF Types, WorldTypes, Plausible
<1>3. world.key \in BOOLEAN
  <2>1. world.key \in Flags
    BY Zenon DEF Types, WorldTypes, Plausible, Worlds
  <2> QED
    BY <2>1 DEF Flags
<1> DEFINE m == Head(inbox)
<1>4. /\ m.kind = "am" => m \in Reported
      /\ m.kind = "confirmed" => m.song \in Songs
  BY <1>1 DEF Messages, Reported, States, Confirmations, Cleared
<1>5. \/ m.kind = "am" /\ Evaluate(m, world.key) /\ UNCHANGED lookups
      \/ m.kind # "am" /\ OnRecognized(m) /\ UNCHANGED <<tap, lines>>
  BY Zenon DEF Receives
<1> HIDE DEF m
<1>6. CASE m.kind = "am" /\ Evaluate(m, world.key) /\ UNCHANGED lookups
  <2>1. Good(bl') /\ TapInv' /\ Captures' /\ lines' \in Seq(Lines)
    BY <1>0, <1>3, <1>4, <1>6, EvaluateGood DEF Types, BlTypes, WorldTypes
  <2>2. BlTypes' /\ WireTypes'
    BY <1>0, <1>1, <1>6, <2>1 DEF Types, BlTypes, WireTypes, Transit
  <2> QED
    BY <1>2, <2>1, <2>2 DEF Types
<1>7. CASE m.kind # "am" /\ OnRecognized(m) /\ UNCHANGED <<tap, lines>>
  <2>1. Good(bl') /\ bl'.src = bl.src /\ lookups' \in SUBSET Requests
    <3>1. CASE UNCHANGED <<bl, lookups>>
      BY <3>1 DEF Types, BlTypes
    <3>2. CASE m.kind = "confirmed" /\ Hears(m.song)
      BY <1>4, <3>2, HearsGood DEF Types, BlTypes
    <3>3. CASE Loses
      <4>1. lookups' = lookups
        BY <3>3 DEF Loses
      <4> QED
        BY <3>3, <4>1, LosesGood DEF Types, BlTypes
    <3> QED
      BY <1>7, <3>1, <3>2, <3>3 DEF OnRecognized
  <2>2. BlTypes' /\ WireTypes'
    BY <1>0, <1>1, <1>7, <2>1 DEF Types, BlTypes, Captures, WireTypes, Transit
  <2>3. TapInv'
    BY <1>0, <1>7 DEF Types, TapInv, TapTypes, Fits, Heard
  <2> QED
    BY <1>2, <2>1, <2>2, <2>3 DEF Types
<1> QED
  BY <1>5, <1>6, <1>7

\* The connection breaks, is renewed, and the state is read.
LEMMA LinkStep ==
    ASSUME Types, ConnectionLost \/ Subscribes \/ ReadsState(am, world.key),
           UNCHANGED <<world, am>>
    PROVE  Types'
<1>0. Transit /\ lines \in Seq(Lines)
  BY DEF Types, WireTypes
<1>1. UNCHANGED <<music, before>>
  BY DEF ConnectionLost, Subscribes, ReadsState
<1>2. WorldTypes'
  BY <1>1 DEF Types, WorldTypes, Plausible
<1>3. CASE ConnectionLost \/ Subscribes
  <2>1. UNCHANGED <<tap, lines, bl, lookups>>
    BY <1>3 DEF ConnectionLost, Subscribes
  <2>2. Transit'
    <3>1. <<>> \in Seq(Messages)
      OBVIOUS
    <3>2. CASE ConnectionLost
      <4>1. link' \in Links /\ lost' \in BOOLEAN /\ inbox' = <<>>
        BY <3>2 DEF ConnectionLost, Links
      <4> QED
        BY <1>0, <3>1, <4>1 DEF Transit
    <3>3. CASE Subscribes
      BY <1>0, <3>3 DEF Subscribes, Transit, Links
    <3> QED
      BY <1>3, <3>2, <3>3
  <2>3. TapInv' /\ BlTypes' /\ Good(bl)'
    BY <1>1, <2>1 DEF Types, TapInv, TapTypes, Fits, Heard, BlTypes, Captures
  <2> QED
    BY <1>0, <1>2, <2>1, <2>2, <2>3 DEF Types, WireTypes
<1>4. CASE ReadsState(am, world.key)
  <2>1. world.key \in BOOLEAN
    <3>1. world.key \in Flags
      BY Zenon DEF Types, WorldTypes, Plausible, Worlds
    <3> QED
      BY <3>1 DEF Flags
  <2>2. Evaluate(am, world.key) /\ UNCHANGED <<inbox, lost, lookups>> /\ link' = "up"
    BY <1>4 DEF ReadsState
  <2>3. Good(bl') /\ TapInv' /\ Captures' /\ lines' \in Seq(Lines)
    BY <1>0, <1>1, <2>1, <2>2, EvaluateGood DEF Types, BlTypes, WorldTypes, Transit
  <2>4. BlTypes' /\ WireTypes'
    BY <1>0, <2>2, <2>3 DEF Types, BlTypes, WireTypes, Transit, Links
  <2> QED
    BY <1>2, <2>3, <2>4 DEF Types
<1> QED
  BY <1>3, <1>4

LEMMA ListenerStep ==
    ASSUME Types, UNCHANGED <<world, am>>,
           CheckSilence \/ PumpStderr \/ LookupDone \/ LookupDies \/ AlbumTimeout
    PROVE  Types'
<1>0. UNCHANGED <<music, before, tap, inbox, link, lost>>
  BY DEF CheckSilence, PumpStderr, LookupDone, LookupDies, AlbumTimeout, wire
<1>1. WorldTypes' /\ TapInv'
  BY <1>0 DEF Types, WorldTypes, Plausible, TapInv, TapTypes, Fits, Heard
<1>2. ASSUME Good(bl'), bl'.src = bl.src, lookups' \in SUBSET Requests, lines' \in Seq(Lines)
      PROVE  Types'
  BY <1>0, <1>1, <1>2 DEF Types, BlTypes, Captures, WireTypes, Transit
<1>3. Good(bl) /\ lookups \in SUBSET Requests /\ lines \in Seq(Lines)
  BY DEF Types, BlTypes, WireTypes
<1>4. CASE CheckSilence
  <2>1. bl.src # NoSource /\ bl' = Silenced(bl) /\ UNCHANGED <<lines, lookups>>
    BY <1>4 DEF CheckSilence
  <2> QED
    BY <1>2, <1>3, <2>1, SilencedGood
<1>5. CASE PumpStderr
  <2>1. lines # <<>> /\ lines' = Tail(lines) /\ lookups' = lookups
    BY <1>5 DEF PumpStderr
  <2>2. lines' \in Seq(Lines)
    BY <1>3, <2>1, HeadTailProperties
  <2>3. bl' \in {[bl EXCEPT !.silentSince = TRUE],
                 Publish([bl EXCEPT !.silentSince = FALSE, !.silent = FALSE]),
                 [bl EXCEPT !.silentSince = FALSE]}
    BY <1>5, Zenon DEF PumpStderr
  <2>4. Good(bl') /\ bl'.src = bl.src
    BY <1>3, <2>3, LoudGood, Zenon
  <2> QED
    BY <1>2, <1>3, <2>1, <2>2, <2>4
<1>6. CASE LookupDone
  <2>1. PICK l \in lookups, found \in BOOLEAN :
            \E listed \in BOOLEAN :
               /\ lookups' = lookups \ {l}
               /\ bl' = Answer(IF listed THEN WithDisc(bl, l) ELSE bl, l, found)
    BY <1>6 DEF LookupDone, OriginalAlbum, Tracklist
  <2>2. PICK b : bl' = Answer(b, l, found) /\ b \in {WithDisc(bl, l), bl}
    BY <2>1, Zenon
  <2>3. l \in Requests /\ lookups' \in SUBSET Requests
    BY <1>3, <2>1
  <2>4. Good(b) /\ b.src = bl.src
    BY <1>3, <2>2, <2>3, WithDiscGood
  <2>5. Good(bl') /\ bl'.src = bl.src
    BY <2>2, <2>4, AnswerGood
  <2>6. lines' = lines
    BY <1>6 DEF LookupDone
  <2> QED
    BY <1>2, <1>3, <2>3, <2>5, <2>6
<1>7. CASE LookupDies
  BY <1>2, <1>3, <1>7 DEF LookupDies
<1>8. CASE AlbumTimeout
  <2>1. bl' = Publish([bl EXCEPT !.pending = FALSE]) /\ UNCHANGED <<lines, lookups>>
    BY <1>8 DEF AlbumTimeout
  <2>2. Good(bl') /\ bl'.src = bl.src
    BY <1>3, <2>1, EndsWaitGood
  <2> QED
    BY <1>2, <1>3, <2>1, <2>2
<1> QED
  BY <1>4, <1>5, <1>6, <1>7, <1>8

\* Redis refuses something, or takes it again.
LEMMA RedisStep ==
    ASSUME Types, Refuses \/ Recovers, UNCHANGED <<world, am>>
    PROVE  Types'
<1>0. UNCHANGED <<music, before, tap, inbox, lost, lines, lookups>>
  BY DEF Refuses, Recovers
<1>1. WorldTypes' /\ TapInv'
  BY <1>0 DEF Types, WorldTypes, Plausible, TapInv, TapTypes, Fits, Heard
<1>2. link' \in Links
  BY DEF Refuses, Recovers, Types, WireTypes, Transit, Links
<1>3. Good(bl') /\ bl'.src = bl.src
  <2>1. CASE bl' = bl
    BY <2>1 DEF Types
  <2>2. CASE bl' # bl
    <3>1. PICK r \in UnitSets : bl' = [bl EXCEPT !.refused = r]
      <4>1. \A fields \in SUBSET Sources \ {{}} : fields \in UnitSets
        BY DEF UnitSets
      <4>2. {} \in UnitSets
        BY DEF UnitSets
      <4>3. CASE Refuses
        BY <2>2, <4>1, <4>3, Zenon DEF Refuses
      <4>4. CASE Recovers
        BY <2>2, <4>2, <4>4, Zenon DEF Recovers
      <4> QED
        BY <4>3, <4>4
    <3> DEFINE x == [bl EXCEPT !.refused = r]
    <3>2. bl \in Listeners
      BY DEF Types, Good
    <3>3. /\ x \in Listeners /\ Alike(x, bl) /\ x.pending = bl.pending
          /\ x.recog = bl.recog /\ x.track = bl.track
      BY <3>2, Zenon DEF Listeners, Alike
    <3> HIDE DEF x
    <3>4. Blob(x) = Blob(bl)
      BY <3>3, Zenon DEF Blob
    <3>5. Good(x) /\ x.src = bl.src
      BY <3>3, <3>4 DEF Types, Good, Alike, Awaits, Current, Others
    <3> QED
      BY <3>1, <3>5 DEF x
  <2> QED
    BY <2>1, <2>2
<1> QED
  BY <1>0, <1>1, <1>2, <1>3 DEF Types, BlTypes, Captures, WireTypes, Transit

LEMMA EnvironmentStep ==
    ASSUME Types, Environment
    PROVE  Types'
<1>1. Playing' /\ tap'.on = tap.on
  BY EnvironmentTypes DEF Types, Playing, WireTypes
<1>2. UNCHANGED <<lines, bl, lookups>>
  BY DEF Environment, Starts, SongEnds, NextSong, Segue, ReportsNumber, Stops
<1> QED
  BY <1>1, <1>2 DEF Types, Playing, BlTypes, Captures, WireTypes

LEMMA InitTypes == Init => Types
<1> SUFFICES ASSUME Init PROVE Types
  OBVIOUS
<1> USE NoSongs
<1>1. WorldTypes
  <2>1. PICK s \in Scenarios : world = Silent(s)
    BY DEF Init
  <2>2. /\ s.changes \in Left /\ s.starts \in Nat /\ s.stops \in Nat /\ s.key \in Flags
        /\ s.units \in UnitSets
    BY RecognitionAssumption DEF Left, Flags, UnitSets
  <2>3. (CHOOSE d \in Discs : TRUE) \in Discs
    BY RecognitionAssumption
  <2> DEFINE d == CHOOSE d \in Discs : TRUE
  <2>4. world = [unit |-> NoSource, disc |-> d, n |-> 0, told |-> 0, open |-> FALSE,
                 changes |-> s.changes, starts |-> s.starts, stops |-> s.stops, key |-> s.key,
                 units |-> s.units]
    BY <2>1, Zenon DEF Silent
  <2> HIDE DEF d
  <2>5. d \in Discs
    BY <2>3 DEF d
  <2>6. /\ world \in Worlds /\ world.unit = NoSource /\ world.n = 0 /\ world.told = 0
        /\ world.changes = s.changes
    BY <2>2, <2>4, <2>5, WorldValues, Zenon DEF Worlds
  <2> QED
    BY <2>2, <2>6 DEF Init, WorldTypes, Plausible, Left
<1>2. TapInv
  BY NoTapTypes DEF Init, TapInv, TapTypes, Fits, Heard
<1>3. WireTypes
  <2>1. am = Am(NoSource, 0, FALSE, FALSE) /\ FALSE \in BOOLEAN /\ ~FALSE
    BY DEF Init
  <2>2. am \in Reported
    BY <2>1, WorldValues, MessageTypes, Zenon
  <2>3. inbox = <<>> /\ lines = <<>> /\ link = "up" /\ lost = FALSE
    BY DEF Init
  <2>4. inbox \in Seq(Messages) /\ lines \in Seq(Lines)
    BY <2>3
  <2>5. link \in Links /\ lost \in BOOLEAN
    BY <2>3 DEF Links
  <2> QED
    BY <2>2, <2>4, <2>5, Zenon DEF WireTypes, Transit
<1>4. Good(bl) /\ bl.src = NoSource
  <2> DEFINE o == [s \in Sources |-> Idle]
  <2>1. o \in Outs /\ \A s \in Sources : o[s] = Idle
    BY ListenerValues DEF Outs
  <2>2. bl = [src |-> NoSource, track |-> 0, recog |-> Nothing, pending |-> FALSE,
              silentSince |-> FALSE, silent |-> FALSE, disc |-> NoDisc, out |-> o,
              refused |-> {}, stale |-> {}]
    BY DEF Init, Asleep, NoTrack
  <2> HIDE DEF o
  <2>4. {} \in UnitSets
    BY DEF UnitSets
  <2>3. bl \in Listeners /\ bl.src = NoSource /\ bl.out = o /\ bl.pending = FALSE
    BY <2>1, <2>2, <2>4, ListenerValues, Zenon DEF Listeners
  <2> QED
    BY <2>1, <2>3 DEF Good, Awaits, Current, Others
<1>5. BlTypes
  BY <1>4, NoTapTypes DEF Init, BlTypes, Captures
<1> QED
  BY <1>1, <1>2, <1>3, <1>4, <1>5 DEF Types

LEMMA NextTypes == Types /\ [Next]_vars => Types'
<1> SUFFICES ASSUME Types, [Next]_vars PROVE Types'
  OBVIOUS
<1>1. CASE Environment
  BY <1>1, EnvironmentStep
<1>2. CASE Tap /\ UNCHANGED <<bl, lookups, world, am>>
  BY <1>2, TapStep
<1>3. CASE Receives(world.key) /\ UNCHANGED <<world, am>>
  BY <1>3, ReceivesStep
<1>4. CASE /\ CheckSilence \/ PumpStderr \/ LookupDone \/ LookupDies \/ AlbumTimeout
           /\ UNCHANGED <<world, am>>
  BY <1>4, ListenerStep
<1>5. CASE /\ ConnectionLost \/ Subscribes \/ ReadsState(am, world.key)
           /\ UNCHANGED <<world, am>>
  BY <1>5, LinkStep
<1>6. CASE (Refuses \/ Recovers) /\ UNCHANGED <<world, am>>
  BY <1>6, RedisStep
<1>7. CASE UNCHANGED vars
  BY <1>7 DEF vars, wire, Types, WorldTypes, Plausible, TapInv, TapTypes, Fits, Heard, BlTypes,
              Captures, WireTypes, Transit
<1> QED
  BY <1>1, <1>2, <1>3, <1>4, <1>5, <1>6, <1>7 DEF Next

LEMMA AlwaysTypes == Spec => []Types
BY InitTypes, NextTypes, PTL DEF Spec

(* What the listener keeps has its types; a recognizer runs exactly while it listens to a   *)
(* source, and the title whose album is awaited was heard.                                  *)
THEOREM TypeCorrect == Spec => []TypeOK
<1>1. Types => TypeOK
  <2> SUFFICES ASSUME Types PROVE TypeOK
    OBVIOUS
  <2>1. music \in Song /\ before \in Song /\ lookups \subseteq [song : Song, track : 0 .. 9]
    <3>1. \A l \in Requests : l \in [song : Song, track : 0 .. 9]
      BY NoSongs DEF Requests
    <3> QED
      BY <3>1 DEF Types, WorldTypes, BlTypes
  <2>2. /\ bl.src \in Sites /\ bl.track \in Numbers /\ bl.recog \in Recog
        /\ bl.pending \in Flags /\ bl.silent \in Flags /\ bl.silentSince \in Flags
        /\ bl.disc \in Units /\ bl.out \in Outs
        /\ bl.refused \in UnitSets /\ bl.stale \in UnitSets
    BY Zenon DEF Types, Good, Listeners
  <2>3. bl.disc \in [unit : Discs \union {"tape", "none"}, source : Sources \union {NoSource}]
    BY <2>2 DEF Units, NoDisc
  <2>4. bl.out \in [Sources -> [state : {"idle", "playing"}, song : Song, track : 0 .. 9,
                                album : {"none", "shazam", "original"}]]
    <3>1. \A x \in Shows : x \in [state : {"idle", "playing"}, song : Song, track : 0 .. 9,
                                  album : {"none", "shazam", "original"}]
      BY DEF Shows, Albums
    <3> QED
      BY <2>2, <3>1 DEF Outs
  <2>5. tap.due \in Dues /\ tap.candidate \in Song /\ tap.shown \in Song /\ tap.song \in Song
    BY Zenon DEF Types, TapInv, TapTypes, Taps
  <2>6. (tap.on <=> bl.src # NoSource) /\ (bl.pending => bl.recog.kind = "heard")
    BY DEF Types, BlTypes, Captures, Good, Awaits
  <2>7. link \in Links /\ lost \in BOOLEAN
    BY DEF Types, WireTypes, Transit
  <2>8. bl.refused \subseteq Sources /\ bl.stale \subseteq Sources
    BY <2>2 DEF UnitSets
  <2> QED
    BY <2>1, <2>2, <2>3, <2>4, <2>5, <2>6, <2>7, <2>8
    DEF TypeOK, Sites, Numbers, Flags, Dues, Links
<1> QED
  BY <1>1, AlwaysTypes, PTL

(* The hash shows what the listener believes, whatever comes late, is lost or comes in      *)
(* another order, of every source whose last write redis took: every handler that changes   *)
(* the title, the album, the number or the silence publishes.                               *)
THEOREM AlwaysShown == Spec => []ShownIsCurrent
<1>1. Types => ShownIsCurrent
  BY ListenerValues DEF Types, Good, Current, Others, ShownIsCurrent
<1> QED
  BY <1>1, AlwaysTypes, PTL

(* No answer to a request from an earlier track puts that track's song on display, though   *)
(* the check of the generation and the lock of on_result are taken one after the other.     *)
THEOREM ShownWasHeard == Spec => []OfThisTrack
<1>1. Types => OfThisTrack
  BY DEF Types, TapInv, Fits, Heard, OfThisTrack
<1> QED
  BY <1>1, AlwaysTypes, PTL
====
