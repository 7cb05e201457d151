# A TLA+ model of mdtv2-tools

mdtv2-tools connects a Raspberry Pi to Bang & Olufsen's MasterLink (ML) and
Datalink buses. This directory holds TLA+ modules that model its concurrent
parts, TLC configurations that check them on small instances, and proofs that
TLAPS checks for every instance. Paths below are relative to `src/`.

| Module | What it models | Runs |
| --- | --- | --- |
| `SourceCenter` | the source center role, its stream watchers and wake threads | `claims`, `wakes`, `requests`, `stops` |
| `AdcArbiter`, `AdcSharing` | what `core/adc.py` promises (abstract); how turntable and bus listener share the ADC (detailed) | `turns` |
| `LightHandler`, `AudioMaster` | the LIGHT channel with its timers; the audio master role around it | `master` |
| `Players`, `MultiSource`, `Turntable` | players on D-Bus and MPD; several of them behind one source; the record player | `players`, `switch` |
| `NowPlaying`, `HaNotifier`, `HomeView` | the now-playing publishers; ha-notifier; both between provider and Home Assistant | `home` |
| `Recognizer`, `Listener`, `Recognition` | the recognizer in the audio tap; the results of the bus listener; both under music that changes | `recognition` |
| `StateTracker` | the state-tracker daemon with the masters around it | `tracker` |
| `Broker`, `Gateway`, `GatewaySystem` | the serial framer and its threads; the MLGW emulation; both with bus, Home Assistant and web interface | `gateway` |
| `SourceCenterProofs`, `AdcSharingProofs`, `AudioMasterProofs`, `ProvidersProofs`, `HomeViewProofs`, `RecognitionProofs`, `StateTrackerProofs`, `GatewayProofs` | theorems | |

`MC*` modules hold scenarios and constants of the runs; `turns` and `home` need none.

Run `tlc -config MCSourceCenter_claims.cfg MCSourceCenter` and
`tlapm SourceCenterProofs.tla`; `PROJECT.json` lists every run, the mutant that
shows each property can fail, and the source lines behind each definition.

## 1. The system

Several processes on one Pi talk only through redis publish / subscribe and a
few redis keys:

```
 bus wires <-> MCU <-serial-> broker <-redis-> ml-source-bridge  (link:ml:*, link:dl80:*)
                                       |-----> state-tracker     (state:ml, link:ml:state)
                                       |-----> mlgw-emu, web     (link:ctl:restart)
 ml-source-bridge --state:nowplaying, link:ml:nowplaying--> ha-notifier --> Home Assistant
```

Publish / subscribe keeps nothing: who is not connected misses the message.

### Components, their state and what makes them correct

| Component | State | Operations | Hard parts | Correct when |
| --- | --- | --- | --- | --- |
| Source center role (`roles/source_center.py`, driven by `ml_source_bridge.py`) | granted sources, handshake times, one Event per wake; per provider a watcher's belief and stop counter | DIST_REQUEST, RELEASE, STANDBY, stream started / stopped, wake with retries, shutdown | main thread, a watcher per provider and a thread per wake share state without a lock; a handler lasts 1.4 s | grants follow the bus; one source plays; a release is obeyed; wakes end |
| Audio master role (`roles/audio_master.py`) | none of its own | requests, stream events | the same watchers | one source plays |
| ADC sharing (`core/adc.py`, `providers/turntable.py`, `core/ml_listen.py`) | a claim flag, a loopback process, a capture process, two locks | start / stop loopback, suspend / resume, evaluate, stop | processes take seconds to end, the locks do not cover it | one user at a time; the ADC is given back |
| Bus listener results (`core/ml_listen.py`) | recognition, identified disc, pending album, silence | recognised, track changed, album answer, timeout | lookups answer late | what is shown belongs to the present track |
| Lock manager (`core/lock_manager.py`) | who holds the key, a waiting acquire | acquire, release, KEY_TRANSFER, KEY_LOST, ... | timeout against answer | at most one holder believes so |
| Light handler (`core/light_handler.py`) | armed, timer | LIGHT, key, timeout | `Timer.cancel` races the timeout | a key acts only while armed |
| Multi-provider source (`providers/multi.py`) | active and last sub | play, pause, next, poll | index read by one thread, written by another | commands go to the sub that plays |
| Turntable on Datalink 80 (`providers/turntable.py`) | playing, graces, debounce | play, pause, status echoes | echoes race commands | belief converges to the deck |
| AirPlay, Sendspin, MPD (`providers/`) | debounce, mute event | play, pause, next | a swallowed pause | -- |
| Now playing (`core/nowplaying.py`) | last blob | publish, reset, idle | redis errors, shutdown joins | last publication = present state |
| Recognizer (`providers/phono_recognize.py`, `audio_tap.py`) | candidate, generation, schedule | audio, new track, result | a result about the previous track | no title survives its track |
| State tracker (`state-tracker/`) | am / vm slots, DL80, DL86, devices and sweeps | every telegram, sweep | lost telegrams, pongs | slots do not clobber each other |
| HA notifier (`ha-notifier/`) | last sent, pending, retry | offer, tick, send | debounce, retry, reconnect | converges to the last state |
| Broker (`broker/`) | framer buffer, last frame sent | serial bytes, redis messages | lost bytes, own echo | frames survive, echoes do not |
| MLGW emulator (`mlgw-emu/`) | sessions, queues, pacer, event synthesis, loaded devices | set-up, commands, feed, reload, restart | callbacks from threads, HA's own threads, restarts | HA learns the right addresses and hears of real events |
| Web interface (`web/`) | config and device files | save, restart request | requests side by side, nobody listening | what is saved comes into force |

`PROJECT.json` lists the hazards one by one, at the line where each bites.

## 2. SourceCenter

### State and actions

| Model | Code |
| --- | --- |
| `playing[s]` | `provider.is_playing()` of the provider with source byte `s` |
| `starting` | providers told to play whose backend does not stream yet |
| `granted` | `role._granted` |
| `acked[s]` | `role._wake_acks`: no Event yet, Event clear, Event set |
| `inbox` | telegrams for us that `listen_ml` has not yielded yet |
| `recent` | sources whose `_last_handshake_at` is under 2 s old |
| `mainPc`, `mainSrc`, `mainTodo` | where the handler of the main thread is |
| `watchPc`, `believes`, `streak`, `watchTodo` | one `_stream_watcher_factory` per source: `prev`, `stop_streak`, and the rest of `on_provider_event` |
| `wakePc`, `wakeSrc`, `attempt` | the `_wake_with_retries` threads |
| `am`, `tracker`, `air` | what the audio master plays, what `state:ml` says, our telegrams under way |
| `asked`, `begun` | history, read by properties only: the last telegram handled about a source was a DIST_REQUEST; streams that began while a handshake was under way |

A handler is cut into steps where it touches state other threads touch: each
look and pause of `pause_other_providers` is a step (`PauseIfPlaying`: who does
not stream at that moment is left alone), the handshake (only sends and sleeps)
is one, `play()` is one. The main thread's `Dispatch` takes the next
telegram only when the handler before it is done. Whether the duplicate window
is open is a choice of the environment (`WindowCloses`), as are all times.

A provider is an on / off stream behind two commands. `SelfStarting` providers
also start by themselves (a phone; somebody at the record player). A `Slow` one
streams some time after `play()`. A `Deaf` one may miss a play or a pause: the
turntable ignores a pause within two seconds of `play()`, AirPlay and Sendspin
drop a command that repeats within half a second, a D-Bus call may fail. After a
restart a provider may find its backend silent although it played: the loopback
of a turntable dies with the bridge.

The audio master and its user are an environment that may do anything a music
system does: select one of our sources (again), leave it for another or for
standby, ask for foreign sources, follow a wake or ignore it, obey a RELEASE.
Next and previous, answers to MASTER_PRESENT and the metadata texts change none
of this state and are left out.

### Runs

| Run | Instance | Shows |
| --- | --- | --- |
| `claims` | 2 providers, one self-starting, one deaf, with crash, shutdown and reconnect, no wakes; 3 million states | `TypeOK`; `GrantSound`: a granted source was asked for last; `ClaimIsGranted`: a claim in progress cannot lose its grant; `SilencedFirst`: when the claim goes out, every other stream is one that began meanwhile, or a deaf backend's |
| `wakes` | 1 source, self-starting and slow, 1 wake thread, state tracker, fair; 300 000 states | `WakeEnds`: a wake thread ends in every interleaving with claims; `ReleaseObeyed`: a RELEASE behind a handshake is obeyed, also when its play is still on its way |

Two runs must fail, and show where the code does not do what its comments say.

* `requests` checks `OneSourceAtATime` with two backends that obey every command
  and start nothing on their own, but are slow. `dispatcher.py:64`: "we can never
  have two providers streaming simultaneously". A DIST_REQUEST that waits behind
  the handshake of another source finds that one not streaming yet, skips its
  pause (`dispatcher.py:76`), and both stream.
* `stops` checks `StopsDeadSourceOnly`. The comment at `source_center.py:421`
  says the system is stopped "rather than sit on a dead source"; in the model the
  user changes from one of our sources to the other, the first is paused by
  `pause_other_providers`, its watcher counts five polls and stops the audio
  master, which plays the other source by then.

### Bounds

`Wakers`, `MaxInbox`, `StopPolls`, `MaxAttempts` and the sets of sources are
constants; a run fixes them, the proofs do not. Two sources suffice for the
safety properties, which speak of a source and one other; the code treats all
others alike, in a loop. `MaxInbox` 1 means that a telegram may wait behind the
one being handled, such as a RELEASE behind a claim, and that the STANDBY /
DIST_REQUEST pair of a change from one of our sources to the other is queued
whole, in both orders; what comes behind it the environment delivers later;
`requests` needs two waiting. `StandbyOnStop` is empty in the passing runs: it
adds a telegram to the audio master, and the proofs cover it for any set.
`StopPolls` is 5 in the code and in `stops`; elsewhere 1, where the end of a
stream is seen at the first silent poll: nothing those runs check counts polls.
`MaxAttempts` 2 (3 in the code) has a first, a repeated and a last attempt. When all `Wakers`
are busy a watcher waits, which a real one would not; the wake runs have one
source, whose watcher starts a second wake only after a stop and a start, and
two wakes of one source share their Event: this is not covered.

### Fairness

Only threads of the bridge are fair: the main thread's handlers do not block
beyond their sleeps, a watcher polls every second (`core/bus.py`, `Periodic`), a
wake thread waits with a timeout. Nothing is assumed of the bus, the user, the
backends or the tracker; `WindowCloses` is not fair, so the liveness properties
do not rest on the window either. The weak fairness of `MainStep` lets queued
telegrams be taken whatever else happens.

### Proofs (`SourceCenterProofs`)

All theorems hold for every set of sources, any number of wake threads and all
bounds, from `SourcesAssumption` (the two special source bytes and the two
special states of the master are distinct from our sources) and
`BoundsAssumption`.

* `TypeCorrect`: `Spec => []TypeOK`, action by action.
* `GrantsAreSound`, `ClaimsAreGranted`: `GrantInv`, their conjunction, is
  inductive given `TypeOK`. `GrantSound` needs no strengthening, since
  `_granted` and `asked` are only written by the main thread; `ClaimIsGranted`
  holds because no telegram is taken during a handler.
* `OthersAreSilent`: `[]SilencedFirst`, for any number of providers. Its
  strengthening `SilenceInv` speaks of the whole handler: a provider it has
  looked at is silent, or deaf, or its stream began after the request was taken.
  The watchers only pause, and `play()` comes after the telegrams (`QuietStep`,
  `PauseSilences`).

Liveness (`WakeEnds`, `ReleaseObeyed`) is model-checked only: TLAPS does not
reason about fairness.

## 3. AdcSharing and AdcArbiter

The Pi's ADC has one capture device. The turntable loops it to the DAC, the bus
listener records from it to recognise the music of other sources. `core/adc.py`
promises that only one process records at a time and that the turntable has
priority. `AdcArbiter` states what `suspend` and `resume` promise with two
variables: whether the listener records, and whether it has been told to leave
the ADC to the turntable. `AdcSharing` models the code.

| Model | Code |
| --- | --- |
| `pc[c]` | where thread `c` is in `_start_audio` ("suspend", "popen", "restore") or `_stop_audio` ("kill", "unflag", "resume") |
| `victim[c]`, `proc`, `alive` | the process `c` is killing, `turntable._proc`, the loopbacks that run |
| `flag`, `suspended` | `adc._turntable`, `listener._suspended` |
| `lpc`, `want` | the listener's thread in `_run`; `wanted(self._am)` |
| `rec`, `src`, `backoff` | `_rec` / `_tap` (none, up, or ended unexpectedly), `_src`, `_retry_at` ahead |
| `shown[s]` | the `state` the listener last wrote to `state:nowplaying` |
| `ending` | how far `BusListener.stop()` is |
| `overtaken`, `lost` | history: a start has overtaken a stop of another thread; sources whose last news was not written (redis refused it, or the capture died) |

The turntable's lock is held in the first three labels, the listener's lock in
`lpc = "starting"` and, at once taken and released, in every other step that
starts, stops or suspends. Killing a process is one step; that it takes up to
two seconds is the time other threads have before the next label. `Callers` are
the threads that start and stop the loopback; only `Players` among them start
it, as the snoop thread and the watchers only stop it. Processes may fail to
start or end by themselves (`Dies`), redis may refuse a write (`Refuses`), which
`_write` logs and nobody repeats. What is recognised is not modelled.

Run `turns`: two calling threads, one of which only stops, two sources, captures
that die and refused writes, fair; 217 000 states.

* `OneRecorderUnlessOvertaken`: two processes record only after a start has
  overtaken a stop, which runs without the lock.
* `OnlyWantedShown`: after an evaluation only the wanted source is shown as
  playing, but for news the code does not repeat.
* `ImplementsArbiter`: the refinement, in every interleaving, overtaking included.
* `AdcReturned`: a turntable at rest has given the ADC back.
* `CallersReturn`: no deadlock of the two locks; `ListenerReturns`: the listener
  comes back or keeps trying.

Processes are bounded by `Procs`, one more than the threads, so that a launch is
never held up. Two sources show "another one takes over".

Fairness: threads run on and the backoff passes. `CallerStep` is strongly fair:
`threading.Lock` promises no order, but the listener's thread holds its lock
only briefly and then waits up to a second for a message, so a waiting thread
does get it. Launches and captures may fail for ever.

Proved in `AdcSharingProofs`, for any sets of threads, processes and sources and
without a further hypothesis: `TypeCorrect`; `TurntableReturnsAdc`:
`[]AdcReturned`, with `ClaimInv` (a claim is backed by a loopback or by a thread
that will take it back); `ArbiterImplemented`: `Spec => ImplementsArbiter`, from
`SuspendInv` (a suspended listener has no capture, and one about to start is not
suspended); `OneUser`: `[]OneRecorderUnlessOvertaken`, from `SuspendInv` and
`TurnInv` (until a start overtakes a stop, one thread is at work at a time, and
each of its labels says which loopback may be alive); `WantedShown`:
`[]OnlyWantedShown`, by `ShownInv` (a source whose last news was written is shown
as playing only while it is captured, and a capture between two evaluations is
that of the wanted source).

The two liveness properties are model-checked only.


## 4. AudioMaster and LightHandler

The bridge as audio master: it owns the room, tunes the loudspeakers to a source
with a virtual Beo4 key and lets only one provider play. `LightHandler` is
`core/light_handler.py`, which follows every telegram beside the role.

| Model | Code |
| --- | --- |
| `mainPc`, `mainSrc`, `mainTodo` | where `_handle_goto_source` and the pausing loops of `roles/audio_master.py` are |
| `watchPc`, `believes`, `streak`, `watchTodo` | `_stream_watcher_factory`: `prev`, `stop_streak` (0, below the limit, at it), and what is left of `on_provider_event` |
| `air`, `inbox`, `room` | our keys on the bus, telegrams for us, what the loudspeakers are tuned to |
| `channel`, `timer`, `timers` | `_state`, `_timer`, and each timer thread: waiting, or fired and not yet in `_on_local_timeout` |

`Cancelled` leaves a timer alone that has fired already, as `Timer.cancel` does.
A user tunes the room, releases it, or goes elsewhere; streams start and end on
their own; players may ignore a play or a pause (they swallow errors and drop a
command that repeats too soon), and `refused` remembers those told to play in
vain. Run `master`: two providers and three timers; the user's operations are
bounded to 2, stream starts to 3, keys to 4, in the four scenarios of
`MCAudioMaster`, one with a provider that has no Beo4 key and so cannot wake, and
two in which telegrams may be later than the stop debounce.

* `NoDeadAir`: once all is handled, the room is not tuned to a source whose
  stream has ended; the stop may overtake the key that tuned the room to it. A
  source that was told to play and did not is excepted: nothing in the code
  notices it.
* `Settles`: two streams that start together pause each other, wake the room to
  both and are paused by its answers; this comes to rest if no telegram takes
  longer than the five polls.
* `LightCloses`: the LIGHT channel closes, although the timeout of the bus may
  be lost and an old timer may fire after a newer LIGHT.

Fair: the main thread, the watchers (they poll once a second), the timers, the
delivery of our keys. Timing: in the scenarios that are not `late` a telegram is
handled before the seconds of the stop debounce have passed (`SecondsPass`).

Proved in `AudioMasterProofs`, for any providers, scenarios and bounds:

* `TypeCorrect`: `[]TypeOK`, with the types of what waits in `inbox` and `air`.
* `NoDeadAirHolds`: `[]NoDeadAir`. `Kept` speaks of a room that is tuned to a
  provider while none of our keys is on its way to it: the last telegram waiting
  that can touch a source starts that provider; if only keys wait, the handler is
  starting it; and if the handler is done, it plays or was told to in vain, its
  watcher has yet to notice or to say that it ended, or another watcher is about
  to wake the room. No bound on the delay of a telegram is needed.

## 5. Players, MultiSource and Turntable

`Players` is what AirPlay, Sendspin and MPD share: a command is dropped when it
repeats within half a second (`cooling`), is sent over D-Bus to a cached name,
repeated once under a newly looked-up one, and may fail. `MultiSource` is
`providers/multi.py`: `active` and `last` are `_active_idx` and `_last_idx`; a
sweep of `is_playing` asks one sub per step, so that the wrapper's poll thread
and the bridge's stream watcher, which share no lock, overlap, as does the main
thread with play, pause and skips.

`Turntable` is the Datalink part of `providers/turntable.py`: `deck` is the
platter, `rx` what is on its way to the snoop thread, `playing` is `_playing`,
`fresh` and `grace` the two graces, `sent` the transport debounce, `proc` and
`title` the loopback and `_recognized`, `heard` a title that the snoop thread has
checked and not yet written. `bus` and `snoop` say where the two threads are:
publishing an opcode, setting the belief and starting the grace are steps of
their own, as are the check of `_proc` and the write of a title. The deck reports
what it does late, and reports coasting as playing; redis may refuse a
publication, the first message of a new recognizer included.

Run `players` (module `MCProviders`, which moves one of the two at a time, since
they share no state): two subs, one of them a Sendspin daemon that restarts under
another bus name, two sweepers and the bus thread, with three actions of people,
or two and one lost call; then the turntable with five operations and two
refusals. 1.1 million states.

* `SettlesOnOne`: in the end at most one sub plays, and it is the active one.
* `FollowsDeck`: the bridge believes of the deck what it does, unless the deck's
  last word fell into the grace after our own stop, or between a command of ours
  and the assignments behind it (`hidden`).
* `TitleOfThisSession`: no record keeps the title of the one before it, unless
  the new recognizer's first message was refused and it has found nothing yet
  (`mute`).

Run `switch` must fail: `multi.py:186` says that a new sub becomes active and
the old one is paused. Two sweeps that both saw old and new play end with both
paused: the second holds answers from before the pause and an `_active_idx` from
after it, and takes the old sub for the newcomer.

Fair: the threads, and the passing of graces and debounces. Timing: the echo of
our own stop arrives before its grace ends.

Proved in `ProvidersProofs`, for any players in any order, any sweepers and bounds:
`MultiTypeCorrect`, `[]MultiTypeOK`: a sweep never asks for a sub beyond the last,
the active and the last sub are configured ones; and `DeckTypeCorrect`,
`[]TurntableTypeOK`: a title, also one between check and write, belongs to a
loopback whose recognizer has begun. `Sweeps` adds that a sweep that reads has a
sub left and that one that pauses has somebody on its list; `DeckTypes` what the
snoop thread can receive.
`OrderAssumption` says that the subs are configured once each. The newcomers of a
sweep are a recursive function; `NewcomersArePlayers` finds it defined and typed by
induction, which `SetInduction` states for sets of numbers, from the well-founded
order of the library.

## 6. NowPlaying, HaNotifier and HomeView

`NowPlaying` writes `state:nowplaying` and announces each write; `HaNotifier`
follows both and posts to Home Assistant. `HomeView` instantiates the two and
lets them share `stored` (the hash) and `inbox` (the channel).

| Model | Code |
| --- | --- |
| `pub[s]` | the publisher thread of a source: poll, HSET, PUBLISH, sleep; `blob` in hand; `last` = `last["blob"]` |
| `main`, `mainTodo`, `mainHas` | shutdown: join of each publisher (at most two seconds), then its idle view, in two writes |
| `link` | subscribed, then HGETALL read |
| `slots[s]` | `Notifier.slots`: `sent`, `pending`, `due`, `playing`; the clock counts down `due` |
| `ticking` | sources the present `tick()` has still to look at |
| `ha[s]` | what Home Assistant accepted last |
| `said` | history: sources whose last announcement carried what the hash holds |

Run `home`: one source with two titles, three changes or starts, one fault of
the bridge (a redis error in either write, a kill) and one trouble of the
notifier (a POST that fails with or without effect, a lost connection, a
restart; Home Assistant may forget). Sources are independent in both daemons. A
poll may outlast the join, which waits two seconds while a poll makes several
D-Bus calls of two seconds each; and a join may raise (`bus.py:186` hides a method
of `threading.Thread` that `join` calls before Python 3.13), which ends the
shutdown without idle views.

* `NothingLost`: connected and with nothing unread, a slot ends in the view that
  the hash holds, if that view was announced after it was stored (`said`). It
  depends on subscribing before reading the hash and on storing before announcing.
* `SentIsHeld`: what counts as sent is what Home Assistant holds, or it forgot.
* `HaFollows`: in the end it shows what the provider presents. Left out: half a
  write that the backend undoes before the next poll (known deviations).

Fair: publishers, shutdown, the notifier's loop and its clock. `Debounce`,
`IdleDebounce` and `Retry` are 0, 1 and 1: an idle view waits longer than another.
`Keepalive` is on; without it nothing tells a Home Assistant that forgot.

Proved in `HomeViewProofs`, for any sources, titles, delays and bounds
(`HomeAssumption`: the sign for "nothing" is none of the values, bounds are
numbers):

* `TypeCorrect`: `[]TypeOK`.
* `SentIsNeverStale`: `[]SentIsHeld`. `HeldInv` adds that slots keep their four
  fields; a step changes one slot and posts, or changes all and leaves `sent`.
* `NothingIsLost`: `[]NothingLost`. `Told` says of a source in `said` that for a
  subscriber the last of its changes unread is the hash's view, and if none is
  unread, that its slot ends there. A writer that overtakes another between HSET
  and PUBLISH (the shutdown a slow publisher, or the other way round) takes the
  source out of `said` until the next announcement; an HSET always does.

## 7. Recognizer, Listener and Recognition

`Recognizer` is the recognition inside the tap (`providers/audio_tap.py`,
`providers/phono_recognize.py`), `Listener` what the bus listener makes of it
(`core/ml_listen.py`), `Recognition` the music around both.

| Model | Code |
| --- | --- |
| `tap.due`, `candidate`, `shown`, `misses`, `retry`, `acTried`, `via` | `_next_at`, the confirmation state and the schedule of `RecognitionPolicy` |
| `tap.fresh` | the attempt under way carries the present generation |
| `tap.inGap`, `signal`, `armed`, `head` | gap detector, SIGUSR1, the head collected for AcoustID |
| `tap.heard` | history: songs since the present track began |
| `inbox`, `lines` | redis messages, and log lines of the tap, for the listener |
| `link` | the listener's subscription: down, subscribed and not yet read, up; or redis refuses everybody |
| `am` | `state:ml`, read after a reconnect |
| `bl` | source, track number, `_recog`, pending album, silence, identified disc, and the hash it wrote |
| `bl.stale`, `lost` | history: sources whose last write redis refused; the recognizer's last message did not arrive |
| `lookups` | MusicBrainz threads under way |

What is heard is a choice of the present song, the one before while the window
still holds some of it, or no match. The listener's handlers are one step each;
they run under its lock.

Redis may refuse a write of the listener or a publication of the recognizer, which
both log and do not repeat, and the listener may lose its connection, with the
messages of the two seconds and more until it has subscribed again and read
`state:ml`.

Run `recognition`: a numbered disc whose song changes with and without a gap; a
tape with AcoustID and one failure; discs and sources that change; a failure
while a disc is played again, and while a source takes over. A failure is a
failed request, a dying thread, a refusal of redis or a lost connection. 430 000
states.

* `ShownIsCurrent`: the hash shows what the listener believes, and a source that
  is not listened to is idle there, but for those whose last write redis refused.
  Every path that changes a belief must end in a write.
* `OfThisTrack`: what the recognizer shows was heard since the track began. An
  attempt of the previous generation may slip past the check, which is not under
  the lock of `on_result`; the second match it needs saves it.
* `RightInTheEnd`: the song that plays has its title in the end, whatever was
  predicted wrongly, came late or was lost on the way, unless the recognizer's
  last message or the listener's last write was. An AcoustID title stays for the
  track.

Fair: songs follow, windows fill, threads run, lookups and the album timer end,
redis takes what it refused, and a lost subscription is renewed.
Timing: messages and log lines arrive long before the ten seconds of a window
(`Calm`); when the next window is due the album wait is over and at most one
lookup is under way; only one window after a change holds both songs.

Proved in `RecognitionProofs`, for any songs and discs, budgets and bounds
(`RecognitionAssumption`: the two sources are a numbered disc and a tape, the
signs for "none" are no songs and no discs):

* `TypeCorrect`: `[]TypeOK`.
* `AlwaysShown`: `[]ShownIsCurrent`. `Current` is inductive with the listener's
  types: apart from stale sources, a silent one and those not listened to are idle
  in the hash, the one listened to is what `Blob` makes of the belief, and until an
  awaited album has come or its time is over the hash may lag behind. `WriteGood`:
  a write that redis takes makes its source current, one it refuses makes it stale.
* `ShownWasHeard`: `[]OfThisTrack`. `Fits`: what is shown, and what an attempt of
  the present generation holds, was heard since the track began; an attempt whose
  result is about the previous track finds no candidate and nothing shown, so it
  can only become a candidate, and needs a second match.

## 8. StateTracker

`am`, `vm` and `key` are `MLState` and `state:ml`; `dl` stands for both Datalink
views; `devs`, `dirty`, `devKey` are `DeviceInventory` and its key, published in
three steps (take the mark, read, SET) by the listen loop and by sweeps; `gate`
is `sweep_gate`; `query` counts the attempts of `_startup_query`. The masters
are an environment that follows the captures in the comments of `MLState`: late
RELEASEs, standbys without a source, a VM that names its base source.

Run `tracker`: two audio and two video sources, one link room, two sweep
threads, two query attempts, three unread messages, in the scenarios of
`MCStateTracker`.

* `SlotsFollow`: each slot holds what its master does, whatever the other master
  and old sessions say, unless something was lost since.
* `OneSweep`, `SweepsEnd`: sweeps do not overlap, and the gate comes back also
  when redis fails.
* `NoPhantoms`: our probes, sent under the name of a master, invent no device.
* `NoRefire`: repeated frames and doubled bytes are not published as news.
* `StartupFills`: in the middle of a session the query fills the slot although
  an answer may be lost.

`left.lost` is at most 1 and `Attempts` 2 (5 in the code): an answer may be
lost, not all of them. Fair: the listen loop, sweeps and query.

Proved in `StateTrackerProofs`, for any sets and bounds:

* `SweepsAreSingle`: `[]OneSweep`. `SweepInv` says that a thread between its
  entry and its departure is the holder of the gate.
* `PhantomFree`: `[]NoPhantoms`. `DeviceInv`: inventory, key and what a thread
  holds in its hand name present devices only. It needs `StateInv`: whatever is
  unread or in the handler's hands comes from a device of the bus or is of a
  kind the inventory does not look at, such as our own probes.
* `TypeCorrect`: `[]TypeOK`, from the same invariants and the counters' bounds.
* `RepeatsAreQuiet`: `Spec => NoRefire`. `PublishedInv`: a view equals its key
  unless it is about to be published, or a publication of this view has failed
  (`missed`, a set of views).

* `MastersFollowed`: `[]SlotsFollow`. `FollowInv` looks ahead: of each master
  that has told us of its source, the telegrams in hand and unread, applied one
  after the other, lead from the slot to what the master plays now (`Leads`, a
  sequence of slots, each the `Effect` of a telegram on the one before). Whatever
  a master says keeps this true, in any order with the other's telegrams: a late
  RELEASE of an old source has no effect on a newer one, and a VM that names its
  base source clears a slot of its own only.

The assumptions name the places apart that the code tells apart by address
ranges: listener, masters, link rooms and the query address.

## 9. Broker, Gateway and GatewaySystem

`Broker` is the framer byte by byte with both threads of the broker, `Gateway`
the MLGW emulation, `GatewaySystem` adds devices, the line, Home Assistant and
the web interface.

| Model | Code |
| --- | --- |
| `uart`, `framer` | unread bytes; state, channel, length and payload of `Framer` |
| `lastSent`, `tx`, `rx` | last telegram sent, for the echo check; the redis channels |
| `proc` | the process: running, idle, restarting; settings and devices as loaded; `kept`: a reload failed and the old devices stay |
| `loop` | callbacks that threads gave to the event loop |
| `pacer`, `logs`, `api` | the paced ML log, its telnet sessions, the protocol sessions |
| `onSource` | the synthesizer's last source of each device |
| `ctl`, `file`, `conf` | restart requests, device file, `[mlgw]` settings |
| `saving[w]` | the rest of a save of `web/mdt_web.py`: writes, then requests |

A device may have no address (`NoAddress`): a command for it is dropped without a
word (`mlgw_emu.py:335`). `ha.mixed` is history: the answers in Home Assistant's
log are no longer those to its commands alone, or not to all of them.

A CRC is the content it was computed from, so it is free of collisions. Any
`MaxPayload` up to 255 is allowed; the run has 8 (128 in the code) and lets the
line drop a byte or turn it into an address, a sync byte or a legal length.

Run `gateway`: two connections of Home Assistant, two savers and the scenarios
of `MCGateway`; 930 000 states. The telegrams include virtual keys of a real MLGW,
which sends from the same address; set-ups may come while commands are queued;
one of the two device files lacks an address; a file may be unreadable.

* `StandbyIsReal`: Home Assistant hears of no more all-standbys than devices
  sent; neither our own RELEASE to all nor a damaged frame counts.
* `LearnsRight`: it matches answers to its commands by order only; they come in
  that order, also when it is set up twice, which is what the pacer and the
  closing of older sessions are for. After a set-up that found commands of the old
  instance queued, a command to a device without an address, or a virtual key of
  a real MLGW in the log (`mixed`), they need not (known deviations).
* `ConfigFollows`: what was saved last is in force in the end, whatever saves
  run side by side, unless a request found nobody subscribed, or the file could
  not be read and the old devices are kept.

Fair: the gateway's threads, the broker, the pacer's gap, savers. Timing: lines
are handled within the pacer's gap (`Quiet`), and a set-up of Home Assistant
takes longer than one line of the log. Bounds: one telegram of a device at a
time, none before Home Assistant is connected.

Proved in `GatewayProofs`, for any telegrams, noise, sessions, savers, device
files, settings and scenarios. `GatewayAssumption`: sessions are numbers; there
is a device file, device files are sequences of numbers, and telegrams sequences
of three numbers or more; the bridge on the same Pi sends no virtual keys under
the gateway's address; noise replaces a byte on the line by another byte, never by
a checksum that fits; scenarios only name settings there are.

* `StandbysAreReal`: `[]StandbyIsReal`. `Counted`: all-standbys that Home Assistant
  heard of, and those under way, are no more than devices sent. Under way are the
  last bytes of their frames on the line, the telegrams the broker published, the
  calls on the gateway's loop and the events in the present session's queue; each
  step moves one of them on or drops it. Own telegrams are of another kind at each
  stage, and two frames whose checksums agree are the same.
* `LearnsInOrder`: `[]LearnsRight`. `Answered`: the session is `mixed`, which
  lasts until the next set-up, or `Paced` and `Ordered` hold. `Paced`: at most one
  command is under way from the pacer to the thread that reads its line of the
  log, only while the pacer's gap is open, and it is the next one that waits for an
  answer; nothing is under way or queued when the log is not online. `Ordered`:
  what was learned, what is under way and what is queued are together, in this
  order, what was asked. `Current`: sessions but the latest have no log.

Both rest on `Types`, which says what each queue can hold.

## 10. Known deviations

Behaviours the models show, or that the code has beside them. The runs `requests`,
`stops` and `switch` show three more; those below are each left out of a property
by a named history variable or lie outside the modelled part.

* `source_center.py:620`: a wake thread clears its Event after the decision to
  wake; a grant in between is forgotten and the source woken once more.
* `source_center.py:233`: a DIST_REQUEST within two seconds of the last is a
  duplicate even if a RELEASE came between.
* `ml_source_bridge.py:323`, `:356`, `:396`: a pause shorter than the debounce is no end,
  so two streams may be one; the RELEASE of a stream that ended can fall into
  another source's handshake.
* `dispatcher.py:68` says the rule of one source is also enforced when a backend
  starts on its own. A stream that is paused for another and starts again within
  the watcher's five silent polls raises no `stream_started`
  (`ml_source_bridge.py:352`): both go on.
* `turntable.py:475`: a stop can be overtaken by a start of another thread, whose
  claim it then takes back: two processes record, although "the turntable has
  priority" (`adc.py:9`). `AdcSharing.overtaken` marks it.
* `turntable.py:251`: a stop within two seconds of play leaves the deck on, also
  at shutdown.
* `turntable.py:341`: a PLAY pressed on the deck within three seconds of our stop
  is taken for coasting, and nobody asks the deck again; `:256`: a "playing" handled
  between the publish of a stop and the two assignments behind it leaves `_playing`
  set over a deck at rest (`Turntable.hidden`). `:373`: a result of the session
  before, written once the next loopback runs, is its title if redis also refuses
  the new recognizer's first message (`mute`).
* `ml_listen.py:239`: a capture that died and whose source stops before the
  backoff ends leaves the source "playing"; so does a refused "idle" (`:431`), against
  `:36` ("idle when the source stops"). `AdcSharing.lost`, `bl.stale`.
* `ml_listen.py:166`: `stop()` does not wait for the thread.
* `phono_recognize.py:333`, `ml_listen.py:564`: a confirmed title that redis refuses,
  or that is published while the listener reconnects, is not said again for the rest
  of the track (`Recognition.lost`).
* `audio_master.py`: a room woken to a source whose player ignores the play stays
  silent (`AudioMaster.refused`).
* `ml_listen.py:437`, `:493`, `phono_recognize.py:236`, `:273`: late results of
  the previous track, `_disc` set late, a schedule set without a look at the
  generation.
* `multi.py:108`, `:166`: `_active_idx` is read twice.
* `nowplaying.py:85`: half a write is not repeated when the backend returns to
  what was announced last.
* `ml_source_bridge.py:780`: the idle views are written "after the joins, so a
  publisher thread still finishing its last poll can't overwrite the idle state",
  but a join ends after two seconds, and a longer poll stores its view after the idle
  one. `bus.py:186`: `Periodic._stop` hides a method of `threading.Thread` that
  `join` calls before Python 3.13; `install.sh:80` accepts 3.11, where the joins at
  `ml_source_bridge.py:779` raise once the thread has ended, and the idle views are
  not written.
* `state_tracker.py:748`: of two snapshots of the inventory the older may be
  stored last; the next change repairs it.
* `broker/mdtv2-broker.py:396`: an error of the serial port ends the thread that
  sends. `:119`: after a corrupted length the next frames are swallowed.
* `mlgw_emu.py:482`: a restart request that comes while nobody is subscribed is
  lost.
* `mlgw_emu.py:449`: a login closes the older sessions of its host but does not
  clear the pacer; a command of the old instance still queued is answered in the
  new one's log. `:335`: a device without an address is never answered for. `:171`:
  beside a real MLGW, for which `listen_only` is there (`:25`), a virtual key it sends
  looks like an answer. In each case devices get each other's addresses (`ha.mixed`).

## 11. What is not modelled

* Lock manager: nothing calls `acquire`, so its state never leaves IDLE.
  `_send_wake` and the topology behind it are unused.
* Encoding of telegrams, signal processing, logging: no state.
* Source center: metadata bursts and their pump (what a receiver does with two
  interleaved ones is not in this repository), MASTER_PRESENT.
* Players: metadata caches and covers; the mute of the DAC during an AirPlay
  skip. Turntable: `stop()`, statuses lost while the snoop is not subscribed.
* HA notifier: covers, restart on a changed configuration.
* Broker: serial errors, PONG and log frames. Gateway: refused logins, serial
  number, status key, clients that lag by 1000 lines, reconnects of the feed.
* Web interface: HTTP, login, text of the configuration, backups, status.
* Debug tools, installation scripts, firmware and Home Assistant files are no
  part of the running system.

Every invariant and action property of a passing run is a theorem, from the named
assumptions on constants alone.

Model-checked only are the properties that rest on fairness or speak of what holds
in the end: `WakeEnds`, `ReleaseObeyed`, `CallersReturn`, `ListenerReturns`,
`Settles`, `LightCloses`, `SettlesOnOne`, `FollowsDeck`, `TitleOfThisSession`,
`HaFollows`, `RightInTheEnd`, `SweepsEnd`, `StartupFills`, `ConfigFollows`; TLAPS
does not reason about fairness.
