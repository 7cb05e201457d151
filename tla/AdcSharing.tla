----------------------------- MODULE AdcSharing -----------------------------
(***************************************************************************)
(* How the turntable provider (providers/turntable.py) and the bus         *)
(* listener (core/ml_listen.py) share the ADC by way of core/adc.py.       *)
(*                                                                         *)
(*   - Callers are the threads of the bridge that start and stop the       *)
(*     loopback of the turntable: the main thread (play, pause), the       *)
(*     stream watchers of other sources (pause), the DL'80 snoop thread    *)
(*     (_stop_audio when the deck reports that it stopped).                *)
(*   - The listener thread evaluates every state of the audio master it    *)
(*     receives, and at least once a second, and starts or stops its       *)
(*     capture.                                                            *)
(*                                                                         *)
(* Two locks are involved.  A caller holds the turntable's _lock from      *)
(* "suspend" to the end of _start_audio, but not while _stop_audio kills   *)
(* the loopback.  Whoever starts or stops the capture holds the listener's *)
(* _lock; it is kept over more than one step only while the capture is     *)
(* being started.                                                          *)
(***************************************************************************)
EXTENDS Naturals

CONSTANTS
    Callers,     \* threads that call into the turntable
    Players,     \* those that may start the loopback
    Procs,       \* bound: loopback processes
    Srcs,        \* sources the listener may listen to
    NoProc, NoSrc,
    Dies,        \* whether a capture may end unexpectedly
    Refuses      \* whether redis may refuse a write

ASSUME AdcAssumption ==
    /\ Players \subseteq Callers
    /\ NoProc \notin Procs
    /\ NoSrc \notin Srcs
    /\ Dies \in BOOLEAN
    /\ Refuses \in BOOLEAN

VARIABLES
    \* -- turntable
    pc, victim,  \* per caller: where it is, and the loopback it is killing
    proc,        \* turntable._proc
    alive,       \* the loopback processes that run
    flag,        \* adc._turntable
    overtaken,   \* history: a start has overtaken a stop
    \* -- bus listener
    lpc,         \* its thread
    want,        \* wanted(self._am): the source to listen to
    suspended,   \* _suspended
    rec, src,    \* _rec (with _tap) and _src
    backoff,     \* _retry_at lies ahead
    shown,       \* state:nowplaying, as the listener wrote it
    lost,        \* history: the sources whose last news was not written there
    ending       \* how far stop() has got, at the end of the bridge

turntableVars == <<pc, victim, proc, alive, flag, overtaken>>
captureVars   == <<rec, src, shown, lost>>
listenerVars  == <<lpc, want, suspended, captureVars, backoff>>
vars == <<turntableVars, listenerVars, ending>>

Init ==
    /\ pc = [c \in Callers |-> "idle"]
    /\ victim = [c \in Callers |-> NoProc]
    /\ proc = NoProc /\ alive = {} /\ flag = FALSE /\ overtaken = FALSE
    /\ lpc = "loop" /\ want = NoSrc
    /\ suspended = FALSE
    /\ rec = "none" /\ src = NoSrc
    /\ backoff = FALSE
    /\ shown = [s \in Srcs |-> "idle"] /\ lost = {}
    /\ ending = "no"

TurntableLocked == \E c \in Callers : pc[c] \in {"suspend", "popen", "restore"}
ListenerLocked  == lpc = "starting"

Goto(c, label) == pc' = [pc EXCEPT ![c] = label]

\* listener._write: an error of redis is logged, and that is all.
Write(s, state) ==
    \/ shown' = [shown EXCEPT ![s] = state] /\ lost' = lost \ {s}
    \/ Refuses /\ UNCHANGED shown /\ lost' = lost \cup {s}

\* Mutant: a state that readers of state:nowplaying do not know.
StopCaptureStopped ==
    /\ rec' = "none" /\ src' = NoSrc
    /\ IF rec = "none" THEN UNCHANGED <<shown, lost>> ELSE Write(src, "stopped")

\* listener._stop_capture(publish_idle = TRUE): does nothing without a capture.
StopCapture ==
    /\ rec' = "none" /\ src' = NoSrc
    /\ IF rec = "none" THEN UNCHANGED <<shown, lost>> ELSE Write(src, "idle")

-----------------------------------------------------------------------------
(***************************************************************************)
(* The turntable.                                                          *)
(***************************************************************************)

\* Where _stop_audio is after it took the process, without the lock.
Stopping == {"kill", "unflag", "resume"}

\* _start_audio takes the lock, and finds no loopback running: adc._turntable.
StartAudio(c) ==
    /\ c \in Players /\ pc[c] = "idle" /\ ~TurntableLocked
    /\ proc \notin alive
    /\ flag' = TRUE
    /\ overtaken' = (overtaken \/ \E d \in Callers : pc[d] \in Stopping)
    /\ Goto(c, "suspend")
    /\ UNCHANGED <<victim, proc, alive, listenerVars, ending>>

\* Mutant: the listener learns of it, but its capture runs on.
SuspendOnly(c) ==
    /\ pc[c] = "suspend" /\ ~ListenerLocked
    /\ suspended' = TRUE
    /\ Goto(c, "popen")
    /\ UNCHANGED <<captureVars, victim, proc, alive, flag, lpc, want, backoff, overtaken, ending>>

\* listener.suspend()
Suspend(c) ==
    /\ pc[c] = "suspend" /\ ~ListenerLocked
    /\ suspended' = TRUE
    /\ StopCapture
    /\ Goto(c, "popen")
    /\ UNCHANGED <<victim, proc, alive, flag, lpc, want, backoff, overtaken, ending>>

Launch(c) ==
    /\ pc[c] = "popen"
    /\ \E p \in Procs \ (alive \cup {victim[d] : d \in Callers} \cup {proc}) :
          proc' = p /\ alive' = alive \cup {p}
    /\ Goto(c, "idle")
    /\ UNCHANGED <<victim, flag, listenerVars, overtaken, ending>>

\* Mutant: the exception handler forgets that the ADC was claimed.
LaunchFailsQuietly(c) ==
    /\ pc[c] = "popen"
    /\ proc' = NoProc
    /\ Goto(c, "idle")
    /\ UNCHANGED <<victim, alive, flag, listenerVars, overtaken, ending>>

\* Popen raises.
LaunchFails(c) ==
    /\ pc[c] = "popen"
    /\ proc' = NoProc
    /\ flag' = FALSE
    /\ Goto(c, "restore")
    /\ UNCHANGED <<victim, alive, listenerVars, overtaken, ending>>

\* _stop_audio takes the process under the lock ...
StopAudio(c) ==
    /\ pc[c] = "idle" /\ ~TurntableLocked
    /\ proc # NoProc
    /\ victim' = [victim EXCEPT ![c] = proc]
    /\ proc' = NoProc
    /\ Goto(c, "kill")
    /\ UNCHANGED <<alive, flag, listenerVars, overtaken, ending>>

\* ... and kills it without, for up to two seconds ...
Kill(c) ==
    /\ pc[c] = "kill"
    /\ alive' = alive \ {victim[c]}
    /\ victim' = [victim EXCEPT ![c] = NoProc]
    /\ Goto(c, "unflag")
    /\ UNCHANGED <<proc, flag, listenerVars, overtaken, ending>>

\* ... before adc.turntable_stop().
Unflag(c) ==
    /\ pc[c] = "unflag"
    /\ flag' = FALSE
    /\ Goto(c, "resume")
    /\ UNCHANGED <<victim, proc, alive, listenerVars, overtaken, ending>>

\* Mutant: only one who finds the ADC unclaimed may resume the listener.
ResumeUnlessClaimed(c) ==
    /\ pc[c] \in {"resume", "restore"} /\ ~ListenerLocked
    /\ suspended' = (suspended /\ rec = "none")
    /\ Goto(c, "idle")
    /\ UNCHANGED <<victim, proc, alive, flag, lpc, want, captureVars, backoff, overtaken, ending>>

\* listener.resume()
Resume(c) ==
    /\ pc[c] \in {"resume", "restore"} /\ ~ListenerLocked
    /\ suspended' = FALSE
    /\ Goto(c, "idle")
    /\ UNCHANGED <<victim, proc, alive, flag, lpc, want, captureVars, backoff, overtaken, ending>>

\* The loopback ends on its own (a device it cannot open, a broken pipe).
LoopbackEnds(p) ==
    /\ p \in alive
    /\ alive' = alive \ {p}
    /\ UNCHANGED <<pc, victim, proc, flag, listenerVars, overtaken, ending>>

CallerStep(c) ==
    \/ Suspend(c) \/ Launch(c) \/ LaunchFails(c)
    \/ Kill(c) \/ Unflag(c) \/ Resume(c)

-----------------------------------------------------------------------------
(***************************************************************************)
(* The bus listener.                                                       *)
(***************************************************************************)

\* while not self._stop.is_set()
Loop ==
    /\ lpc = "loop"
    /\ lpc' = IF ending = "no" THEN "get" ELSE "exited"
    /\ UNCHANGED <<turntableVars, want, suspended, captureVars, backoff, ending>>

\* get_message returns a new state of the audio master, or times out.
Receive ==
    /\ lpc = "get"
    /\ want' \in Srcs \cup {NoSrc}
    /\ lpc' = "evaluate"
    /\ UNCHANGED <<turntableVars, suspended, captureVars, backoff, ending>>

\* What _evaluate wants, given the claims of the turntable.
allowed == IF suspended \/ flag THEN NoSrc ELSE want

\* _evaluate without a capture, or with one that has ended: that one is
\* dropped without a word to state:nowplaying, and holds back the next.
EvaluateOff ==
    /\ lpc = "evaluate" /\ rec \in {"none", "dead"}
    /\ rec' = "none" /\ src' = NoSrc
    /\ lost' = IF rec = "dead" THEN lost \cup {src} ELSE lost
    /\ backoff' = (backoff \/ rec = "dead")
    /\ lpc' = IF allowed = NoSrc \/ backoff' THEN "loop" ELSE "starting"
    /\ UNCHANGED <<turntableVars, want, suspended, shown, ending>>

\* Mutant: another source takes over without a last word on the old one.
EvaluateOnQuietly ==
    /\ lpc = "evaluate" /\ rec = "up"
    /\ IF allowed = src
       THEN UNCHANGED captureVars
       ELSE rec' = "none" /\ src' = NoSrc /\ UNCHANGED <<shown, lost>>
    /\ lpc' = IF allowed \in {src, NoSrc} \/ backoff THEN "loop" ELSE "starting"
    /\ UNCHANGED <<turntableVars, want, suspended, backoff, ending>>

\* _evaluate with a capture: keep it, stop it, or change the source.
EvaluateOn ==
    /\ lpc = "evaluate" /\ rec = "up"
    /\ IF allowed = src THEN UNCHANGED captureVars ELSE StopCapture
    /\ lpc' = IF allowed \in {src, NoSrc} \/ backoff THEN "loop" ELSE "starting"
    /\ UNCHANGED <<turntableVars, want, suspended, backoff, ending>>

\* Mutant: the capture is not started while the turntable is being started,
\* as if _start_capture took the turntable's lock.
StartCaptureWaits ==
    /\ lpc = "starting" /\ ~TurntableLocked
    /\ rec' = "up" /\ src' = want
    /\ Write(want, "playing")
    /\ lpc' = "loop"
    /\ UNCHANGED <<turntableVars, want, suspended, backoff, ending>>

\* _start_capture succeeds, or cannot start its processes; the lock goes.
StartCapture ==
    /\ lpc = "starting"
    /\ \/ /\ rec' = "up" /\ src' = want
          /\ Write(want, "playing")
          /\ UNCHANGED backoff
       \/ /\ backoff' = TRUE
          /\ UNCHANGED captureVars
    /\ lpc' = "loop"
    /\ UNCHANGED <<turntableVars, want, suspended, ending>>

CaptureDies ==
    /\ Dies /\ rec = "up"
    /\ rec' = "dead"
    /\ UNCHANGED <<turntableVars, lpc, want, suspended, src, shown, lost, backoff, ending>>

\* _RESTART_BACKOFF_S passes.
BackoffEnds ==
    /\ backoff
    /\ backoff' = FALSE
    /\ UNCHANGED <<turntableVars, lpc, want, suspended, captureVars, ending>>

\* stop(), by the main thread at the end of the bridge: first the Event ...
StopBegins ==
    /\ ending = "no"
    /\ ending' = "stopping"
    /\ UNCHANGED <<turntableVars, listenerVars>>

\* ... then, once it has the lock, the capture.
StopEnds ==
    /\ ending = "stopping" /\ ~ListenerLocked
    /\ StopCapture
    /\ ending' = "done"
    /\ UNCHANGED <<turntableVars, lpc, want, suspended, backoff>>

ListenerStep == Loop \/ Receive \/ EvaluateOff \/ EvaluateOn \/ StartCapture

-----------------------------------------------------------------------------
Next ==
    \/ \E c \in Callers : StartAudio(c) \/ StopAudio(c) \/ CallerStep(c)
    \/ \E p \in Procs : LoopbackEnds(p)
    \/ ListenerStep \/ CaptureDies \/ BackoffEnds
    \/ StopBegins \/ StopEnds

Spec == Init /\ [][Next]_vars

\* Threads keep running and time passes.  A thread that waits for the
\* listener's lock gets it in the end: the listener does without it for up
\* to a second in every round.  Nobody has to play, or to end the bridge.
Fairness ==
    /\ \A c \in Callers : SF_vars(CallerStep(c))
    /\ WF_vars(ListenerStep)
    /\ WF_vars(BackoffEnds)

FairSpec == Spec /\ Fairness

-----------------------------------------------------------------------------
(***************************************************************************)
(* Properties                                                              *)
(***************************************************************************)

TypeOK ==
    /\ pc \in [Callers -> {"idle", "suspend", "popen", "restore",
                           "kill", "unflag", "resume"}]
    /\ victim \in [Callers -> Procs \cup {NoProc}]
    /\ proc \in Procs \cup {NoProc}
    /\ alive \in SUBSET Procs
    /\ flag \in BOOLEAN
    /\ overtaken \in BOOLEAN
    /\ lpc \in {"loop", "get", "evaluate", "starting", "exited"}
    /\ want \in Srcs \cup {NoSrc}
    /\ suspended \in BOOLEAN
    /\ rec \in {"none", "up", "dead"}
    /\ src \in Srcs \cup {NoSrc}
    /\ backoff \in BOOLEAN
    /\ shown \in [Srcs -> {"idle", "playing"}]
    /\ lost \in SUBSET Srcs
    /\ ending \in {"no", "stopping", "done"}

\* Only one process records from the ADC at a time.
OneRecorder ==
    /\ alive # {} => rec # "up"
    /\ \A p, q \in alive : p = q

\* The only way to two recorders is a _start_audio while another thread is
\* still in a _stop_audio, which it runs without the lock: otherwise neither the
\* capture and a loopback, nor two loopbacks, run together, whichever threads
\* start and stop the turntable, whatever fails to launch or dies.
OneRecorderUnlessOvertaken ==
    ~overtaken => OneRecorder

\* The listener is never locked out for good: when nobody is busy with the
\* turntable and it has no loopback, the ADC is unclaimed -- also after a
\* loopback that could not be launched, and after calls that overtook each
\* other.
AdcReturned ==
    proc = NoProc /\ (\A c \in Callers : pc[c] = "idle") => ~flag /\ ~suspended

\* A source is taken off the display when it stops or another one takes over:
\* after an evaluation only the wanted source is shown as playing.  The two
\* words that can be missing are those the code does not repeat: a write that
\* redis refused, and the end of a capture that died.
OnlyWantedShown ==
    lpc = "loop" => \A s \in Srcs \ lost : shown[s] = "playing" => s = want

\* Neither lock is ever waited for without end: a thread that starts or stops
\* the turntable comes back, though it waits for the listener's lock with the
\* turntable's in its hands.
CallersReturn ==
    \A c \in Callers : pc[c] # "idle" ~> pc[c] = "idle"

\* The listener comes back after the turntable: if in the end it wants a source
\* and the turntable is at rest, it records, or tries again and again.
ListenerReturns ==
    \A s \in Srcs :
        <>[](/\ ending = "no" /\ want = s /\ proc = NoProc
             /\ \A c \in Callers : pc[c] = "idle")
            => []<>(rec = "up" \/ lpc = "starting")

\* What core/adc.py makes of suspend() and resume() for the listener, whichever
\* threads call the turntable, in whatever order.
Arbiter == INSTANCE AdcArbiter WITH
    listening <- (rec = "up"),
    claimed   <- suspended

ImplementsArbiter == Arbiter!Spec

=============================================================================
