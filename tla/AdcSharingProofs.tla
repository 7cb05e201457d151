-------------------------- MODULE AdcSharingProofs --------------------------
(***************************************************************************)
(* Theorems of AdcSharing, for any threads, processes and sources.         *)
(***************************************************************************)
EXTENDS AdcSharing, TLAPS

USE AdcAssumption

-----------------------------------------------------------------------------
(***************************************************************************)
(* Type correctness.                                                       *)
(***************************************************************************)

\* A capture is of a source.
SrcInv == rec # "none" => src \in Srcs

LEMMA WriteTypeOK ==
    ASSUME TypeOK, NEW s \in Srcs, NEW state \in {"idle", "playing"}, Write(s, state)
    PROVE  shown' \in [Srcs -> {"idle", "playing"}] /\ lost' \in SUBSET Srcs
  BY DEF TypeOK, Write

LEMMA StopCaptureTypeOK ==
    ASSUME TypeOK, SrcInv, StopCapture
    PROVE  /\ rec' = "none"
           /\ src' \in Srcs \cup {NoSrc}
           /\ shown' \in [Srcs -> {"idle", "playing"}]
           /\ lost' \in SUBSET Srcs
  BY WriteTypeOK DEF TypeOK, SrcInv, StopCapture

TypeInv == TypeOK /\ SrcInv /\ (lpc = "starting" => want \in Srcs)

LEMMA CallerTypeInv ==
    ASSUME TypeInv, NEW c \in Callers, StartAudio(c) \/ StopAudio(c) \/ CallerStep(c)
    PROVE  TypeInv'
<1> USE DEF TypeInv, Goto, turntableVars, listenerVars, captureVars
<1>1. CASE StartAudio(c)
  BY <1>1 DEF StartAudio, TypeOK, SrcInv
<1>2. CASE StopAudio(c)
  BY <1>2 DEF StopAudio, TypeOK, SrcInv
<1>3. CASE Suspend(c)
  <2>1. /\ rec' = "none" /\ src' \in Srcs \cup {NoSrc} /\ lost' \in SUBSET Srcs
        /\ shown' \in [Srcs -> {"idle", "playing"}]
    BY <1>3, StopCaptureTypeOK DEF Suspend
  <2>2. QED
    BY <1>3, <2>1 DEF Suspend, TypeOK, SrcInv
<1>4. CASE Launch(c)
  BY <1>4 DEF Launch, TypeOK, SrcInv
<1>5. CASE LaunchFails(c)
  BY <1>5 DEF LaunchFails, TypeOK, SrcInv
<1>6. CASE Kill(c)
  BY <1>6 DEF Kill, TypeOK, SrcInv
<1>7. CASE Unflag(c)
  BY <1>7 DEF Unflag, TypeOK, SrcInv
<1>8. CASE Resume(c)
  BY <1>8 DEF Resume, TypeOK, SrcInv
<1>9. QED
  BY <1>1, <1>2, <1>3, <1>4, <1>5, <1>6, <1>7, <1>8 DEF CallerStep

LEMMA ListenerTypeInv ==
    ASSUME TypeInv, ListenerStep
    PROVE  TypeInv'
<1> USE DEF TypeInv, turntableVars, captureVars
<1>1. CASE Loop
  BY <1>1 DEF Loop, TypeOK, SrcInv
<1>2. CASE Receive
  BY <1>2 DEF Receive, TypeOK, SrcInv
<1>3. CASE EvaluateOff
  <2>1. lost' \in SUBSET Srcs
    BY <1>3 DEF EvaluateOff, TypeOK, SrcInv
  <2>2. lpc' \in {"loop", "starting"} /\ (lpc' = "starting" => want \in Srcs)
    BY <1>3 DEF EvaluateOff, TypeOK, allowed
  <2>3. QED
    BY <1>3, <2>1, <2>2 DEF EvaluateOff, TypeOK, SrcInv
<1>4. CASE EvaluateOn
  <2>1. /\ rec' \in {"none", "up", "dead"}
        /\ src' \in Srcs \cup {NoSrc}
        /\ shown' \in [Srcs -> {"idle", "playing"}]
        /\ lost' \in SUBSET Srcs
        /\ SrcInv'
    <3>1. CASE StopCapture
      BY <3>1, StopCaptureTypeOK DEF SrcInv
    <3>2. CASE UNCHANGED captureVars
      BY <3>2 DEF TypeOK, SrcInv
    <3>3. QED
      BY <1>4, <3>1, <3>2 DEF EvaluateOn
  <2>2. lpc' \in {"loop", "starting"} /\ (lpc' = "starting" => want \in Srcs)
    BY <1>4 DEF EvaluateOn, TypeOK, allowed
  <2>3. QED
    BY <1>4, <2>1, <2>2 DEF EvaluateOn, TypeOK
<1>5. CASE StartCapture
  <2>1. want \in Srcs
    BY <1>5 DEF StartCapture
  <2>2. /\ shown' \in [Srcs -> {"idle", "playing"}] /\ lost' \in SUBSET Srcs
        /\ backoff' \in BOOLEAN
        /\ \/ rec' = "up" /\ src' = want
           \/ UNCHANGED <<rec, src>>
    BY <1>5, <2>1, WriteTypeOK DEF StartCapture, TypeOK
  <2>3. QED
    BY <1>5, <2>1, <2>2 DEF StartCapture, TypeOK, SrcInv
<1>6. QED
  BY <1>1, <1>2, <1>3, <1>4, <1>5 DEF ListenerStep

LEMMA NextTypeInv == TypeInv /\ [Next]_vars => TypeInv'
<1> SUFFICES ASSUME TypeInv, [Next]_vars PROVE TypeInv'
  OBVIOUS
<1> USE DEF TypeInv, turntableVars, listenerVars, captureVars
<1>1. ASSUME NEW p \in Procs, LoopbackEnds(p) PROVE TypeInv'
  BY <1>1 DEF LoopbackEnds, TypeOK, SrcInv
<1>2. CASE CaptureDies \/ BackoffEnds \/ StopBegins
  <2>1. CASE CaptureDies
    BY <2>1 DEF CaptureDies, TypeOK, SrcInv
  <2>2. CASE BackoffEnds
    BY <2>2 DEF BackoffEnds, TypeOK, SrcInv
  <2>3. CASE StopBegins
    BY <2>3 DEF StopBegins, TypeOK, SrcInv
  <2>4. QED
    BY <1>2, <2>1, <2>2, <2>3
<1>3. CASE StopEnds
  <2>1. /\ rec' = "none" /\ src' \in Srcs \cup {NoSrc} /\ lost' \in SUBSET Srcs
        /\ shown' \in [Srcs -> {"idle", "playing"}]
    BY <1>3, StopCaptureTypeOK DEF StopEnds
  <2>2. QED
    BY <1>3, <2>1 DEF StopEnds, TypeOK, SrcInv
<1>4. CASE UNCHANGED vars
  BY <1>4 DEF vars, TypeOK, SrcInv
<1>5. QED
  BY <1>1, <1>2, <1>3, <1>4, CallerTypeInv, ListenerTypeInv DEF Next

LEMMA TypeInvariant == Spec => []TypeInv
<1>1. Init => TypeInv
  BY DEF Init, TypeInv, TypeOK, SrcInv
<1>2. QED
  BY <1>1, NextTypeInv, PTL DEF Spec

\* The state of the turntable and of the listener keeps its shape.
THEOREM TypeCorrect == Spec => []TypeOK
<1>1. TypeInv => TypeOK
  BY DEF TypeInv
<1>2. QED
  BY <1>1, TypeInvariant, PTL

-----------------------------------------------------------------------------
(***************************************************************************)
(* The ADC is given back.  While it is claimed there is a loopback, or a   *)
(* caller that has yet to launch one or to take the claim back.            *)
(***************************************************************************)

ClaimInv ==
    /\ flag      => \/ proc # NoProc
                    \/ \E c \in Callers : pc[c] \in {"suspend", "popen", "kill", "unflag"}
    /\ suspended => \/ proc # NoProc
                    \/ \E c \in Callers :
                          pc[c] \in {"suspend", "popen", "restore", "kill", "unflag", "resume"}

\* A caller that stays where it is answers for the claim; so does the one that
\* moves, unless it has just taken the claim back.
LEMMA NextClaimInv == TypeOK /\ ClaimInv /\ [Next]_vars => ClaimInv'
<1> SUFFICES ASSUME TypeOK, ClaimInv, [Next]_vars PROVE ClaimInv'
  OBVIOUS
<1> USE DEF ClaimInv, Goto, turntableVars, listenerVars, captureVars
<1>0. pc \in [Callers -> {"idle", "suspend", "popen", "restore",
                          "kill", "unflag", "resume"}]
  BY DEF TypeOK
<1>1. CASE UNCHANGED <<pc, proc, flag, suspended>>
  BY <1>1
<1>2. ASSUME NEW c \in Callers, StartAudio(c) PROVE ClaimInv'
  BY <1>0, <1>2 DEF StartAudio
<1>3. ASSUME NEW c \in Callers, Suspend(c) PROVE ClaimInv'
  BY <1>0, <1>3 DEF Suspend
<1>4. ASSUME NEW c \in Callers, Launch(c) PROVE ClaimInv'
  BY <1>0, <1>4 DEF Launch
<1>5. ASSUME NEW c \in Callers, LaunchFails(c) PROVE ClaimInv'
  BY <1>0, <1>5 DEF LaunchFails
<1>6. ASSUME NEW c \in Callers, StopAudio(c) PROVE ClaimInv'
  BY <1>0, <1>6 DEF StopAudio
<1>7. ASSUME NEW c \in Callers, Kill(c) PROVE ClaimInv'
  BY <1>0, <1>7 DEF Kill
<1>8. ASSUME NEW c \in Callers, Unflag(c) PROVE ClaimInv'
  BY <1>0, <1>8 DEF Unflag
<1>9. ASSUME NEW c \in Callers, Resume(c) PROVE ClaimInv'
  BY <1>0, <1>9 DEF Resume
<1>10. CASE ListenerStep \/ CaptureDies \/ BackoffEnds \/ StopBegins \/ StopEnds
  BY <1>1, <1>10 DEF ListenerStep, Loop, Receive, EvaluateOff, EvaluateOn,
       StartCapture, CaptureDies, BackoffEnds, StopBegins, StopEnds
<1>11. ASSUME NEW p \in Procs, LoopbackEnds(p) PROVE ClaimInv'
  BY <1>1, <1>11 DEF LoopbackEnds
<1>12. CASE UNCHANGED vars
  BY <1>1, <1>12 DEF vars
<1>13. QED
  BY <1>2, <1>3, <1>4, <1>5, <1>6, <1>7, <1>8, <1>9, <1>10, <1>11, <1>12
     DEF Next, CallerStep

\* With the turntable at rest and without a loopback, the ADC is unclaimed,
\* however the calls overtook each other.
THEOREM TurntableReturnsAdc == Spec => []AdcReturned
<1>1. Init => ClaimInv
  BY DEF Init, ClaimInv
<1>2. ClaimInv => AdcReturned
  BY DEF ClaimInv, AdcReturned
<1>3. QED
  BY <1>1, <1>2, NextClaimInv, TypeCorrect, PTL DEF Spec

-----------------------------------------------------------------------------
(***************************************************************************)
(* One recorder, as long as no start has overtaken a stop.  SuspendInv is  *)
(* the listener's part of it and holds in any case.  TurnInv is the        *)
(* turntable's: a thread at work holds the lock, or has taken the process  *)
(* out of the hands of the others, so no two are at work at once.          *)
(***************************************************************************)

SuspendInv ==
    /\ suspended        => rec = "none"
    /\ lpc = "starting" => ~suspended /\ rec = "none"

LEMMA NextSuspendInv == SuspendInv /\ [Next]_vars => SuspendInv'
<1> SUFFICES ASSUME SuspendInv, [Next]_vars PROVE SuspendInv'
  OBVIOUS
<1> USE DEF SuspendInv, turntableVars, listenerVars, captureVars, ListenerLocked
<1>1. CASE UNCHANGED <<lpc, suspended, rec>>
  BY <1>1
<1>2. ASSUME NEW c \in Callers, Suspend(c) \/ Resume(c) PROVE SuspendInv'
  BY <1>2 DEF Suspend, Resume, StopCapture
<1>3. ASSUME NEW c \in Callers,
             StartAudio(c) \/ StopAudio(c) \/ Launch(c) \/ LaunchFails(c)
             \/ Kill(c) \/ Unflag(c)
      PROVE  SuspendInv'
  BY <1>1, <1>3 DEF StartAudio, StopAudio, Launch, LaunchFails, Kill, Unflag
<1>4. CASE Loop \/ Receive
  BY <1>4 DEF Loop, Receive
<1>5. CASE EvaluateOff
  BY <1>5 DEF EvaluateOff, allowed
<1>6. CASE EvaluateOn
  BY <1>6 DEF EvaluateOn, StopCapture, allowed
<1>7. CASE StartCapture
  BY <1>7 DEF StartCapture
<1>8. CASE CaptureDies \/ StopEnds
  BY <1>8 DEF CaptureDies, StopEnds, StopCapture
<1>9. CASE BackoffEnds \/ StopBegins \/ UNCHANGED vars
  BY <1>1, <1>9 DEF BackoffEnds, StopBegins, vars
<1>10. ASSUME NEW p \in Procs, LoopbackEnds(p) PROVE SuspendInv'
  BY <1>1, <1>10 DEF LoopbackEnds
<1>11. QED
  BY <1>2, <1>3, <1>4, <1>5, <1>6, <1>7, <1>8, <1>9, <1>10
     DEF Next, CallerStep, ListenerStep

\* The processes that may be alive, by where the thread at work is.
TurnInv ==
    ~overtaken =>
        /\ \A c, d \in Callers : pc[c] # "idle" /\ pc[d] # "idle" => c = d
        /\ (\A c \in Callers : pc[c] = "idle") => alive \subseteq {proc}
        /\ \A c \in Callers :
              /\ pc[c] = "kill" => alive \subseteq {victim[c]}
              /\ pc[c] \in {"suspend", "popen", "restore", "unflag", "resume"} =>
                    alive = {}
              /\ pc[c] \in Stopping => proc = NoProc
              /\ pc[c] = "popen" => suspended
        /\ alive # {} => suspended

LEMMA NextTurnInv ==
    ASSUME TypeInv, TurnInv, [Next]_vars
    PROVE  TurnInv'
<1> USE DEF Goto, Stopping, turntableVars, listenerVars, captureVars
<1>0. pc \in [Callers -> {"idle", "suspend", "popen", "restore",
                          "kill", "unflag", "resume"}]
      /\ victim \in [Callers -> Procs \cup {NoProc}]
      /\ alive \in SUBSET Procs
      /\ overtaken \in BOOLEAN
  BY DEF TypeInv, TypeOK
<1>1. CASE UNCHANGED <<turntableVars, suspended>>
  BY <1>1 DEF TurnInv
<1>2. ASSUME NEW c \in Callers, StartAudio(c) PROVE TurnInv'
  <2>1. CASE overtaken'
    BY <2>1 DEF TurnInv
  <2>2. CASE ~overtaken'
    <3>1. ~overtaken /\ \A d \in Callers : pc[d] = "idle"
      BY <1>0, <1>2, <2>2 DEF StartAudio, TurntableLocked
    <3>2. alive = {}
      BY <1>2, <3>1 DEF StartAudio, TurnInv
    <3>3. QED
      BY <1>0, <1>2, <3>1, <3>2 DEF StartAudio, TurnInv
  <2>3. QED
    BY <2>1, <2>2
<1>3. ASSUME NEW c \in Callers, Suspend(c) PROVE TurnInv'
  BY <1>0, <1>3 DEF Suspend, TurnInv
<1>4. ASSUME NEW c \in Callers, Launch(c) PROVE TurnInv'
  BY <1>0, <1>4 DEF Launch, TurnInv
<1>5. ASSUME NEW c \in Callers, LaunchFails(c) PROVE TurnInv'
  BY <1>0, <1>5 DEF LaunchFails, TurnInv
<1>6. ASSUME NEW c \in Callers, StopAudio(c) PROVE TurnInv'
  <2>1. ~overtaken => \A d \in Callers : pc[d] = "idle"
    BY <1>0, <1>6 DEF StopAudio, TurntableLocked, TurnInv
  <2>2. QED
    BY <1>0, <1>6, <2>1 DEF StopAudio, TurnInv
<1>7. ASSUME NEW c \in Callers, Kill(c) PROVE TurnInv'
  BY <1>0, <1>7 DEF Kill, TurnInv
<1>8. ASSUME NEW c \in Callers, Unflag(c) PROVE TurnInv'
  BY <1>0, <1>8 DEF Unflag, TurnInv
<1>9. ASSUME NEW c \in Callers, Resume(c) PROVE TurnInv'
  BY <1>0, <1>9 DEF Resume, TurnInv
<1>10. CASE ListenerStep \/ CaptureDies \/ BackoffEnds \/ StopBegins \/ StopEnds
  BY <1>1, <1>10 DEF ListenerStep, Loop, Receive, EvaluateOff, EvaluateOn,
       StartCapture, CaptureDies, BackoffEnds, StopBegins, StopEnds
<1>11. ASSUME NEW p \in Procs, LoopbackEnds(p) PROVE TurnInv'
  BY <1>0, <1>11 DEF LoopbackEnds, TurnInv
<1>12. CASE UNCHANGED vars
  BY <1>1, <1>12 DEF vars
<1>13. QED
  BY <1>2, <1>3, <1>4, <1>5, <1>6, <1>7, <1>8, <1>9, <1>10, <1>11, <1>12
     DEF Next, CallerStep

LEMMA TurnInvariant == Spec => [](SuspendInv /\ TurnInv)
<1>1. Init => SuspendInv /\ TurnInv
  BY DEF Init, SuspendInv, TurnInv, Stopping
<1>2. TypeInv /\ TurnInv /\ [Next]_vars => TurnInv'
  BY NextTurnInv
<1>3. QED
  BY <1>1, <1>2, NextSuspendInv, TypeInvariant, PTL DEF Spec

\* Only one process records from the ADC at a time, whichever threads call the
\* turntable, as long as none starts it while another is stopping it.
THEOREM OneUser == Spec => []OneRecorderUnlessOvertaken
<1>1. TypeInv /\ SuspendInv /\ TurnInv => OneRecorderUnlessOvertaken
  <2> SUFFICES ASSUME TypeInv, SuspendInv, TurnInv, ~overtaken PROVE OneRecorder
    BY DEF OneRecorderUnlessOvertaken
  <2>1. alive # {} => rec # "up"
    BY DEF SuspendInv, TurnInv
  <2>2. \A p, q \in alive : p = q
    <3>1. CASE \A c \in Callers : pc[c] = "idle"
      BY <3>1 DEF TurnInv
    <3>2. ASSUME NEW c \in Callers, pc[c] # "idle", pc[c] # "kill", alive # {}
          PROVE  FALSE
      <4>1. pc[c] \in {"suspend", "popen", "restore", "unflag", "resume"}
        BY <3>2 DEF TypeInv, TypeOK
      <4>2. QED
        BY <3>2, <4>1 DEF TurnInv
    <3>3. QED
      BY <3>1, <3>2 DEF TurnInv
  <2>3. QED
    BY <2>1, <2>2 DEF OneRecorder
<1>2. QED
  BY <1>1, TypeInvariant, TurnInvariant, PTL

-----------------------------------------------------------------------------
(***************************************************************************)
(* The listener obeys the claims, as AdcArbiter says, whoever makes them.  *)
(***************************************************************************)

listening == rec = "up"

\* What the arbiter sees of a step, or nothing.
LEMMA NextImplements ==
    ASSUME TypeInv, SuspendInv, [Next]_vars
    PROVE  Arbiter!Next \/ UNCHANGED <<listening, suspended>>
<1> USE DEF turntableVars, listenerVars, captureVars, listening
<1>0. suspended \in BOOLEAN
  BY DEF TypeInv, TypeOK
<1>1. CASE UNCHANGED <<rec, suspended>>
  BY <1>1
<1>2. ASSUME NEW c \in Callers, Suspend(c)
      PROVE  Arbiter!Next \/ UNCHANGED <<listening, suspended>>
  <2>1. rec' = "none" /\ suspended' = TRUE
    BY <1>2 DEF Suspend, StopCapture
  <2>2. CASE suspended
    BY <1>0, <2>1, <2>2 DEF SuspendInv
  <2>3. CASE ~suspended
    BY <2>1, <2>3 DEF Arbiter!TurntableClaims, Arbiter!Next
  <2>4. QED
    BY <2>2, <2>3
<1>3. ASSUME NEW c \in Callers, Resume(c)
      PROVE  Arbiter!Next \/ UNCHANGED <<listening, suspended>>
  <2>1. suspended' = FALSE /\ rec' = rec
    BY <1>3 DEF Resume
  <2>2. CASE suspended
    BY <2>1, <2>2 DEF Arbiter!TurntableReturns, Arbiter!Next
  <2>3. CASE ~suspended
    BY <1>0, <2>1, <2>3
  <2>4. QED
    BY <2>2, <2>3
<1>4. ASSUME rec' \in {"none", "dead"}, UNCHANGED suspended
      PROVE  Arbiter!Next \/ UNCHANGED <<listening, suspended>>
  <2>1. CASE rec = "up"
    BY <1>4, <2>1 DEF Arbiter!ListenerLeaves, Arbiter!Next
  <2>2. CASE rec # "up"
    BY <1>4, <2>2
  <2>3. QED
    BY <2>1, <2>2
<1>5. CASE EvaluateOff \/ CaptureDies \/ StopEnds
  BY <1>4, <1>5 DEF EvaluateOff, CaptureDies, StopEnds, StopCapture
<1>6. CASE EvaluateOn
  BY <1>1, <1>4, <1>6 DEF EvaluateOn, StopCapture
<1>7. CASE StartCapture
  <2>1. CASE rec' = "up"
    <3>1. ~suspended /\ rec = "none" /\ suspended' = suspended
      BY <1>7 DEF StartCapture, SuspendInv
    <3>2. QED
      BY <2>1, <3>1 DEF Arbiter!ListenerTakes, Arbiter!Next
  <2>2. CASE rec' # "up"
    BY <1>1, <1>7, <2>2 DEF StartCapture
  <2>3. QED
    BY <2>1, <2>2
<1>8. ASSUME NEW c \in Callers,
             \/ StartAudio(c) \/ StopAudio(c) \/ Launch(c) \/ LaunchFails(c)
             \/ Kill(c) \/ Unflag(c)
      PROVE  Arbiter!Next \/ UNCHANGED <<listening, suspended>>
  BY <1>1, <1>8 DEF StartAudio, StopAudio, Launch, LaunchFails, Kill, Unflag
<1>9. ASSUME NEW p \in Procs, LoopbackEnds(p)
      PROVE  Arbiter!Next \/ UNCHANGED <<listening, suspended>>
  BY <1>1, <1>9 DEF LoopbackEnds
<1>10. CASE Loop \/ Receive \/ BackoffEnds \/ StopBegins \/ UNCHANGED vars
  BY <1>1, <1>10 DEF Loop, Receive, BackoffEnds, StopBegins, vars
<1>11. QED
  BY <1>2, <1>3, <1>5, <1>6, <1>7, <1>8, <1>9, <1>10
     DEF Next, CallerStep, ListenerStep

\* Turntable, flag and listener implement the arbiter, whichever threads start
\* and stop the turntable and whatever overtakes what.
THEOREM ArbiterImplemented == Spec => ImplementsArbiter
<1>1. Init => Arbiter!Init
  BY DEF Init, Arbiter!Init
<1>2. TypeInv /\ SuspendInv /\ [Next]_vars =>
         [Arbiter!Next]_<<listening, suspended>>
  BY NextImplements
<1>3. QED
  BY <1>1, <1>2, TurnInvariant, TypeInvariant, PTL
     DEF Spec, ImplementsArbiter, Arbiter!Spec, listening

-----------------------------------------------------------------------------
(***************************************************************************)
(* What state:nowplaying shows.  A source whose last news was written is   *)
(* shown as playing only while it is captured; and a capture that outlived *)
(* an evaluation is that of the wanted source.                             *)
(***************************************************************************)

ShownInv ==
    /\ \A s \in Srcs \ lost : shown[s] = "playing" => rec # "none" /\ src = s
    /\ lpc = "starting" => rec = "none"
    /\ lpc \in {"loop", "get"} /\ rec # "none" => src = want

\* The last word on a source that was shown is "idle", or is lost.
LEMMA StopCaptureShown ==
    ASSUME TypeInv, ShownInv, StopCapture
    PROVE  rec' = "none" /\ \A s \in Srcs \ lost' : shown'[s] # "playing"
<1>1. shown \in [Srcs -> {"idle", "playing"}]
  BY DEF TypeInv, TypeOK
<1>2. CASE rec = "none"
  BY <1>2 DEF ShownInv, StopCapture
<1>3. CASE rec # "none"
  <2>1. rec' = "none" /\ Write(src, "idle")
    BY <1>3 DEF StopCapture
  <2>2. QED
    BY <1>1, <1>3, <2>1 DEF ShownInv, Write
<1>4. QED
  BY <1>2, <1>3

LEMMA NextShownInv ==
    ASSUME TypeInv, ShownInv, [Next]_vars
    PROVE  ShownInv'
<1> USE DEF turntableVars, listenerVars, captureVars
<1>0. /\ want \in Srcs \cup {NoSrc}
      /\ rec \in {"none", "up", "dead"}
      /\ shown \in [Srcs -> {"idle", "playing"}]
      /\ rec # "none" => src \in Srcs
      /\ lpc = "starting" => want \in Srcs
  BY DEF TypeInv, TypeOK, SrcInv
<1>1. CASE UNCHANGED <<lpc, want, rec, src, shown, lost>>
  BY <1>1 DEF ShownInv
<1>2. CASE StopCapture /\ (lpc' = "starting" => rec' = "none")
  BY <1>2, StopCaptureShown DEF ShownInv
<1>3. ASSUME NEW c \in Callers, Suspend(c) PROVE ShownInv'
  BY <1>2, <1>3 DEF Suspend, StopCapture
<1>4. ASSUME NEW c \in Callers,
             \/ StartAudio(c) \/ StopAudio(c) \/ Launch(c) \/ LaunchFails(c)
             \/ Kill(c) \/ Unflag(c) \/ Resume(c)
      PROVE  ShownInv'
  BY <1>1, <1>4 DEF StartAudio, StopAudio, Launch, LaunchFails, Kill, Unflag, Resume
<1>5. CASE Loop
  BY <1>5 DEF Loop, ShownInv
<1>6. CASE Receive
  BY <1>6 DEF Receive, ShownInv
<1>7. CASE EvaluateOff
  BY <1>0, <1>7 DEF EvaluateOff, ShownInv
<1>8. CASE EvaluateOn
  <2>1. CASE allowed = src
    <3>1. src = want
      BY <1>0, <1>8, <2>1 DEF EvaluateOn, allowed, AdcAssumption
    <3>2. lpc' = "loop" /\ UNCHANGED <<want, captureVars>>
      BY <1>8, <2>1 DEF EvaluateOn
    <3>3. QED
      BY <3>1, <3>2 DEF ShownInv
  <2>2. CASE allowed # src
    BY <1>2, <1>8, <2>2 DEF EvaluateOn, StopCapture
  <2>3. QED
    BY <2>1, <2>2
<1>9. CASE StartCapture
  <2>1. rec = "none" /\ want \in Srcs /\ lpc' = "loop" /\ want' = want
    BY <1>0, <1>9 DEF StartCapture, ShownInv
  <2>2. CASE rec' = "up" /\ src' = want /\ Write(want, "playing")
    BY <1>0, <2>1, <2>2 DEF ShownInv, Write
  <2>3. CASE UNCHANGED captureVars
    BY <2>1, <2>3 DEF ShownInv
  <2>4. QED
    BY <1>9, <2>2, <2>3 DEF StartCapture
<1>10. CASE CaptureDies
  BY <1>10 DEF CaptureDies, ShownInv
<1>11. CASE BackoffEnds \/ StopBegins \/ UNCHANGED vars
  BY <1>1, <1>11 DEF BackoffEnds, StopBegins, vars
<1>12. CASE StopEnds
  BY <1>2, <1>12 DEF StopEnds, StopCapture
<1>13. ASSUME NEW p \in Procs, LoopbackEnds(p) PROVE ShownInv'
  BY <1>1, <1>13 DEF LoopbackEnds
<1>14. QED
  BY <1>3, <1>4, <1>5, <1>6, <1>7, <1>8, <1>9, <1>10, <1>11, <1>12, <1>13
     DEF Next, CallerStep, ListenerStep

\* After an evaluation only the wanted source is shown as playing, except for
\* news that was lost, whoever takes the ADC, dies and ends the bridge.
THEOREM WantedShown == Spec => []OnlyWantedShown
<1>1. Init => ShownInv
  BY DEF Init, ShownInv
<1>2. TypeInv /\ ShownInv /\ [Next]_vars => ShownInv'
  BY NextShownInv
<1>3. ShownInv => OnlyWantedShown
  BY DEF ShownInv, OnlyWantedShown
<1>4. QED
  BY <1>1, <1>2, <1>3, TypeInvariant, PTL DEF Spec

=============================================================================
