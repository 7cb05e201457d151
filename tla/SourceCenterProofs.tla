------------------------- MODULE SourceCenterProofs -------------------------
(***************************************************************************)
(* Theorems of SourceCenter, for every set of sources, every number of     *)
(* wake threads and every bound.                                           *)
(***************************************************************************)
EXTENDS SourceCenter, TLAPS

USE SourcesAssumption, BoundsAssumption
USE DEF DIST_REQUEST, RELEASE, STANDBY

-----------------------------------------------------------------------------
(***************************************************************************)
(* Type correctness.                                                       *)
(***************************************************************************)

LEMMA InitTypeOK == Init => TypeOK
  BY DEF Init, TypeOK

LEMMA TelegramsAreTyped ==
    ASSUME NEW type \in {DIST_REQUEST, RELEASE, STANDBY},
           NEW src \in Sources \cup {Generic, Foreign}
    PROVE  About(type, src) \in Telegram
  BY DEF About, Telegram

\* What any step does to the streams: nothing, or one of these.
LEMMA StreamsTypeOK ==
    ASSUME TypeOK, NEW p \in Sources,
           \/ Play(p) /\ begun' = {}
           \/ Pause(p)
           \/ PauseIfPlaying(p)
           \/ Streams(p) /\ Noted(p)
    PROVE  /\ playing' \in [Sources -> BOOLEAN]
           /\ starting' \in SUBSET Sources
           /\ begun' \in SUBSET Sources
  BY DEF TypeOK, Play, Pause, PauseIfPlaying, Streams, Noted, streams

LEMMA MainTypeOK ==
    ASSUME TypeOK, MainStep
    PROVE  TypeOK'
<1> USE DEF TypeOK, streams, shared, mainVars, watchVars, wakeVars
<1>1. CASE Dispatch
  <2> DEFINE t == Head(inbox)
  <2>1. inbox' \in Seq(Telegram) /\ t \in Telegram
    BY <1>1 DEF Dispatch
  <2>2. t.src \in Sources \cup {Generic, Foreign}
    BY <2>1 DEF Telegram
  <2>3. CASE OnDistRequest(t.src)
    <3>1. CASE t.src \notin Sources
      BY <1>1, <2>1, <2>3, <3>1 DEF Dispatch, OnDistRequest
    <3>2. CASE t.src \in Sources
      <4>1. acked' \in [Sources -> {"none", "clear", "set"}]
        <5>1. acked' = [acked EXCEPT ![t.src] = IF @ = "none" THEN @ ELSE "set"]
          BY <2>3, <3>2 DEF OnDistRequest
        <5>2. acked \in [Sources -> {"none", "clear", "set"}]
          OBVIOUS
        <5>3. QED
          BY <5>1, <5>2, <3>2
      <4>2. /\ granted' \in SUBSET Sources /\ recent' \in SUBSET Sources
            /\ asked' \in SUBSET Sources /\ mainTodo' \in SUBSET Sources
            /\ begun' \in SUBSET Sources
        BY <2>3, <3>2 DEF OnDistRequest
      <4>3. /\ mainSrc' \in Sources
            /\ mainPc' \in {mainPc, "pause_others"}
            /\ UNCHANGED <<playing, starting>>
        BY <2>3, <3>2 DEF OnDistRequest
      <4>4. UNCHANGED <<watchVars, wakeVars, am, tracker, air>>
        BY <1>1 DEF Dispatch
      <4>5. QED
        BY <2>1, <4>1, <4>2, <4>3, <4>4 DEF streams
    <3>3. QED
      BY <3>1, <3>2
  <2>4. CASE Drop(t.src)
    BY <1>1, <2>1, <2>2, <2>4 DEF Dispatch, Drop
  <2>5. QED
    BY <1>1, <2>3, <2>4 DEF Dispatch, OnRelease, OnStandby
<1>2. CASE MainPausesOther
  BY <1>2, StreamsTypeOK DEF MainPausesOther
<1>3. CASE Claim
  BY <1>3, StreamsTypeOK DEF Claim
<1>4. CASE MainPauses
  BY <1>4, StreamsTypeOK DEF MainPauses
<1>5. QED
  BY <1>1, <1>2, <1>3, <1>4 DEF MainStep

LEMMA PollTypeOK ==
    ASSUME TypeOK, NEW s \in Sources, Poll(s)
    PROVE  TypeOK'
<1>1. /\ streak \in [Sources -> 0 .. StopPolls - 1]
      /\ watchPc \in [Sources -> {"poll", "started", "stopped"}]
      /\ believes \in [Sources -> BOOLEAN]
      /\ watchTodo \in [Sources -> SUBSET Sources]
  BY DEF TypeOK
<1>2. /\ \/ streak' = [streak EXCEPT ![s] = 0]
         \/ /\ streak[s] + 1 < StopPolls
            /\ streak' = [streak EXCEPT ![s] = @ + 1]
      /\ \/ watchPc' = watchPc
         \/ watchPc' = [watchPc EXCEPT ![s] = "started"]
         \/ watchPc' = [watchPc EXCEPT ![s] = "stopped"]
      /\ \/ believes' = believes
         \/ believes' = [believes EXCEPT ![s] = TRUE]
         \/ believes' = [believes EXCEPT ![s] = FALSE]
      /\ \/ watchTodo' = watchTodo
         \/ watchTodo' = [watchTodo EXCEPT ![s] = Sources \ {s}]
  BY Zenon DEF Poll
<1>3. streak' \in [Sources -> 0 .. StopPolls - 1]
  <2>1. CASE streak' = [streak EXCEPT ![s] = 0]
    BY <1>1, <2>1
  <2>2. CASE streak[s] + 1 < StopPolls /\ streak' = [streak EXCEPT ![s] = @ + 1]
    <3>1. streak[s] + 1 \in 0 .. StopPolls - 1
      BY <1>1, <2>2
    <3>2. QED
      BY <1>1, <2>2, <3>1
  <2>3. QED
    BY <1>2, <2>1, <2>2
<1>4. /\ watchPc' \in [Sources -> {"poll", "started", "stopped"}]
      /\ believes' \in [Sources -> BOOLEAN]
      /\ watchTodo' \in [Sources -> SUBSET Sources]
  <2>1. watchPc' \in [Sources -> {"poll", "started", "stopped"}]
    BY <1>1, <1>2
  <2>2. believes' \in [Sources -> BOOLEAN]
    BY <1>1, <1>2
  <2>3. watchTodo' \in [Sources -> SUBSET Sources]
    <3>1. Sources \ {s} \in SUBSET Sources
      OBVIOUS
    <3>2. QED
      BY <1>1, <1>2, <3>1
  <2>4. QED
    BY <2>1, <2>2, <2>3
<1>5. UNCHANGED <<shared, inbox, mainVars, wakeVars, am, tracker, air>>
  BY DEF Poll
<1>6. QED
  BY <1>3, <1>4, <1>5 DEF TypeOK, streams, shared, mainVars, wakeVars

LEMMA WatchTypeOK ==
    ASSUME TypeOK, NEW s \in Sources, WatchStep(s)
    PROVE  TypeOK'
<1> USE DEF TypeOK, streams, shared, mainVars, watchVars, wakeVars
<1>1. CASE Poll(s)
  BY <1>1, PollTypeOK
<1>2. CASE WatcherPausesOther(s)
  <2>1. PICK p : /\ p \in watchTodo[s] /\ PauseIfPlaying(p)
                 /\ watchTodo' = [watchTodo EXCEPT ![s] = @ \ {p}]
    BY <1>2 DEF WatcherPausesOther
  <2>2. /\ playing' \in [Sources -> BOOLEAN]
        /\ starting' \in SUBSET Sources /\ begun' \in SUBSET Sources
    BY <2>1, StreamsTypeOK
  <2>3. watchTodo' \in [Sources -> SUBSET Sources]
    <3>1. watchTodo[s] \ {p} \in SUBSET Sources
      OBVIOUS
    <3>2. QED
      BY <2>1, <3>1
  <2>4. /\ UNCHANGED <<granted, acked, inbox, mainVars, watchPc, believes, streak>>
        /\ UNCHANGED <<wakeVars, am, tracker, air>>
    BY <1>2 DEF WatcherPausesOther
  <2>5. QED
    BY <2>2, <2>3, <2>4
<1>3. CASE DecideWake(s)
  <2>1. wakeVars' = wakeVars
        \/ \E k \in Wakers : /\ wakePc' = [wakePc EXCEPT ![k] = "begin"]
                             /\ wakeSrc' = [wakeSrc EXCEPT ![k] = s]
                             /\ attempt' = [attempt EXCEPT ![k] = 1]
    BY <1>3 DEF DecideWake
  <2>2. /\ wakePc' \in [Wakers -> {"off", "begin", "check", "send", "wait"}]
        /\ wakeSrc' \in [Wakers -> Sources]
        /\ attempt' \in [Wakers -> 0 .. MaxAttempts]
    <3>1. CASE wakeVars' = wakeVars
      BY <3>1
    <3>2. ASSUME NEW k \in Wakers,
                 wakePc' = [wakePc EXCEPT ![k] = "begin"],
                 wakeSrc' = [wakeSrc EXCEPT ![k] = s],
                 attempt' = [attempt EXCEPT ![k] = 1]
          PROVE  /\ wakePc' \in [Wakers -> {"off", "begin", "check", "send", "wait"}]
                 /\ wakeSrc' \in [Wakers -> Sources]
                 /\ attempt' \in [Wakers -> 0 .. MaxAttempts]
      BY <3>2
    <3>3. QED
      BY <2>1, <3>1, <3>2
  <2>3. /\ watchPc' \in [Sources -> {"poll", "started", "stopped"}]
        /\ UNCHANGED <<shared, inbox, mainVars, believes, streak, watchTodo>>
        /\ UNCHANGED <<am, tracker, air>>
    BY <1>3 DEF DecideWake
  <2>4. QED
    BY <2>2, <2>3
<1>4. CASE StreamStopped(s)
  BY <1>4 DEF StreamStopped
<1>5. QED
  BY <1>1, <1>2, <1>3, <1>4 DEF WatchStep

LEMMA WakeToTypeOK ==
    ASSUME TypeOK, NEW k \in Wakers, NEW n \in 0 .. MaxAttempts,
           NEW pc \in {"off", "check", "send", "wait"}, WakeTo(k, pc, n)
    PROVE  /\ wakePc' \in [Wakers -> {"off", "begin", "check", "send", "wait"}]
           /\ attempt' \in [Wakers -> 0 .. MaxAttempts]
  BY DEF TypeOK, WakeTo

LEMMA WakeTypeOK ==
    ASSUME TypeOK, NEW k \in Wakers, WakeStep(k)
    PROVE  TypeOK'
<1>1. /\ wakePc' \in [Wakers -> {"off", "begin", "check", "send", "wait"}]
      /\ attempt' \in [Wakers -> 0 .. MaxAttempts]
  <2>1. \E n \in 0 .. MaxAttempts, pc \in {"off", "check", "send", "wait"} :
           WakeTo(k, pc, n)
    <3>1. attempt[k] \in 0 .. MaxAttempts /\ 0 \in 0 .. MaxAttempts
      BY DEF TypeOK
    <3>2. attempt[k] < MaxAttempts => attempt[k] + 1 \in 0 .. MaxAttempts
      BY <3>1
    <3>3. CASE WakeBegins(k)
      BY <3>1, <3>3 DEF WakeBegins
    <3>4. CASE WakeChecks(k)
      BY <3>1, <3>4 DEF WakeChecks
    <3>5. CASE WakeSends(k) \/ WakeAcked(k)
      BY <3>1, <3>5 DEF WakeSends, WakeAcked
    <3>6. CASE WakeTimesOut(k)
      BY <3>1, <3>2, <3>6 DEF WakeTimesOut
    <3>7. QED
      BY <3>3, <3>4, <3>5, <3>6 DEF WakeStep
  <2>2. QED
    BY <2>1, WakeToTypeOK
<1>2. /\ acked' \in [Sources -> {"none", "clear", "set"}]
      /\ air' \in SUBSET (Sources \cup {RELEASE, STANDBY})
  <2>1. \/ acked' = acked
        \/ acked' = [acked EXCEPT ![wakeSrc[k]] = "clear"]
    BY DEF WakeStep, WakeBegins, WakeChecks, WakeSends, WakeAcked, WakeTimesOut
  <2>2. air' = air \/ air' = air \cup {wakeSrc[k]}
    BY DEF WakeStep, WakeBegins, WakeChecks, WakeSends, WakeAcked, WakeTimesOut
  <2>3. /\ acked \in [Sources -> {"none", "clear", "set"}]
        /\ air \in SUBSET (Sources \cup {RELEASE, STANDBY})
        /\ wakeSrc[k] \in Sources
    BY DEF TypeOK
  <2>4. acked' \in [Sources -> {"none", "clear", "set"}]
    BY <2>1, <2>3
  <2>5. air' \in SUBSET (Sources \cup {RELEASE, STANDBY})
    BY <2>2, <2>3
  <2>6. QED
    BY <2>4, <2>5
<1>3. wakeFrame
  BY DEF WakeStep, WakeBegins, WakeChecks, WakeSends, WakeAcked, WakeTimesOut
<1>4. QED
  BY <1>1, <1>2, <1>3 DEF TypeOK, wakeFrame, streams, mainVars, watchVars

LEMMA ProcessTypeOK ==
    ASSUME TypeOK, Shutdown \/ ProviderStops \/ Exit \/ Crash
    PROVE  TypeOK'
<1> USE DEF TypeOK, streams, shared, mainVars, watchVars, wakeVars
<1>1. CASE Shutdown
  BY <1>1 DEF Shutdown
<1>2. CASE ProviderStops
  BY <1>2, StreamsTypeOK DEF ProviderStops
<1>3. CASE Exit \/ Crash
  <2>1. Restarted
    BY <1>3 DEF Exit, Crash
  <2>2. /\ inbox' \in Seq(Telegram) /\ 0 \in 0 .. StopPolls - 1
        /\ playing' \in [Sources -> BOOLEAN]
    BY <2>1 DEF Restarted
  <2>3. /\ acked' \in [Sources -> {"none", "clear", "set"}]
        /\ watchPc' \in [Sources -> {"poll", "started", "stopped"}]
        /\ believes' \in [Sources -> BOOLEAN]
        /\ streak' \in [Sources -> 0 .. StopPolls - 1]
        /\ watchTodo' \in [Sources -> SUBSET Sources]
        /\ wakePc' \in [Wakers -> {"off", "begin", "check", "send", "wait"}]
        /\ attempt' \in [Wakers -> 0 .. MaxAttempts]
    BY <2>1, <2>2 DEF Restarted
  <2>4. /\ starting' \in SUBSET Sources /\ begun' = {} /\ granted' = {} /\ recent' = {} /\ asked' = {}
        /\ mainPc' = "listen" /\ mainTodo' = {}
        /\ UNCHANGED <<mainSrc, wakeSrc, am, tracker, air>>
    BY <2>1 DEF Restarted
  <2>5. QED
    BY <2>2, <2>3, <2>4
<1>4. QED
  BY <1>1, <1>2, <1>3

LEMMA DeliverTypeOK ==
    ASSUME TypeOK, NEW telegrams \in Seq(Telegram), Deliver(telegrams)
    PROVE  inbox' \in Seq(Telegram)
  BY DEF TypeOK, Deliver

\* What the master may deliver keeps the inbox a sequence of telegrams.
LEMMA SelectsTypeOK ==
    ASSUME TypeOK, NEW s \in Sources, Selects(s)
    PROVE  am' \in Sources \cup {Other, Off} /\ inbox' \in Seq(Telegram)
<1>1. About(DIST_REQUEST, s) \in Telegram
  BY TelegramsAreTyped
<1>2. am \in Sources => About(STANDBY, am) \in Telegram
  BY TelegramsAreTyped
<1>3. CASE am \in Sources \ {s}
  <2> DEFINE request == About(DIST_REQUEST, s)
             leave   == About(STANDBY, am)
  <2>1. <<request, leave>> \in Seq(Telegram) /\ <<leave, request>> \in Seq(Telegram)
    BY <1>1, <1>2, <1>3
  <2>2. Deliver(<<request, leave>>) \/ Deliver(<<leave, request>>)
    BY <1>3 DEF Selects
  <2>3. QED
    BY <2>1, <2>2, DeliverTypeOK DEF Selects
<1>4. CASE am \notin Sources \ {s}
  <2>1. Deliver(<<About(DIST_REQUEST, s)>>)
    BY <1>4 DEF Selects
  <2>2. QED
    <3>1. <<About(DIST_REQUEST, s)>> \in Seq(Telegram)
      BY <1>1
    <3>2. QED
      BY <2>1, <3>1, DeliverTypeOK DEF Selects
<1>5. QED
  BY <1>3, <1>4

LEMMA EnvironmentTypeOK ==
    ASSUME TypeOK, Environment
    PROVE  TypeOK'
<1> USE DEF streams, shared, mainVars, watchVars, wakeVars, bridgeFrame
<1>1. ASSUME NEW s \in Sources, UserSelects(s)
      PROVE  TypeOK'
  BY <1>1, SelectsTypeOK DEF TypeOK, UserSelects
<1>2. ASSUME NEW s \in Sources, AmWoken(s)
      PROVE  TypeOK'
  BY <1>2, SelectsTypeOK DEF TypeOK, AmWoken
<1>3. ASSUME NEW s \in Sources, StreamEnds(s) \/ WindowCloses(s)
      PROVE  TypeOK'
  BY <1>3 DEF TypeOK, StreamEnds, WindowCloses
<1>4. ASSUME NEW dest \in {Other, Off}, UserLeaves(dest)
      PROVE  TypeOK'
  <2>1. inbox' \in Seq(Telegram)
    <3>1. CASE \E type \in {RELEASE, STANDBY} :
                  \E src \in {am, Generic} \ {Other, Off} :
                     Deliver(<<About(type, src)>>)
      <4>1. PICK type \in {RELEASE, STANDBY}, src \in {am, Generic} \ {Other, Off} :
               Deliver(<<About(type, src)>>)
        BY <3>1
      <4>2. src \in Sources \cup {Generic, Foreign}
        BY DEF TypeOK
      <4>3. QED
        <5>1. <<About(type, src)>> \in Seq(Telegram)
          BY <4>2, TelegramsAreTyped
        <5>2. QED
          BY <4>1, <5>1, DeliverTypeOK
    <3>2. CASE \E type \in {DIST_REQUEST, RELEASE} :
                  Deliver(<<About(type, Foreign)>>)
      <4>1. PICK type \in {DIST_REQUEST, RELEASE} :
               Deliver(<<About(type, Foreign)>>)
        BY <3>2
      <4>2. <<About(type, Foreign)>> \in Seq(Telegram)
        BY TelegramsAreTyped
      <4>3. QED
        BY <4>1, <4>2, DeliverTypeOK
    <3>3. QED
      BY <1>4, <3>1, <3>2 DEF UserLeaves
  <2>2. QED
    BY <1>4, <2>1 DEF TypeOK, UserLeaves
<1>5. ASSUME NEW type \in {RELEASE, STANDBY}, AmStopped(type)
      PROVE  TypeOK'
  BY <1>5 DEF TypeOK, AmStopped
<1>6. CASE TrackerPublishes
  BY <1>6 DEF TypeOK, TrackerPublishes
<1>7. CASE Reconnect
  <2>1. inbox' \in Seq(Telegram)
    BY <1>7 DEF Reconnect
  <2>2. QED
    BY <1>7, <2>1 DEF TypeOK, Reconnect
<1>8. ASSUME NEW s \in Sources, StreamStarts(s) \/ BackendFollows(s)
      PROVE  TypeOK'
  <2>1. /\ playing' \in [Sources -> BOOLEAN]
        /\ starting' \in SUBSET Sources /\ begun' \in SUBSET Sources
    BY <1>8, StreamsTypeOK DEF StreamStarts, BackendFollows, TypeOK
  <2>2. UNCHANGED <<inbox, am, tracker, air>> /\ bridgeFrame
    BY <1>8 DEF StreamStarts, BackendFollows
  <2>3. QED
    BY <2>1, <2>2 DEF TypeOK
<1>9. QED
  BY <1>1, <1>2, <1>3, <1>4, <1>5, <1>6, <1>7, <1>8 DEF Environment

LEMMA NextTypeOK == TypeOK /\ [Next]_vars => TypeOK'
<1> SUFFICES ASSUME TypeOK, [Next]_vars PROVE TypeOK'
  OBVIOUS
<1>1. CASE UNCHANGED vars
  BY <1>1 DEF TypeOK, vars, streams, shared, mainVars, watchVars, wakeVars
<1>2. CASE Next
  BY <1>2, MainTypeOK, WatchTypeOK, WakeTypeOK, ProcessTypeOK, EnvironmentTypeOK
     DEF Next
<1>3. QED
  BY <1>1, <1>2

\* The state of the role and of its threads keeps its shape for ever.
THEOREM TypeCorrect == Spec => []TypeOK
  BY InitTypeOK, NextTypeOK, PTL DEF Spec

-----------------------------------------------------------------------------
(***************************************************************************)
(* Grants.  Only the main thread touches them, and its handlers treat      *)
(* _granted and the history variable `asked` alike, except that the        *)
(* duplicate check adds to `asked` only.                                   *)
(***************************************************************************)

GrantInv == GrantSound /\ ClaimIsGranted

LEMMA NextGrantInv == TypeOK /\ GrantInv /\ [Next]_vars => GrantInv'
<1> SUFFICES ASSUME TypeOK, GrantInv, [Next]_vars PROVE GrantInv'
  OBVIOUS
<1> USE DEF GrantInv, GrantSound, ClaimIsGranted, shared, mainVars
<1>1. CASE UNCHANGED <<granted, asked, mainPc, mainSrc>>
  BY <1>1
<1>2. CASE Dispatch
  <2>1. CASE OnDistRequest(Head(inbox).src)
    BY <2>1 DEF OnDistRequest
  <2>2. CASE Drop(Head(inbox).src)
    BY <2>2 DEF Drop
  <2>3. QED
    BY <1>2, <2>1, <2>2 DEF Dispatch, OnRelease, OnStandby
<1>3. CASE MainPausesOther
  BY <1>3 DEF MainPausesOther
<1>4. CASE Claim \/ MainPauses
  BY <1>4 DEF Claim, MainPauses
<1>5. CASE Shutdown
  BY <1>5 DEF Shutdown
<1>6. CASE Exit \/ Crash
  BY <1>6 DEF Exit, Crash, Restarted
<1>7. CASE Environment
  BY <1>1, <1>7 DEF Environment, bridgeFrame, UserSelects, UserLeaves, AmWoken,
       AmStopped, StreamStarts, StreamEnds, BackendFollows, WindowCloses,
       TrackerPublishes, Reconnect
<1>8. ASSUME NEW s \in Sources, WatchStep(s) PROVE GrantInv'
  BY <1>1, <1>8 DEF WatchStep, Poll, WatcherPausesOther, DecideWake, StreamStopped
<1>9. ASSUME NEW k \in Wakers, WakeStep(k) PROVE GrantInv'
  BY <1>1, <1>9 DEF WakeStep, WakeBegins, WakeChecks, WakeSends, WakeAcked,
       WakeTimesOut, wakeFrame
<1>10. CASE ProviderStops
  BY <1>1, <1>10 DEF ProviderStops
<1>11. CASE UNCHANGED vars
  BY <1>1, <1>11 DEF vars
<1>12. QED
  BY <1>2, <1>3, <1>4, <1>5, <1>6, <1>7, <1>8, <1>9, <1>10, <1>11 DEF Next, MainStep

LEMMA GrantInvariant == Spec => []GrantInv
<1>1. Init => GrantInv
  BY DEF Init, GrantInv, GrantSound, ClaimIsGranted
<1>2. QED
  BY <1>1, NextGrantInv, TypeCorrect, PTL DEF Spec

\* A source is granted only while the last word about it was a DIST_REQUEST.
THEOREM GrantsAreSound == Spec => []GrantSound
<1>1. GrantInv => GrantSound
  BY DEF GrantInv
<1>2. QED
  BY <1>1, GrantInvariant, PTL

\* A claim handshake in progress is for a source that is granted.
THEOREM ClaimsAreGranted == Spec => []ClaimIsGranted
<1>1. GrantInv => ClaimIsGranted
  BY DEF GrantInv
<1>2. QED
  BY <1>1, GrantInvariant, PTL

-----------------------------------------------------------------------------
(***************************************************************************)
(* Silence before a claim.  A provider already looked at by the handler    *)
(* stays silent until its stream begins anew, which `begun' records: the   *)
(* watchers only pause, and play() comes after the telegrams.              *)
(***************************************************************************)

SilenceInv ==
    mainPc \in {"pause_others", "handshake"} =>
        /\ mainPc = "handshake" => mainTodo = {}
        /\ \A p \in Sources \ ({mainSrc} \cup Deaf \cup mainTodo) :
              playing[p] => p \in begun

\* Steps that leave the main thread alone and start no stream unnoted.
LEMMA QuietStep ==
    ASSUME SilenceInv, UNCHANGED <<mainPc, mainSrc, mainTodo>>,
           begun \subseteq begun',
           mainPc \in {"pause_others", "handshake"} =>
               \A p \in Sources : playing'[p] => playing[p] \/ p \in begun'
    PROVE  SilenceInv'
  BY DEF SilenceInv

\* A pause makes nothing play, and the one it is for plays on only if deaf.
LEMMA PauseSilences ==
    ASSUME TypeOK, NEW p \in Sources, Pause(p) \/ PauseIfPlaying(p)
    PROVE  /\ begun' = begun
           /\ \A q \in Sources : playing'[q] => playing[q]
           /\ p \notin Deaf => ~playing'[p]
  BY DEF TypeOK, Pause, PauseIfPlaying, streams

LEMMA MainSilenceInv ==
    ASSUME TypeOK, SilenceInv, MainStep
    PROVE  SilenceInv'
<1>1. CASE Dispatch
  <2>1. CASE OnDistRequest(Head(inbox).src)
    <3>1. mainPc = "listen"
      BY <1>1 DEF Dispatch
    <3>2. CASE mainPc' = "pause_others" /\ mainTodo' = Sources \ {mainSrc'}
      BY <3>2 DEF SilenceInv
    <3>3. CASE mainPc' = mainPc
      BY <3>1, <3>3 DEF SilenceInv
    <3>4. QED
      BY <2>1, <3>2, <3>3 DEF OnDistRequest, mainVars
  <2>2. CASE Drop(Head(inbox).src)
    BY <2>2 DEF Drop, SilenceInv
  <2>3. QED
    BY <1>1, <2>1, <2>2 DEF Dispatch, OnRelease, OnStandby
<1>2. CASE MainPausesOther
  <2>1. CASE mainTodo = {}
    BY <1>2, <2>1 DEF MainPausesOther, streams, SilenceInv
  <2>2. CASE mainTodo # {}
    <3>1. PICK p \in mainTodo : PauseIfPlaying(p) /\ mainTodo' = mainTodo \ {p}
      BY <1>2, <2>2 DEF MainPausesOther
    <3>2. p \in Sources
      BY DEF TypeOK
    <3>3. mainPc = "pause_others" /\ UNCHANGED <<mainPc, mainSrc>>
      BY <1>2, <2>2 DEF MainPausesOther
    <3>4. QED
      BY <3>1, <3>2, <3>3, PauseSilences DEF SilenceInv
  <2>3. QED
    BY <2>1, <2>2
<1>3. CASE Claim \/ MainPauses
  <2>1. mainPc' \in {"listen", "pause"}
    BY <1>3 DEF Claim, MainPauses
  <2>2. QED
    BY <2>1 DEF SilenceInv
<1>4. QED
  BY <1>1, <1>2, <1>3 DEF MainStep

LEMMA WatchSilenceInv ==
    ASSUME TypeOK, SilenceInv, NEW s \in Sources, WatchStep(s)
    PROVE  SilenceInv'
<1>1. UNCHANGED <<mainPc, mainSrc, mainTodo>>
  BY DEF WatchStep, Poll, WatcherPausesOther, DecideWake, StreamStopped, mainVars
<1>2. begun' = begun /\ \A q \in Sources : playing'[q] => playing[q]
  <2>1. CASE WatcherPausesOther(s)
    <3>1. PICK p \in watchTodo[s] : PauseIfPlaying(p)
      BY <2>1 DEF WatcherPausesOther
    <3>2. p \in Sources
      BY DEF TypeOK
    <3>3. QED
      BY <3>1, <3>2, PauseSilences
  <2>2. CASE Poll(s) \/ DecideWake(s) \/ StreamStopped(s)
    BY <2>2 DEF Poll, DecideWake, StreamStopped, shared, streams
  <2>3. QED
    BY <2>1, <2>2 DEF WatchStep
<1>3. QED
  BY <1>1, <1>2, QuietStep

LEMMA ProcessSilenceInv ==
    ASSUME SilenceInv, Shutdown \/ ProviderStops \/ Exit \/ Crash
    PROVE  SilenceInv'
<1>1. mainPc' \in {"closing", "listen"}
  BY DEF Shutdown, ProviderStops, Exit, Crash, Restarted
<1>2. QED
  BY <1>1 DEF SilenceInv

LEMMA EnvironmentSilenceInv ==
    ASSUME TypeOK, SilenceInv, Environment
    PROVE  SilenceInv'
<1>1. UNCHANGED <<mainPc, mainSrc, mainTodo>>
  BY DEF Environment, bridgeFrame, mainVars, UserSelects, UserLeaves, AmWoken,
       AmStopped, StreamStarts, StreamEnds, BackendFollows, WindowCloses,
       TrackerPublishes, Reconnect
<1>2. CASE \E s \in Sources : Streams(s) /\ Noted(s)
  <2>1. PICK s \in Sources : Streams(s) /\ Noted(s)
    BY <1>2
  <2>2. /\ begun \subseteq begun'
        /\ mainPc \in {"pause_others", "handshake"} =>
              \A p \in Sources : playing'[p] => playing[p] \/ p \in begun'
    BY <2>1 DEF Streams, Noted, TypeOK
  <2>3. QED
    BY <1>1, <2>2, QuietStep
<1>3. CASE begun' = begun /\ \A p \in Sources : playing'[p] => playing[p]
  BY <1>1, <1>3, QuietStep
<1>4. \/ \E s \in Sources : Streams(s) /\ Noted(s)
      \/ begun' = begun /\ \A p \in Sources : playing'[p] => playing[p]
  BY DEF Environment, UserSelects, UserLeaves, AmWoken, AmStopped, StreamStarts,
       StreamEnds, BackendFollows, WindowCloses, TrackerPublishes, Reconnect,
       shared, streams, TypeOK
<1>5. QED
  BY <1>2, <1>3, <1>4

LEMMA NextSilenceInv == TypeOK /\ SilenceInv /\ [Next]_vars => SilenceInv'
<1> SUFFICES ASSUME TypeOK, SilenceInv, [Next]_vars PROVE SilenceInv'
  OBVIOUS
<1>1. ASSUME NEW k \in Wakers, WakeStep(k) PROVE SilenceInv'
  <2>1. UNCHANGED <<streams, mainPc, mainSrc, mainTodo>>
    BY <1>1 DEF WakeStep, WakeBegins, WakeChecks, WakeSends, WakeAcked,
         WakeTimesOut, wakeFrame, mainVars
  <2>2. QED
    BY <2>1, QuietStep DEF streams
<1>2. CASE UNCHANGED vars
  BY <1>2, QuietStep DEF vars, shared, streams, mainVars
<1>3. QED
  BY <1>1, <1>2, MainSilenceInv, WatchSilenceInv, ProcessSilenceInv,
     EnvironmentSilenceInv DEF Next

\* When the first telegram of a claim goes out, every other stream that could
\* be paused is silent, or began while the handler was pausing the rest.
THEOREM OthersAreSilent == Spec => []SilencedFirst
<1>1. Init => SilenceInv
  BY DEF Init, SilenceInv
<1>2. SilenceInv => SilencedFirst
  BY DEF SilenceInv, SilencedFirst
<1>3. QED
  BY <1>1, <1>2, NextSilenceInv, TypeCorrect, PTL DEF Spec

=============================================================================
