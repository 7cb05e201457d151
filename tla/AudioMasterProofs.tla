-------------------------- MODULE AudioMasterProofs --------------------------
(***************************************************************************)
(* Type correctness of the audio master and the absence of dead air, for   *)
(* any providers, scenarios, timers and any bound on the telegrams waiting.*)
(***************************************************************************)
EXTENDS AudioMaster, SequenceTheorems, TLAPS

USE DEF backend

Kinds == {"GOTO_SOURCE", "RELEASE", "VIRTUAL_BEO4"}
Telegrams == [kind : Kinds, src : Providers \cup {Generic, Foreign} \cup Keys]

\* What a watcher sends to the room.
Calls == {Goto(p) : p \in Providers} \cup {Leave(Generic)}

\* The environment's types, and what the main thread carries from a goto.
Wires ==
    /\ inbox \in Seq(Telegrams)
    /\ air \in Seq(Calls)
    /\ room \in Providers \cup {Off}
    /\ believes \in [Providers -> BOOLEAN]
    /\ mainPc = "goto" => mainSrc \in Providers

Types == TypeOK /\ Wires

-----------------------------------------------------------------------------
\* The LIGHT channel keeps its type in every step of the main thread and of a
\* timer.
LightTypeOK ==
    /\ channel \in BOOLEAN
    /\ timers \in [Timers -> {"off", "running", "due"}]
    /\ timer \in Timers \cup {NoTimer}

LEMMA LightTypes ==
    ASSUME LightTypeOK,
           (\E key : OnKey(key)) \/ (\E t \in Timers : TimerStep(t)) \/ UNCHANGED lightVars
    PROVE  LightTypeOK'
<1>1. Cancelled \in [Timers -> {"off", "running", "due"}]
  BY DEF LightTypeOK, Cancelled
<1>2. ASSUME ResetTimer PROVE /\ timers' \in [Timers -> {"off", "running", "due"}]
                              /\ timer' \in Timers
  BY <1>1, <1>2 DEF ResetTimer
<1>3. ASSUME NEW key, OnKey(key) PROVE LightTypeOK'
  <2>1. CASE Arm
    BY <2>1, <1>2 DEF LightTypeOK, Arm
  <2>2. CASE Disarm
    BY <2>2, <1>1 DEF LightTypeOK, Disarm
  <2>3. CASE ResetTimer /\ UNCHANGED channel
    BY <2>3, <1>2 DEF LightTypeOK
  <2>4. CASE UNCHANGED lightVars
    BY <2>4 DEF LightTypeOK, lightVars
  <2> QED
    BY <1>3, <2>1, <2>2, <2>3, <2>4 DEF OnKey
<1>4. ASSUME NEW t \in Timers, TimerStep(t) PROVE LightTypeOK'
  BY <1>4 DEF LightTypeOK, TimerStep, Expires, OnLocalTimeout
<1>5. CASE UNCHANGED lightVars
  BY <1>5 DEF LightTypeOK, lightVars
<1> QED
  BY <1>3, <1>4, <1>5

\* Every telegram of the model is one.
LEMMA Addressed ==
    /\ \A p \in Providers : Goto(p) \in Telegrams /\ Goto(p) \in Calls
    /\ Goto(Foreign) \in Telegrams
    /\ \A p \in Providers \cup {Generic, Foreign} : Leave(p) \in Telegrams
    /\ Leave(Generic) \in Calls
    /\ \A k \in Keys : Key(k) \in Telegrams
BY DEF Telegrams, Kinds, Calls, Goto, Leave, Key, Telegram

LEMMA Called ==
    ASSUME NEW t \in Calls
    PROVE  /\ t \in Telegrams
           /\ t.kind = "GOTO_SOURCE" => t.src \in Providers /\ t = Goto(t.src)
           /\ t.kind \in {"GOTO_SOURCE", "RELEASE"}
BY DEF Telegrams, Kinds, Calls, Goto, Leave, Telegram

LEMMA TypesInit == Init => Types
<1> SUFFICES ASSUME Init PROVE Types
  OBVIOUS
<1>1. /\ channel \in BOOLEAN
      /\ timers \in [Timers -> {"off", "running", "due"}]
      /\ timer \in Timers \cup {NoTimer}
  BY DEF Init, LightInit
<1>2. watchPc \in [Providers -> {"poll", "started", "stopped"}]
  BY DEF Init
<1>3. playing \in [Providers -> BOOLEAN]
  BY DEF Init
<1>7. refused \subseteq Providers
  BY DEF Init
<1>4. streak \in [Providers -> 0..2]
  BY DEF Init
<1>5. Wires
  BY DEF Init, Wires
<1>6. mainPc \in {"listen", "goto", "pauseall"} /\ mainTodo \subseteq Providers
  BY DEF Init
<1> QED
  BY <1>1, <1>2, <1>3, <1>4, <1>5, <1>6, <1>7 DEF Types, TypeOK

\* Pausing one provider keeps the type.
LEMMA PauseTypes ==
    ASSUME playing \in [Providers -> BOOLEAN], NEW p, Pause(p)
    PROVE  playing' \in [Providers -> BOOLEAN] /\ refused' = refused
BY DEF Pause

LEMMA TypesStep == Types /\ [Next]_vars => Types'
<1> SUFFICES ASSUME Types, [Next]_vars PROVE Types'
  OBVIOUS
<1> USE DEF Types
<1> USE ProvidersAssumption
<1>0. LightTypeOK
  BY DEF TypeOK, LightTypeOK
<1>1. CASE Take
  <2> DEFINE t == Head(inbox)
  <2>1. t \in Telegrams /\ inbox' \in Seq(Telegrams)
    BY <1>1, HeadTailProperties DEF Take, Wires
  <2> HIDE DEF t
  <2>2. CASE OnKey(t.src) /\ UNCHANGED <<amVars, backend>>
    <3>1. LightTypeOK'
      BY <2>2, <1>0, LightTypes
    <3> QED
      BY <1>1, <2>1, <2>2, <3>1 DEF Take, TypeOK, Wires, LightTypeOK, amVars, watchVars
  <2>3. CASE OnGotoSource(t.src) /\ UNCHANGED lightVars
    BY <1>1, <2>1, <2>3 DEF Take, TypeOK, Wires, lightVars, amVars, watchVars, OnGotoSource
  <2>4. CASE OnRelease(t.src) /\ UNCHANGED lightVars
    <3>1. playing' \in [Providers -> BOOLEAN] /\ refused' = refused
      BY <2>4, PauseTypes DEF OnRelease, TypeOK
    <3> QED
      BY <1>1, <2>1, <2>4, <3>1 DEF Take, TypeOK, Wires, lightVars, amVars, watchVars, OnRelease
  <2> QED
    BY <1>1, <2>2, <2>3, <2>4 DEF Take, t
<1>2. CASE MainPauses
  <2>1. playing' \in [Providers -> BOOLEAN] /\ refused' = refused
    BY <1>2, PauseTypes DEF MainPauses, TypeOK
  <2> QED
    BY <1>2, <2>1 DEF MainPauses, TypeOK, Wires, lightVars, watchVars
<1>3. CASE MainDone
  BY <1>3 DEF MainDone, TypeOK, Wires, lightVars, watchVars
<1>4. CASE MainPlays
  BY <1>4 DEF MainPlays, Play, TypeOK, Wires, lightVars, watchVars
<1>5. ASSUME NEW p \in Providers, Poll(p) PROVE Types'
  <2>1. watchPc' \in [Providers -> {"poll", "started", "stopped"}]
    BY <1>5 DEF Poll, StreamStarted, TypeOK
  <2>2. believes' \in [Providers -> BOOLEAN]
    BY <1>5 DEF Poll, Wires
  <2>3. streak' \in [Providers -> 0..2]
    BY <1>5 DEF Poll, TypeOK
  <2> QED
    BY <1>5, <2>1, <2>2, <2>3 DEF Poll, TypeOK, Wires, lightVars, amVars
<1>6. ASSUME NEW p \in Providers, SecondsPass(p) PROVE Types'
  BY <1>6 DEF SecondsPass, TypeOK, Wires, lightVars, amVars
<1>7. ASSUME NEW p \in Providers, WatcherPauses(p) PROVE Types'
  <2>1. playing' \in [Providers -> BOOLEAN] /\ refused' = refused
    BY <1>7, PauseTypes DEF WatcherPauses, TypeOK
  <2> QED
    BY <1>7, <2>1 DEF WatcherPauses, TypeOK, Wires, lightVars, amVars
<1>8. ASSUME NEW p \in Providers, WatcherWakes(p) PROVE Types'
  <2>1. air' \in Seq(Calls)
    BY <1>8, Addressed, AppendProperties DEF WatcherWakes, Wires
  <2> QED
    BY <1>8, <2>1 DEF WatcherWakes, TypeOK, Wires, lightVars, amVars
<1>9. ASSUME NEW p \in Providers, StreamStopped(p) PROVE Types'
  <2>1. air' \in Seq(Calls)
    BY <1>9, Addressed, AppendProperties DEF StreamStopped, Wires
  <2> QED
    BY <1>9, <2>1 DEF StreamStopped, TypeOK, Wires, lightVars, amVars
<1>10. ASSUME NEW p \in Providers, StreamStarts(p) \/ StreamEnds(p) PROVE Types'
  BY <1>10 DEF StreamStarts, StreamEnds, TypeOK, Wires, lightVars, amVars, watchVars
<1>11. CASE UserSelects
  <2>1. inbox' \in Seq(Telegrams)
    BY <1>11, Addressed, AppendProperties DEF UserSelects, Deliver, Wires
  <2> QED
    BY <1>11, <2>1 DEF UserSelects, TypeOK, Wires, lightVars, amVars, watchVars
<1>12. CASE UserLeaves
  <2>1. inbox' \in Seq(Telegrams)
    BY <1>12, Addressed, AppendProperties DEF UserLeaves, Deliver, Wires
  <2> QED
    BY <1>12, <2>1 DEF UserLeaves, TypeOK, Wires, lightVars, amVars, watchVars
<1>13. CASE RoomHears
  <2>1. Head(air) \in Calls /\ air' \in Seq(Calls)
    BY <1>13, HeadTailProperties DEF RoomHears, Wires
  <2>2. room' \in Providers \cup {Off}
    BY <1>13, <2>1, Called DEF RoomHears
  <2>3. inbox' \in Seq(Telegrams)
    <3>1. Head(air) \in Telegrams
      BY <2>1, Called
    <3>2. inbox' = Append(inbox, Head(air)) \/ inbox' = inbox
      BY <1>13 DEF RoomHears, Deliver
    <3> QED
      BY <3>1, <3>2, AppendProperties DEF Wires
  <2> QED
    BY <1>13, <2>1, <2>2, <2>3 DEF RoomHears, TypeOK, Wires, lightVars, amVars, watchVars
<1>14. CASE KeyPress
  <2>1. inbox' \in Seq(Telegrams)
    BY <1>14, Addressed, AppendProperties DEF KeyPress, Deliver, Wires
  <2> QED
    BY <1>14, <2>1 DEF KeyPress, TypeOK, Wires, lightVars, amVars, watchVars
<1>15. ASSUME NEW t \in Timers, LightStep(t) PROVE Types'
  <2>1. LightTypeOK'
    BY <1>15, <1>0, LightTypes DEF LightStep
  <2> QED
    BY <1>15, <2>1 DEF LightStep, TypeOK, LightTypeOK, Wires, amVars, watchVars
<1>16. CASE UNCHANGED vars
  BY <1>16 DEF vars, TypeOK, Wires, lightVars, amVars, watchVars
<1> QED
  BY <1>1, <1>2, <1>3, <1>4, <1>5, <1>6, <1>7, <1>8, <1>9, <1>10, <1>11, <1>12, <1>13,
     <1>14, <1>15, <1>16 DEF Next, Main, Watch

\* The audio master's state, and its LIGHT handler's, have their types in every
\* reachable state.
THEOREM TypeCorrect == Spec => []TypeOK
<1>1. Types => TypeOK
  BY DEF Types
<1> QED
  BY <1>1, TypesInit, TypesStep, PTL DEF Spec

-----------------------------------------------------------------------------
(* No dead air.                                                            *)

\* inbox[i] is the last telegram waiting that can touch a source.
IsLast(i) ==
    /\ i \in 1..Len(inbox) /\ inbox[i].kind # "VIRTUAL_BEO4"
    /\ \A j \in 1..Len(inbox) : j > i => inbox[j].kind = "VIRTUAL_BEO4"

OnlyKeys == \A i \in 1..Len(inbox) : inbox[i].kind = "VIRTUAL_BEO4"

\* The stream of the room's source runs, or its watcher is about to say that it
\* ended, or one is about to wake the room to another; or it did not start.
Attended ==
    \/ playing[room] \/ believes[room] \/ watchPc[room] = "stopped"
    \/ room \in refused
    \/ \E q \in Providers : watchPc[q] = "started"

\* A room tuned to a provider, with nothing of ours on its way to it: the last
\* thing to be done for it is to start that provider, or it is attended to.
Kept ==
    (air = <<>> /\ room \in Providers) =>
        /\ \A i \in 1..Len(inbox) : IsLast(i) => inbox[i] = Goto(room)
        /\ OnlyKeys => /\ mainPc = "goto" => mainSrc = room
                       /\ mainPc # "pauseall"
                       /\ mainPc = "listen" => Attended

\* A telegram of a source that arrives is then the last.
LEMMA LastArrives ==
    ASSUME inbox \in Seq(Telegrams), NEW t \in Telegrams, t.kind # "VIRTUAL_BEO4",
           inbox' = Append(inbox, t)
    PROVE  /\ \A i \in 1..Len(inbox') : IsLast(i)' => inbox'[i] = t
           /\ ~OnlyKeys'
<1> DEFINE n == Len(inbox)
<1>1. /\ n \in Nat /\ Len(inbox') = n + 1 /\ inbox'[n + 1] = t
  BY AppendProperties, LenProperties
<1> HIDE DEF n
<1>2. n + 1 \in 1..Len(inbox')
  BY <1>1
<1>3. ~OnlyKeys'
  BY <1>1, <1>2 DEF OnlyKeys
<1>4. ASSUME NEW i \in 1..Len(inbox'), IsLast(i)' PROVE inbox'[i] = t
  <2>1. i = n + 1 \/ i < n + 1
    BY <1>1
  <2> QED
    BY <2>1, <1>4, <1>1, <1>2 DEF IsLast
<1> QED
  BY <1>3, <1>4

\* A key that arrives changes nothing of that.
LEMMA KeyArrives ==
    ASSUME inbox \in Seq(Telegrams), NEW t \in Telegrams, t.kind = "VIRTUAL_BEO4",
           inbox' = Append(inbox, t)
    PROVE  /\ \A i \in 1..Len(inbox') : IsLast(i)' =>
                  i \in 1..Len(inbox) /\ IsLast(i) /\ inbox'[i] = inbox[i]
           /\ OnlyKeys' => OnlyKeys
<1> DEFINE n == Len(inbox)
<1>1. /\ n \in Nat /\ Len(inbox') = n + 1 /\ inbox'[n + 1] = t
      /\ \A i \in 1..n : inbox'[i] = inbox[i]
  BY AppendProperties, LenProperties
<1> HIDE DEF n
<1>2. \A i \in 1..n : i \in 1..Len(inbox')
  BY <1>1
<1>3. OnlyKeys' => OnlyKeys
  BY <1>1, <1>2 DEF OnlyKeys, n
<1>4. ASSUME NEW i \in 1..Len(inbox'), IsLast(i)'
      PROVE  i \in 1..Len(inbox) /\ IsLast(i) /\ inbox'[i] = inbox[i]
  <2>1. i \in 1..n
    BY <1>4, <1>1 DEF IsLast
  <2> QED
    BY <2>1, <1>4, <1>1, <1>2 DEF IsLast, n
<1> QED
  BY <1>3, <1>4

\* What is last after a telegram is taken was last before.
LEMMA LastStays ==
    ASSUME inbox \in Seq(Telegrams), inbox # <<>>, inbox' = Tail(inbox)
    PROVE  /\ 1 \in 1..Len(inbox) /\ inbox[1] = Head(inbox)
           /\ \A i \in 1..Len(inbox') : IsLast(i)' =>
                  i + 1 \in 1..Len(inbox) /\ IsLast(i + 1) /\ inbox'[i] = inbox[i + 1]
           /\ OnlyKeys' => IF Head(inbox).kind = "VIRTUAL_BEO4" THEN OnlyKeys ELSE IsLast(1)
<1> DEFINE n == Len(inbox)
<1>1. /\ n \in Nat /\ n > 0 /\ Len(inbox') = n - 1
      /\ \A i \in 1..(n - 1) : inbox'[i] = inbox[i + 1]
      /\ inbox[1] = Head(inbox)
  BY HeadTailProperties, LenProperties, EmptySeq
<1> HIDE DEF n
<1>2. ASSUME NEW i \in 1..Len(inbox'), IsLast(i)'
      PROVE  i + 1 \in 1..Len(inbox) /\ IsLast(i + 1) /\ inbox'[i] = inbox[i + 1]
  <2>1. i + 1 \in 1..n /\ inbox'[i] = inbox[i + 1] /\ inbox'[i].kind # "VIRTUAL_BEO4"
    BY <1>1, <1>2 DEF IsLast
  <2>2. ASSUME NEW j \in 1..n, j > i + 1 PROVE inbox[j].kind = "VIRTUAL_BEO4"
    <3>1. j - 1 \in 1..Len(inbox') /\ j - 1 > i /\ inbox'[j - 1] = inbox[j]
      BY <1>1, <2>2
    <3> QED
      BY <3>1, <1>2 DEF IsLast
  <2> QED
    BY <2>1, <2>2 DEF IsLast, n
<1>3. ASSUME OnlyKeys', NEW j \in 1..n, j > 1 PROVE inbox[j].kind = "VIRTUAL_BEO4"
  <2>1. j - 1 \in 1..Len(inbox') /\ inbox'[j - 1] = inbox[j]
    BY <1>1, <1>3
  <2> QED
    BY <2>1, <1>3 DEF OnlyKeys
<1>4. ASSUME OnlyKeys'
      PROVE  IF Head(inbox).kind = "VIRTUAL_BEO4" THEN OnlyKeys ELSE IsLast(1)
  <2>1. \A j \in 1..n : j = 1 \/ j > 1
    BY <1>1
  <2> QED
    BY <2>1, <1>3, <1>4, <1>1 DEF OnlyKeys, IsLast, n
<1> QED
  BY <1>1, <1>2, <1>4 DEF n

LEMMA KeptInit == Init => Kept
BY ProvidersAssumption DEF Init, Kept

\* The telegram taken was the last of a source, and then it asked for the room's,
\* or one behind it was, and nothing changed; the main thread was idle.
LEMMA KeptTake ==
    ASSUME Types, Kept, Take
    PROVE  Kept'
<1> DEFINE t == Head(inbox)
<1> SUFFICES ASSUME air' = <<>>, room' \in Providers
             PROVE  /\ \A i \in 1..Len(inbox') : IsLast(i)' => inbox'[i] = Goto(room')
                    /\ OnlyKeys' => /\ mainPc' = "goto" => mainSrc' = room'
                                    /\ mainPc' # "pauseall"
                                    /\ mainPc' = "listen" => Attended'
  BY DEF Kept
<1>0. /\ inbox \in Seq(Telegrams) /\ inbox # <<>> /\ inbox' = Tail(inbox)
      /\ air = <<>> /\ room \in Providers /\ room' = room /\ mainPc = "listen"
      /\ believes' = believes /\ watchPc' = watchPc
  BY DEF Take, Types, Wires, watchVars
<1>1. \A i \in 1..Len(inbox') : IsLast(i)' => inbox'[i] = Goto(room')
  BY <1>0, LastStays DEF Kept
<1>2. ASSUME OnlyKeys', t.kind = "VIRTUAL_BEO4"
      PROVE  mainPc' = "listen" /\ Attended'
  <2>1. OnlyKeys
    BY <1>0, <1>2, LastStays
  <2>2. Attended
    BY <2>1, <1>0 DEF Kept
  <2>3. UNCHANGED <<amVars, backend>>
    BY <1>2 DEF Take
  <2> QED
    BY <2>2, <2>3, <1>0 DEF Attended, amVars
<1>3. ASSUME OnlyKeys', t.kind # "VIRTUAL_BEO4"
      PROVE  mainPc' = "goto" /\ mainSrc' = room'
  <2>1. t = Goto(room)
    BY <1>0, <1>3, LastStays DEF Kept
  <2>2. t.kind = "GOTO_SOURCE" /\ t.src = room
    BY <2>1 DEF Goto, Telegram
  <2>3. OnGotoSource(t.src)
    BY <2>2 DEF Take
  <2> QED
    BY <2>2, <2>3, <1>0 DEF OnGotoSource
<1> QED
  BY <1>1, <1>2, <1>3

\* What the room hears last is what it is tuned to, and it asks for it.
LEMMA KeptHears ==
    ASSUME Types, RoomHears
    PROVE  Kept'
<1> DEFINE t == Head(air)
<1>0. /\ inbox \in Seq(Telegrams) /\ t \in Calls
  BY HeadTailProperties DEF RoomHears, Types, Wires
<1>1. CASE t.kind = "GOTO_SOURCE"
  <2>1. inbox' = Append(inbox, t) /\ room' = t.src
    BY <1>1 DEF RoomHears, Deliver
  <2>2. t \in Telegrams /\ t = Goto(room') /\ t.kind # "VIRTUAL_BEO4"
    BY <1>0, <1>1, <2>1, Called
  <2> HIDE DEF t
  <2>3. /\ \A i \in 1..Len(inbox') : IsLast(i)' => inbox'[i] = t
        /\ ~OnlyKeys'
    BY <1>0, <2>1, <2>2, LastArrives
  <2> QED
    BY <2>2, <2>3 DEF Kept
<1>2. CASE t.kind = "RELEASE"
  BY <1>2, ProvidersAssumption DEF RoomHears, Kept
<1> QED
  BY <1>1, <1>2 DEF RoomHears

LEMMA KeptStep == Types /\ Kept /\ [Next]_vars => Kept'
<1> SUFFICES ASSUME Types, Kept, [Next]_vars PROVE Kept'
  OBVIOUS
<1> USE ProvidersAssumption
<1>0. /\ inbox \in Seq(Telegrams) /\ air \in Seq(Calls)
      /\ playing \in [Providers -> BOOLEAN] /\ believes \in [Providers -> BOOLEAN]
      /\ watchPc \in [Providers -> {"poll", "started", "stopped"}]
      /\ room \in Providers \cup {Off}
  BY DEF Types, TypeOK, Wires
<1>1. CASE Take
  BY <1>1, KeptTake
<1>2. CASE MainPauses
  BY <1>2 DEF MainPauses, Kept, OnlyKeys, IsLast
<1>3. CASE MainDone
  BY <1>3 DEF MainDone, Kept, OnlyKeys, IsLast
<1>4. CASE MainPlays
  <2>1. room \in Providers /\ mainSrc = room => Attended'
    BY <1>4, <1>0 DEF MainPlays, Play, Attended, watchVars
  <2> QED
    BY <1>4, <2>1 DEF MainPlays, Kept, OnlyKeys, IsLast, Attended
<1>5. ASSUME NEW p \in Providers, Poll(p) PROVE Kept'
  <2>1. /\ UNCHANGED <<inbox, room, air, backend, mainPc, mainSrc>>
    BY <1>5 DEF Poll, amVars
  <2>2. room \in Providers => (Attended => Attended')
    <3>1. ASSUME NEW q \in Providers, watchPc[q] # "poll" PROVE watchPc'[q] = watchPc[q]
      BY <1>5, <1>0, <3>1 DEF Poll, StreamStarted
    <3>2. ASSUME room \in Providers, believes[room]
          PROVE  believes'[room] \/ watchPc'[room] = "stopped"
      BY <1>5, <1>0, <3>2 DEF Poll, StreamStarted
    <3> QED
      BY <2>1, <3>1, <3>2 DEF Attended
  <2> QED
    BY <2>1, <2>2 DEF Kept, OnlyKeys, IsLast
<1>6. ASSUME NEW p \in Providers, SecondsPass(p) PROVE Kept'
  BY <1>6 DEF SecondsPass, Kept, OnlyKeys, IsLast, Attended, amVars
<1>7. ASSUME NEW p \in Providers, WatcherPauses(p) PROVE Kept'
  <2>1. Attended'
    BY <1>7 DEF WatcherPauses, Attended
  <2> QED
    BY <1>7, <2>1 DEF WatcherPauses, Kept, OnlyKeys, IsLast, amVars
<1>8. ASSUME NEW p \in Providers, WatcherWakes(p) \/ StreamStopped(p) PROVE Kept'
  <2>1. \E t \in Calls : air' = Append(air, t)
    BY <1>8, Addressed DEF WatcherWakes, StreamStopped
  <2>2. air' # <<>>
    BY <2>1, <1>0, AppendProperties
  <2> QED
    BY <2>2 DEF Kept
<1>9. ASSUME NEW p \in Providers, StreamStarts(p) PROVE Kept'
  <2>1. room \in Providers => (Attended => Attended')
    BY <1>9, <1>0 DEF StreamStarts, Attended, watchVars
  <2> QED
    BY <1>9, <2>1 DEF StreamStarts, Kept, OnlyKeys, IsLast, amVars
<1>10. ASSUME NEW p \in Providers, StreamEnds(p) PROVE Kept'
  <2>1. room \in Providers => (Attended => Attended')
    BY <1>10, <1>0 DEF StreamEnds, Attended, watchVars
  <2> QED
    BY <1>10, <2>1 DEF StreamEnds, Kept, OnlyKeys, IsLast, amVars
<1>11. CASE UserSelects
  <2>1. PICK src \in Providers \cup {Foreign} :
            /\ inbox' = Append(inbox, Goto(src))
            /\ room' = IF src = Foreign THEN Off ELSE src
    BY <1>11 DEF UserSelects, Deliver
  <2>2. CASE src = Foreign
    BY <2>1, <2>2 DEF Kept
  <2>3. CASE src \in Providers
    <3>1. room' = src /\ Goto(src) \in Telegrams /\ Goto(src).kind # "VIRTUAL_BEO4"
      BY <2>1, <2>3, Addressed DEF Goto, Telegram
    <3>2. /\ \A i \in 1..Len(inbox') : IsLast(i)' => inbox'[i] = Goto(src)
          /\ ~OnlyKeys'
      BY <3>1, <2>1, <1>0, LastArrives
    <3> QED
      BY <3>1, <3>2 DEF Kept
  <2> QED
    BY <2>2, <2>3
<1>12. CASE UserLeaves
  BY <1>12 DEF UserLeaves, Kept
<1>13. CASE RoomHears
  BY <1>13, KeptHears
<1>14. CASE KeyPress
  <2>1. PICK k \in Keys : inbox' = Append(inbox, Key(k))
    BY <1>14 DEF KeyPress, Deliver
  <2>2. Key(k) \in Telegrams /\ Key(k).kind = "VIRTUAL_BEO4"
    BY Addressed DEF Key, Telegram
  <2>3. /\ \A i \in 1..Len(inbox') : IsLast(i)' =>
               i \in 1..Len(inbox) /\ IsLast(i) /\ inbox'[i] = inbox[i]
        /\ OnlyKeys' => OnlyKeys
    BY <2>1, <2>2, <1>0, KeyArrives
  <2>4. UNCHANGED <<air, room, mainPc, mainSrc>> /\ (Attended' <=> Attended)
    BY <1>14 DEF KeyPress, Attended, amVars, watchVars
  <2> QED
    BY <2>3, <2>4 DEF Kept
<1>15. ASSUME NEW t \in Timers, LightStep(t) PROVE Kept'
  BY <1>15 DEF LightStep, Kept, OnlyKeys, IsLast, Attended, amVars, watchVars
<1>16. CASE UNCHANGED vars
  BY <1>16 DEF vars, Kept, OnlyKeys, IsLast, Attended, amVars, watchVars
<1> QED
  BY <1>1, <1>2, <1>3, <1>4, <1>5, <1>6, <1>7, <1>8, <1>9, <1>10, <1>11, <1>12, <1>13,
     <1>14, <1>15, <1>16 DEF Next, Main, Watch

\* No dead air, whatever users, streams and watchers do and in whatever order the
\* telegrams pass: with everything handled, the speakers are not left on a source
\* whose stream has ended, unless it was told to play and did not.
THEOREM NoDeadAirHolds == Spec => []NoDeadAir
<1>1. Types /\ Kept => NoDeadAir
  <2> SUFFICES ASSUME Types, Kept, Calm, room \in Providers,
                      \A p \in Providers : watchPc[p] = "poll" /\ believes[p] = playing[p]
               PROVE  playing[room] \/ room \in refused
    BY DEF NoDeadAir
  <2>1. OnlyKeys
    BY DEF Calm, OnlyKeys
  <2>2. Attended
    BY <2>1 DEF Kept, Calm
  <2> QED
    BY <2>2 DEF Attended
<1> QED
  BY <1>1, TypesInit, TypesStep, KeptInit, KeptStep, PTL DEF Spec
================================================================================
