--------------------------- MODULE ProvidersProofs ---------------------------
(***************************************************************************)
(* Type correctness of several players behind one source and of the        *)
(* turntable beside them, for any players in any order, threads, bounds    *)
(* and scenarios.  The comprehension of is_playing is a recursive          *)
(* function: what it yields is shown by induction, from the least number   *)
(* of a set of numbers (the induction theorems of the library take an      *)
(* operator, which the provers cannot instantiate).                        *)
(***************************************************************************)
EXTENDS MCMultiSource, MCTurntable, SequenceTheorems, WellFoundedInduction, TLAPS

-----------------------------------------------------------------------------
(* Induction over the natural numbers, for sets.                           *)

LEMMA LeastOfSet ==
    ASSUME NEW T, T \subseteq Nat, T # {}
    PROVE  \E x \in T : \A y \in T : x <= y
<1> DEFINE R == {p \in Nat \X Nat : p[1] < p[2]}
<1>1. OpToRel(<, Nat) = R
  BY Zenon DEF OpToRel
<1>2. IsWellFoundedOn(R, Nat)
  BY Zenon, <1>1, NatLessThanWellFounded
<1>3. \E x \in T : \A y \in T : ~ (<<y, x>> \in R)
  BY WFMin, <1>2
<1>4. \A x, y \in Nat : ~ (<<y, x>> \in R) => x <= y
  OBVIOUS
<1> HIDE DEF R
<1> QED
  BY <1>3, <1>4

LEMMA SetInduction ==
    ASSUME NEW S, 0 \in S, \A n \in S \cap Nat : n + 1 \in S
    PROVE  Nat \subseteq S
<1> SUFFICES ASSUME Nat \ S # {} PROVE FALSE
  OBVIOUS
<1>1. PICK x \in Nat \ S : \A y \in Nat \ S : x <= y
  BY LeastOfSet
<1>2. x # 0 /\ x - 1 \in Nat /\ x - 1 \in S /\ x = (x - 1) + 1
  BY <1>1
<1> QED
  BY <1>1, <1>2

-----------------------------------------------------------------------------
(* The newcomers of a sweep *)

\* The equation that defines the function inside Newcomers, on 0 .. m.
Step(c, g, n) ==
    IF n = 0 THEN <<>>
    ELSE IF New(c, Order[n]) THEN Append(g[n - 1], Order[n]) ELSE g[n - 1]
Defines(c, g, m) == g = [n \in 0 .. m |-> Step(c, g, n)]

\* It has a solution on every interval, and there one that yields players.
LEMMA NewcomersExist ==
    ASSUME NEW c
    PROVE  \A m \in 0 .. Len(Order) : \E g : Defines(c, g, m) /\ g \in [0 .. m -> Seq(Subs)]
<1> DEFINE G(m) == \E g : Defines(c, g, m) /\ g \in [0 .. m -> Seq(Subs)]
           S == {m \in Nat : m <= Len(Order) => G(m)}
<1>1. Order \in Seq(Subs) /\ Len(Order) \in Nat
  BY OrderAssumption, LenProperties
<1>2. 0 \in S
  <2> DEFINE g == [n \in 0 .. 0 |-> <<>>]
  <2>1. g = [n \in 0 .. 0 |-> Step(c, g, n)] /\ g \in [0 .. 0 -> Seq(Subs)]
    BY DEF Step
  <2> QED
    BY <2>1 DEF Defines
<1>3. ASSUME NEW m \in S, m + 1 <= Len(Order) PROVE G(m + 1)
  <2>1. m \in Nat /\ G(m)
    BY <1>1, <1>3
  <2>2. PICK g : Defines(c, g, m) /\ g \in [0 .. m -> Seq(Subs)]
    BY <2>1
  <2> DEFINE h == [n \in 0 .. m + 1 |-> IF n <= m THEN g[n] ELSE Step(c, g, n)]
  <2>3. Order[m + 1] \in Subs /\ g[m] \in Seq(Subs)
    BY <1>1, <1>3, <2>1, <2>2, ElementOfSeq
  <2>4. Append(g[m], Order[m + 1]) \in Seq(Subs)
    BY <2>3, AppendProperties
  <2>5. Step(c, g, m + 1) \in Seq(Subs)
    BY <2>1, <2>3, <2>4 DEF Step
  <2>6. h \in [0 .. m + 1 -> Seq(Subs)]
    BY <2>1, <2>2, <2>5
  <2>7. \A n \in 0 .. m + 1 : h[n] = IF n <= m THEN g[n] ELSE Step(c, g, n)
    OBVIOUS
  <2> HIDE DEF h
  <2>8. ASSUME NEW n \in 0 .. m + 1 PROVE h[n] = Step(c, h, n)
    <3>1. n # 0 => n - 1 \in 0 .. m
      BY <2>1
    <3>2. n # 0 => h[n - 1] = g[n - 1]
      BY <2>1, <2>7, <3>1
    <3>3. Step(c, h, n) = Step(c, g, n)
      BY <3>2 DEF Step
    <3>4. \A i \in 0 .. m : g[i] = Step(c, g, i)
      BY <2>2 DEF Defines
    <3>5. n <= m => n \in 0 .. m
      BY <2>1
    <3> QED
      BY <2>1, <2>7, <3>3, <3>4, <3>5
  <2>9. Defines(c, h, m + 1)
    BY <2>6, <2>8 DEF Defines
  <2> QED
    BY <2>6, <2>9
<1> HIDE DEF G
<1>4. \A m \in S \cap Nat : m + 1 \in S
  BY <1>1, <1>3
<1>5. Nat \subseteq S
  BY <1>2, <1>4, SetInduction
<1> QED
  BY <1>1, <1>5 DEF G

LEMMA NewcomersArePlayers == ASSUME NEW c PROVE Newcomers(c) \in Seq(Subs)
<1> DEFINE k == Len(Order)
           a == CHOOSE g : Defines(c, g, k)
<1>1. k \in Nat
  BY OrderAssumption, LenProperties
<1>2. Newcomers(c) = a[k]
  BY Zenon DEF Newcomers, Defines, Step
<1>3. PICK f : Defines(c, f, k) /\ f \in [0 .. k -> Seq(Subs)]
  BY <1>1, NewcomersExist
<1>4. Defines(c, a, k)
  BY <1>3
<1> HIDE DEF a
<1> DEFINE S == {n \in Nat : n <= k => a[n] = f[n]}
<1>5. 0 \in S
  BY <1>1, <1>3, <1>4 DEF Defines, Step
<1>6. ASSUME NEW n \in S \cap Nat PROVE n + 1 \in S
  <2> SUFFICES ASSUME n + 1 <= k PROVE a[n + 1] = f[n + 1]
    OBVIOUS
  <2>1. a[n] = f[n] /\ n + 1 \in 0 .. k
    BY <1>1
  <2>2. a[n + 1] = Step(c, a, n + 1) /\ f[n + 1] = Step(c, f, n + 1)
    BY <2>1, <1>3, <1>4 DEF Defines
  <2>3. Step(c, a, n + 1) = Step(c, f, n + 1)
    BY <2>1 DEF Step
  <2> QED
    BY <2>2, <2>3
<1>7. k \in S
  BY <1>1, <1>5, <1>6, SetInduction
<1> QED
  BY <1>1, <1>2, <1>3, <1>7

-----------------------------------------------------------------------------
(* Players behind one source *)

Threads == [step : Steps, seen : SUBSET Subs, next : 1 .. Len(Order) + 1, rest : Seq(Subs),
            then : {"none", "skip"}]
Maybe == Subs \union {NoSub}

\* A sweep that reads has a sub left to read, one that pauses has a list to go by.
Sweeps ==
    /\ sweep \in [Callers -> Threads]
    /\ \A c \in Callers :
          /\ sweep[c].step = "reading" => sweep[c].next <= Len(Order)
          /\ sweep[c].step \in {"pausing", "fanout"} => sweep[c].rest # <<>>

MultiTypes == PlayersTypeOK /\ active \in Maybe /\ last \in Maybe /\ newest \in Maybe /\ Sweeps

LEMMA OrderIs == Order \in Seq(Subs) /\ Order # <<>> /\ Len(Order) \in Nat /\ Len(Order) >= 1
  BY OrderAssumption, LenProperties, EmptySeq

\* A thread that takes up t, the others going on.
LEMMA TakesUp ==
    ASSUME Sweeps, NEW c \in Callers, NEW t \in Threads, sweep' = [sweep EXCEPT ![c] = t],
           t.step = "reading" => t.next <= Len(Order),
           t.step \in {"pausing", "fanout"} => t.rest # <<>>
    PROVE  Sweeps'
<1>1. sweep' \in [Callers -> Threads]
  BY DEF Sweeps
<1>2. ASSUME NEW d \in Callers PROVE sweep'[d] = IF d = c THEN t ELSE sweep[d]
  BY DEF Sweeps
<1> HIDE DEF Sweeps
<1> QED
  BY <1>1, <1>2 DEF Sweeps

LEMMA IdleIs ==
    /\ Idle \in Threads /\ Idle.step = "idle"
    /\ \A s \in Steps : /\ [Idle EXCEPT !.step = s] \in Threads
                        /\ [Idle EXCEPT !.step = s].step = s
                        /\ [Idle EXCEPT !.step = s].next = 1
                        /\ [Idle EXCEPT !.step = s].rest = <<>>
<1>1. <<>> \in Seq(Subs) /\ 1 \in 1 .. Len(Order) + 1
  BY OrderIs, EmptySeq
<1> QED
  BY <1>1 DEF Idle, Threads, Steps

LEMMA LatchedTypes ==
    ASSUME PlayersTypeOK, NEW p \in Subs
    PROVE  Latched(p) \in [Subs -> Names \union {NoName}]
  BY DEF PlayersTypeOK, Latched

LEMMA CallTypes ==
    ASSUME PlayersTypeOK, NEW p \in Subs, NEW method \in Methods, NEW lost, Call(p, method, lost)
    PROVE  PlayersTypeOK'
<1>1. CASE Debounced(p, method)
  BY <1>1 DEF Call, PlayersTypeOK, playerVars
<1>2. CASE ~Debounced(p, method)
  <2>1. cooling' \subseteq Subs \X Methods
    BY <1>2 DEF Call, PlayersTypeOK
  <2>2. Obeyed(p, method) \in {"idle", "paused", "playing"}
    BY DEF Obeyed, PlayersTypeOK
  <2>3. session' \in [Subs -> {"idle", "paused", "playing"}]
    BY <1>2, <2>2 DEF Call, PlayersTypeOK
  <2>4. dest' \in [Subs -> Names \union {NoName}]
    BY <1>2, LatchedTypes DEF Call, PlayersTypeOK
  <2> QED
    BY <1>2, <2>1, <2>3, <2>4 DEF Call, PlayersTypeOK
<1> QED
  BY <1>1, <1>2

LEMMA DoneKeeps ==
    ASSUME Sweeps, NEW c \in Callers, Done(c)
    PROVE  Sweeps'
<1> DEFINE t == IF sweep[c].then = "skip" THEN [Idle EXCEPT !.step = "skip"] ELSE Idle
<1>1. sweep' = [sweep EXCEPT ![c] = t]
  BY DEF Done
<1>2. t \in Threads /\ t.step \in {"skip", "idle"}
  BY IdleIs DEF Steps
<1> HIDE DEF t
<1> QED
  BY <1>1, <1>2, TakesUp

LEMMA SweepingTypes ==
    ASSUME MultiTypes, NEW c \in Callers, Sweeping(c)
    PROVE  MultiTypes'
<1> DEFINE s == sweep[c]
<1>1. /\ s \in Threads
      /\ s.step = "reading" => s.next <= Len(Order)
      /\ s.step \in {"pausing", "fanout"} => s.rest # <<>>
  BY DEF MultiTypes, Sweeps
<1>3. CASE Begin(c)
  <2> DEFINE t == [Idle EXCEPT !.step = "reading"]
  <2>1. t \in Threads /\ t.step = "reading" /\ t.next = 1
    BY IdleIs DEF Steps
  <2>2. sweep' = [sweep EXCEPT ![c] = t]
    BY <1>3 DEF Begin
  <2> HIDE DEF t
  <2>3. Sweeps'
    BY <2>1, <2>2, OrderIs, TakesUp DEF MultiTypes
  <2> QED
    BY <1>3, <2>3 DEF Begin, MultiTypes, PlayersTypeOK, playerVars
<1>4. CASE Read(c)
  <2>1. PICK lost \in Losing :
            LET p == Order[s.next] IN
            /\ sweep' = [sweep EXCEPT
                  ![c].seen = IF Playing(p, lost) THEN @ \union {p} ELSE @,
                  ![c].next = @ + 1,
                  ![c].step = IF s.next = Len(Order) THEN "decide" ELSE "reading"]
            /\ dest' = IF lost THEN dest ELSE Latched(p)
    BY <1>4 DEF Read
  <2> DEFINE p == Order[s.next]
             x == IF Playing(p, lost) THEN s.seen \union {p} ELSE s.seen
             z == IF s.next = Len(Order) THEN "decide" ELSE "reading"
             t == [s EXCEPT !.seen = x, !.next = s.next + 1, !.step = z]
  <2>2. s.step = "reading" /\ s.next \in 1 .. Len(Order)
    BY <1>1, <1>4, OrderIs DEF Read, Threads
  <2>3. p \in Subs
    BY <2>2, OrderIs, ElementOfSeq
  <2>4. sweep' = [sweep EXCEPT ![c] = t]
    <3>1. sweep' = [sweep EXCEPT ![c].seen = x, ![c].next = s.next + 1, ![c].step = z]
      BY <1>1, <2>1 DEF MultiTypes, Sweeps, Threads
    <3> HIDE DEF x, z
    <3>2. sweep' = [sweep EXCEPT ![c] = [s EXCEPT !.seen = x, !.next = s.next + 1, !.step = z]]
      BY <3>1 DEF MultiTypes, Sweeps
    <3> QED
      BY <3>2
  <2>5. t \in Threads
    <3>1. x \subseteq Subs
      BY <1>1, <2>3 DEF Threads
    <3>2. s.next + 1 \in 1 .. Len(Order) + 1
      BY <2>2, OrderIs
    <3>3. z \in Steps
      BY DEF Steps
    <3> HIDE DEF x, z
    <3> QED
      BY <1>1, <3>1, <3>2, <3>3 DEF Threads
  <2>6. t.step = "reading" => t.next <= Len(Order)
    BY <1>1, <2>2, OrderIs DEF Threads
  <2>7. t.step \notin {"pausing", "fanout"}
    BY <1>1 DEF Threads
  <2>8. dest' \in [Subs -> Names \union {NoName}]
    BY <2>1, <2>3, LatchedTypes DEF MultiTypes, PlayersTypeOK
  <2> HIDE DEF t, s, p
  <2>9. Sweeps'
    BY <2>4, <2>5, <2>6, <2>7, TakesUp DEF MultiTypes
  <2> QED
    BY <1>4, <2>8, <2>9 DEF Read, MultiTypes, PlayersTypeOK
<1>5. CASE Decide(c)
  <2>1. active' \in Maybe
    BY <1>5 DEF Decide, MultiTypes, Maybe
  <2>2. CASE Newcomers(c) = <<>>
    <3>1. Sweeps'
      BY <1>5, <2>2, DoneKeeps DEF Decide, MultiTypes
    <3> QED
      BY <1>5, <2>1, <3>1 DEF Decide, MultiTypes, PlayersTypeOK, playerVars
  <2>3. CASE Newcomers(c) # <<>>
    <3> DEFINE n == Newcomers(c)
               r == <<Head(n)>> \o (IF active = NoSub THEN <<>> ELSE <<active>>) \o Tail(n)
               t == [Idle EXCEPT !.step = "pausing", !.then = s.then, !.rest = r]
    <3>1. n \in Seq(Subs) /\ n # <<>>
      BY <2>3, NewcomersArePlayers
    <3>2. r \in Seq(Subs) /\ r # <<>>
      <4>1. Head(n) \in Subs /\ Tail(n) \in Seq(Subs)
        BY <3>1, HeadTailProperties
      <4> DEFINE h == <<Head(n)>>
                 a == IF active = NoSub THEN <<>> ELSE <<active>>
      <4>2. h \in Seq(Subs) /\ Len(h) = 1
        BY <4>1
      <4>3. a \in Seq(Subs)
        BY DEF MultiTypes, Maybe
      <4> HIDE DEF h, a
      <4>4. h \o a \in Seq(Subs) /\ Len(h \o a) = Len(h) + Len(a)
        BY <4>2, <4>3, ConcatProperties
      <4>5. /\ (h \o a) \o Tail(n) \in Seq(Subs)
            /\ Len((h \o a) \o Tail(n)) = Len(h \o a) + Len(Tail(n))
        BY <4>1, <4>4, ConcatProperties
      <4>6. Len(a) \in Nat /\ Len(Tail(n)) \in Nat /\ Len(<<>>) = 0
        BY <4>1, <4>3, LenProperties
      <4> QED
        BY <4>2, <4>4, <4>5, <4>6 DEF h, a
    <3>3. sweep' = [sweep EXCEPT ![c] = t]
      BY <1>5, <2>3 DEF Decide
    <3> HIDE DEF r, n
    <3>4. t \in Threads /\ t.step = "pausing" /\ t.rest = r
      BY <1>1, <3>2, IdleIs DEF Idle, Threads, Steps
    <3> HIDE DEF t
    <3>5. Sweeps'
      BY <3>2, <3>3, <3>4, TakesUp DEF MultiTypes
    <3> QED
      BY <1>5, <2>1, <3>5 DEF Decide, MultiTypes, PlayersTypeOK, playerVars
  <2> QED
    BY <2>2, <2>3
<1>6. CASE PauseOne(c)
  <2> DEFINE r == <<Head(s.rest)>> \o Tail(Tail(s.rest))
             t == [s EXCEPT !.rest = r]
  <2>1. s.step = "pausing" /\ s.rest \in Seq(Subs) /\ Len(s.rest) > 1 /\ Len(s.rest) \in Nat
    BY <1>1, <1>6, LenProperties DEF PauseOne, Threads
  <2>2. s.rest # <<>> /\ 2 \in 1 .. Len(s.rest)
    BY <2>1, EmptySeq
  <2>3. /\ s.rest[2] \in Subs /\ Head(s.rest) \in Subs
        /\ Tail(s.rest) \in Seq(Subs) /\ Tail(s.rest) # <<>>
    <3>1. s.rest[2] \in Subs
      BY <2>1, <2>2, ElementOfSeq
    <3>2. Head(s.rest) \in Subs /\ Tail(s.rest) \in Seq(Subs) /\ Len(Tail(s.rest)) = Len(s.rest) - 1
      BY <2>1, <2>2, HeadTailProperties
    <3>3. \A n \in Nat : n > 1 => n - 1 # 0
      OBVIOUS
    <3>4. Tail(s.rest) # <<>>
      BY <2>1, <3>2, <3>3, EmptySeq
    <3> QED
      BY <3>1, <3>2, <3>4
  <2>4. Tail(Tail(s.rest)) \in Seq(Subs)
    BY <2>3, HeadTailProperties
  <2>5. <<Head(s.rest)>> \in Seq(Subs) /\ Len(<<Head(s.rest)>>) = 1
    BY <2>3
  <2>6. r \in Seq(Subs) /\ Len(r) = 1 + Len(Tail(Tail(s.rest)))
    BY <2>4, <2>5, ConcatProperties
  <2>7. r # <<>>
    BY <2>4, <2>6, LenProperties, EmptySeq
  <2>8. sweep' = [sweep EXCEPT ![c] = t]
    BY <1>6 DEF PauseOne
  <2> HIDE DEF r
  <2>9. t \in Threads
    BY <1>1, <2>6 DEF Threads
  <2>10. t.step = "pausing" /\ t.rest = r
    BY <1>1, <2>1 DEF Threads
  <2> HIDE DEF t
  <2>11. Sweeps'
    BY <2>7, <2>8, <2>9, <2>10, TakesUp DEF MultiTypes
  <2>12. PlayersTypeOK'
    BY <1>6, <2>3, CallTypes DEF PauseOne, MultiTypes, Methods
  <2> QED
    BY <1>6, <2>11, <2>12 DEF PauseOne, MultiTypes
<1>7. CASE TakeOver(c)
  <2>1. Head(s.rest) \in Subs
    BY <1>1, <1>7, HeadTailProperties DEF TakeOver, Threads
  <2>2. Sweeps'
    BY <1>7, DoneKeeps DEF TakeOver, MultiTypes
  <2> QED
    BY <1>7, <2>1, <2>2 DEF TakeOver, MultiTypes, Maybe, PlayersTypeOK, playerVars
<1> QED
  BY <1>3, <1>4, <1>5, <1>6, <1>7 DEF Sweeping

LEMMA BusTypes ==
    ASSUME MultiTypes, BusCalls
    PROVE  MultiTypes'
<1> DEFINE s == sweep[Bus]
<1>1. /\ Bus \in Callers /\ s \in Threads
      /\ s.step \in {"pausing", "fanout"} => s.rest # <<>>
  BY DEF MultiTypes, Sweeps, Callers
<1>2. CASE Play
  <2>1. (IF active = NoSub THEN Default ELSE active) \in Subs
    BY OrderAssumption DEF MultiTypes, Maybe
  <2>2. PlayersTypeOK'
    BY <1>2, <2>1, CallTypes DEF Play, MultiTypes, Methods
  <2> QED
    BY <1>2, <2>2 DEF Play, MultiTypes, Sweeps
<1>3. CASE Pause
  <2> DEFINE t == [Idle EXCEPT !.step = "fanout", !.rest = Order]
  <2>1. t \in Threads /\ t.step = "fanout" /\ t.rest # <<>>
    BY IdleIs, OrderIs DEF Idle, Threads, Steps
  <2>2. sweep' = [sweep EXCEPT ![Bus] = t]
    BY <1>3 DEF Pause
  <2> HIDE DEF t
  <2>3. Sweeps'
    BY <1>1, <2>1, <2>2, TakesUp DEF MultiTypes
  <2> QED
    BY <1>3, <2>3 DEF Pause, MultiTypes, PlayersTypeOK, playerVars
<1>4. CASE FanOut
  <2> DEFINE r == Tail(s.rest)
             z == IF Len(s.rest) = 1 THEN "idle" ELSE "fanout"
             t == [s EXCEPT !.rest = r, !.step = z]
  <2>1. s.rest \in Seq(Subs) /\ s.rest # <<>>
    BY <1>1, <1>4 DEF FanOut, Threads
  <2>2. Head(s.rest) \in Subs /\ r \in Seq(Subs) /\ Len(r) = Len(s.rest) - 1
    BY <2>1, HeadTailProperties
  <2>3. z # "idle" => r # <<>>
    <3>1. \A n \in Nat : n # 1 => n - 1 # 0
      OBVIOUS
    <3> QED
      BY <2>1, <2>2, <3>1, LenProperties, EmptySeq
  <2>4. z \in Steps /\ z \in {"idle", "fanout"}
    BY DEF Steps
  <2>5. sweep' = [sweep EXCEPT ![Bus] = t]
    BY <1>1, <1>4 DEF FanOut, MultiTypes, Sweeps
  <2>6. PlayersTypeOK'
    BY <1>4, <2>2, CallTypes DEF FanOut, MultiTypes, Methods
  <2> HIDE DEF r, z
  <2>7. t \in Threads /\ t.step = z /\ t.rest = r
    BY <1>1, <2>2, <2>4 DEF Threads
  <2> HIDE DEF t
  <2>8. Sweeps'
    BY <1>1, <2>3, <2>4, <2>5, <2>7, TakesUp DEF MultiTypes
  <2> QED
    BY <1>4, <2>6, <2>8 DEF FanOut, MultiTypes
<1>5. CASE SkipBegins
  <2> DEFINE t == IF active # NoSub THEN [Idle EXCEPT !.step = "skip"]
                  ELSE [Idle EXCEPT !.step = "reading", !.then = "skip"]
  <2>1. /\ t \in Threads /\ t.step \in {"skip", "reading"}
        /\ t.step = "reading" => t.next = 1
    BY IdleIs DEF Idle, Threads, Steps
  <2>2. sweep' = [sweep EXCEPT ![Bus] = t]
    BY <1>5 DEF SkipBegins
  <2> HIDE DEF t
  <2>3. Sweeps'
    BY <1>1, <2>1, <2>2, OrderIs, TakesUp DEF MultiTypes
  <2> QED
    BY <1>5, <2>3 DEF SkipBegins, MultiTypes, PlayersTypeOK, playerVars
<1>6. CASE Skip
  <2>1. sweep' = [sweep EXCEPT ![Bus] = Idle]
    BY <1>6 DEF Skip
  <2>2. Sweeps'
    BY <1>1, <2>1, IdleIs, TakesUp DEF MultiTypes
  <2>3. PlayersTypeOK'
    <3>1. CASE active = NoSub
      BY <1>6, <3>1 DEF Skip, MultiTypes, PlayersTypeOK, playerVars
    <3>2. CASE active # NoSub
      <4>1. active \in Subs
        BY <3>2 DEF MultiTypes, Maybe
      <4> QED
        BY <1>6, <3>2, <4>1, CallTypes DEF Skip, MultiTypes, Methods
    <3> QED
      BY <3>1, <3>2
  <2> QED
    BY <1>6, <2>2, <2>3 DEF Skip, MultiTypes
<1> QED
  BY <1>2, <1>3, <1>4, <1>5, <1>6 DEF BusCalls

LEMMA PeopleTypes ==
    ASSUME MultiTypes, Person \/ Background
    PROVE  MultiTypes'
<1>1. CASE Person
  <2>1. PICK p \in Subs : \/ Starts(p) /\ newest' = IF active \in {NoSub, p} THEN NoSub ELSE p
                          \/ (Holds(p) \/ Ends(p)) /\ UNCHANGED newest
    BY <1>1 DEF Person
  <2>2. PlayersTypeOK'
    <3>1. CASE Starts(p)
      BY <3>1 DEF Starts, MultiTypes, PlayersTypeOK
    <3>2. CASE Holds(p)
      BY <3>2 DEF Holds, MultiTypes, PlayersTypeOK
    <3>3. CASE Ends(p)
      BY <3>3 DEF Ends, MultiTypes, PlayersTypeOK
    <3> QED
      BY <2>1, <3>1, <3>2, <3>3
  <2>3. newest' \in Maybe
    BY <2>1 DEF MultiTypes, Maybe
  <2> QED
    BY <1>1, <2>2, <2>3 DEF Person, MultiTypes, Sweeps
<1>2. CASE Background
  BY <1>2 DEF Background, Cools, MultiTypes, PlayersTypeOK, Sweeps
<1> QED
  BY <1>1, <1>2

LEMMA MultiInitTypes == MultiInit => MultiTypes
<1> SUFFICES ASSUME MultiInit PROVE MultiTypes
  OBVIOUS
<1>1. PlayersTypeOK
  BY KindsAssumption DEF MultiInit, PlayersInit, PlayersTypeOK, Names
<1>2. Sweeps
  BY IdleIs DEF MultiInit, Sweeps
<1> QED
  BY <1>1, <1>2 DEF MultiInit, MultiTypes, Maybe

LEMMA MultiStepTypes ==
    ASSUME MultiTypes, MultiNext \/ UNCHANGED multiVars
    PROVE  MultiTypes'
<1>1. CASE UNCHANGED multiVars
  BY <1>1 DEF multiVars, playerVars, MultiTypes, PlayersTypeOK, Sweeps
<1> QED
  BY <1>1, SweepingTypes, BusTypes, PeopleTypes DEF MultiNext

-----------------------------------------------------------------------------
(* The turntable *)

\* On their way: what the deck reports, and titles of loopbacks that were started.
Reports == {Status("playing"), Status("stopped"), Cleared}
Messages(n) == Reports \union {Confirmed(k) : k \in 0 .. n}

DeckTypes == TurntableTypeOK /\ started \in Nat /\ rx \in Seq(Messages(Known))

LEMMA KnownTypes ==
    ASSUME DeckTypes
    PROVE  Known \in Nat /\ Known <= started
BY DEF DeckTypes, TurntableTypeOK, Known

LEMMA Grows ==
    ASSUME NEW n \in Nat, NEW m \in Nat, n <= m, NEW s \in Seq(Messages(n))
    PROVE  s \in Seq(Messages(m))
<1>1. Messages(n) \subseteq Messages(m)
  BY DEF Messages
<1>2. Len(s) \in Nat /\ \A i \in 1 .. Len(s) : s[i] \in Messages(m)
  BY <1>1, LenProperties, ElementOfSeq
<1>3. s = [i \in 1 .. Len(s) |-> s[i]]
  BY LenProperties
<1> QED
  BY <1>2, <1>3, SeqDef

LEMMA Arrives ==
    ASSUME DeckTypes, Len(rx) < MaxRx, NEW n \in Nat, Known <= n, NEW m \in Messages(n),
           rx' = Append(rx, m)
    PROVE  rx' \in Seq(Messages(n)) /\ Len(rx') <= MaxRx
<1>1. rx \in Seq(Messages(n)) /\ Len(rx) \in Nat
  BY Grows, KnownTypes, LenProperties DEF DeckTypes
<1>2. Append(rx, m) \in Seq(Messages(n)) /\ Len(Append(rx, m)) = Len(rx) + 1
  BY <1>1, AppendProperties
<1> QED
  BY <1>1, <1>2, TurntableAssumption

LEMMA Leaves ==
    ASSUME DeckTypes, rx # <<>>, rx' = Tail(rx)
    PROVE  rx' \in Seq(Messages(Known)) /\ Len(rx') <= MaxRx /\ Head(rx) \in Messages(Known)
<1>1. Len(rx) \in Nat /\ Len(rx) <= MaxRx
  BY LenProperties DEF DeckTypes, TurntableTypeOK
<1>2. /\ Tail(rx) \in Seq(Messages(Known)) /\ Len(Tail(rx)) = Len(rx) - 1
      /\ Head(rx) \in Messages(Known)
  BY HeadTailProperties DEF DeckTypes
<1> QED
  BY <1>1, <1>2, TurntableAssumption

LEMMA TurnsTypes ==
    ASSUME DeckTypes, NEW to \in {"rest", "spinning"}, NEW of \in {"playing", "stopped"},
           Turns(to, of)
    PROVE  deck' \in {"rest", "spinning"} /\ rx' \in Seq(Messages(Known)) /\ Len(rx') <= MaxRx
<1>1. Status(of) \in Messages(Known) /\ Known \in Nat /\ Known <= Known
  BY KnownTypes DEF Messages, Reports
<1> QED
  BY <1>1, Arrives DEF Turns

\* An opcode that is sent, or dropped, or refused.
LEMMA SendTypes ==
    ASSUME DeckTypes, NEW op \in {"play", "stop"}, NEW done \in {"sent", "parked"}, Send(op, done)
    PROVE  DeckTypes'
<1> USE DEF TurntableTypeOK
<1>1. bus' \in {"idle", "sent", "parked"} /\ hidden' \in BOOLEAN /\ sent' \subseteq {"play", "stop"}
  BY DEF Send, DeckTypes
<1>2. UNCHANGED <<playing, fresh, grace, loopVars, title, heard, snoop>>
  BY DEF Send
<1>3. CASE UNCHANGED <<deck, rx>>
  BY <1>1, <1>2, <1>3 DEF DeckTypes, loopVars, Known
<1>4. CASE DeckPlays \/ DeckStops
  <2>1. CASE \/ Turns("spinning", "playing") \/ Turns("rest", "stopped") \/ Turns("rest", "playing")
    <3>1. started' = started /\ Known' = Known
      BY <1>2 DEF loopVars, Known
    <3>2. deck' \in {"rest", "spinning"} /\ rx' \in Seq(Messages(Known)) /\ Len(rx') <= MaxRx
      BY <2>1, TurnsTypes
    <3> QED
      BY <1>1, <1>2, <3>1, <3>2 DEF DeckTypes, loopVars
  <2> QED
    BY <1>3, <1>4, <2>1 DEF DeckPlays, DeckStops
<1> QED
  BY <1>3, <1>4 DEF Send

LEMMA BusThreadTypes ==
    ASSUME DeckTypes, BusThread
    PROVE  DeckTypes'
<1> USE DEF TurntableTypeOK, loopVars
<1>1. CASE StartAudio
  <2>1. CASE proc # 0
    BY <1>1, <2>1 DEF StartAudio, DeckTypes, Known
  <2>2. CASE proc = 0
    <3>1. started' = started + 1 /\ proc' = started + 1 /\ title' = 0 /\ bus' = "check"
          /\ begun' = FALSE /\ mute' = FALSE
      BY <1>1, <2>2 DEF StartAudio
    <3>2. Known' = started /\ Known \in Nat /\ started \in Nat /\ Known <= started
      BY <3>1, KnownTypes DEF Known, DeckTypes
    <3>3. rx' = rx /\ rx \in Seq(Messages(started)) /\ Len(rx') <= MaxRx
      BY <1>1, <3>2, Grows DEF StartAudio, DeckTypes
    <3>4. started' \in Nat /\ proc' \in 0 .. started' /\ title' \in 0 .. Known'
      BY <3>1, <3>2 DEF DeckTypes
    <3>5. heard' \in 0 .. Known'
      BY <1>1, <3>2 DEF StartAudio, DeckTypes
    <3> QED
      BY <1>1, <3>1, <3>2, <3>3, <3>4, <3>5 DEF StartAudio, DeckTypes
  <2> QED
    BY <2>1, <2>2
<1>2. CASE ChecksDeck
  BY <1>2 DEF ChecksDeck, DeckTypes, Known
<1>3. CASE SendPlay \/ SendStandby
  BY <1>3, SendTypes DEF SendPlay, SendStandby
<1>4. CASE BelievesPlaying \/ BelievesStopped
  <2>1. playing' \in BOOLEAN /\ bus' \in {"idle", "parting"}
    BY <1>4 DEF BelievesPlaying, BelievesStopped, Believes
  <2>2. UNCHANGED <<deck, rx, fresh, grace, sent, loopVars, title, heard, snoop, hidden>>
    BY <1>4 DEF BelievesPlaying, BelievesStopped, Believes
  <2> QED
    BY <2>1, <2>2 DEF DeckTypes, Known
<1>5. CASE BusStops
  BY <1>5 DEF BusStops, TakeAudio, ClearTitle, DeckTypes, Known
<1>6. CASE GraceBegins
  BY <1>6 DEF GraceBegins, DeckTypes, Known
<1> QED
  BY <1>1, <1>2, <1>3, <1>4, <1>5, <1>6 DEF BusThread

LEMMA SnoopTypes ==
    ASSUME DeckTypes, SnoopThread
    PROVE  DeckTypes'
<1> USE DEF TurntableTypeOK, loopVars
<1>0. SnoopThread => Known' = Known
  BY DEF SnoopThread, SnoopStatus, SnoopFollows, SnoopStops, OnRecognized, SnoopRecognizes, Known
<1>1. CASE SnoopStatus
  <2>1. rx' \in Seq(Messages(Known)) /\ Len(rx') <= MaxRx
    BY <1>1, Leaves DEF SnoopStatus, Received
  <2>2. snoop' \in {"idle", "follow", "take"} /\ hidden' \in BOOLEAN /\ playing' \in BOOLEAN
    BY <1>1 DEF SnoopStatus, DeckTypes
  <2> QED
    BY <1>0, <1>1, <2>1, <2>2 DEF SnoopStatus, DeckTypes
<1>2. CASE SnoopFollows
  <2>1. hidden' \in BOOLEAN
    BY <1>2 DEF SnoopFollows
  <2> QED
    BY <1>0, <1>2, <2>1 DEF SnoopFollows, DeckTypes
<1>3. CASE SnoopStops
  BY <1>0, <1>3, KnownTypes DEF SnoopStops, TakeAudio, ClearTitle, DeckTypes
<1>4. CASE OnRecognized
  <2>1. /\ rx' \in Seq(Messages(Known)) /\ Len(rx') <= MaxRx
        /\ Head(rx) \in Messages(Known)
    BY <1>4, Leaves DEF OnRecognized, Received
  <2>2. Known \in Nat /\ Head(rx).kind \in {"confirmed", "cleared"}
    BY <1>4, KnownTypes DEF OnRecognized, Received
  <2>3. Head(rx).of \in 0 .. Known
    BY <2>1, <2>2 DEF Messages, Reports, Status, Cleared, Confirmed
  <2>4. heard' \in 0 .. Known /\ snoop' \in {"idle", "found"}
    BY <1>4, <2>3 DEF OnRecognized, Received, DeckTypes
  <2> QED
    BY <1>0, <1>4, <2>1, <2>4 DEF OnRecognized, DeckTypes
<1>5. CASE SnoopRecognizes
  BY <1>0, <1>5, KnownTypes DEF SnoopRecognizes, DeckTypes
<1> QED
  BY <1>1, <1>2, <1>3, <1>4, <1>5 DEF SnoopThread

LEMMA OthersTypes ==
    ASSUME DeckTypes, Begins \/ People \/ TimePasses
    PROVE  DeckTypes'
<1> USE DEF TurntableTypeOK, loopVars
<1>0. (People \/ TimePasses => Known' = Known) /\ Known \in Nat /\ Known <= Known
  BY KnownTypes DEF People, ButtonPlay, ButtonStop, Play80, Pause80, Identifies, TimePasses, Known
<1>1. CASE ButtonPlay
  <2>1. /\ deck' \in {"rest", "spinning"}
        /\ rx' \in Seq(Messages(Known)) /\ Len(rx') <= MaxRx
    BY <1>1, TurnsTypes DEF ButtonPlay
  <2> QED
    BY <1>0, <1>1, <2>1 DEF People, ButtonPlay, DeckTypes
<1>2. CASE ButtonStop
  <2>1. /\ deck' \in {"rest", "spinning"}
        /\ rx' \in Seq(Messages(Known)) /\ Len(rx') <= MaxRx
    BY <1>2, TurnsTypes DEF ButtonStop
  <2> QED
    BY <1>0, <1>2, <2>1 DEF People, ButtonStop, DeckTypes
<1>3. CASE Play80 \/ Pause80
  BY <1>0, <1>3 DEF People, Play80, Pause80, DeckTypes
<1>4. CASE Identifies
  <2>1. Confirmed(proc) \in Messages(Known)
    BY <1>4 DEF Messages, DeckTypes, Identifies, Known
  <2>2. rx' \in Seq(Messages(Known)) /\ Len(rx') <= MaxRx
    BY <1>0, <1>4, <2>1, Arrives DEF Identifies
  <2> QED
    BY <1>0, <1>4, <2>2 DEF People, Identifies, DeckTypes
<1>5. CASE TimePasses
  BY <1>0, <1>5 DEF TimePasses, DeckTypes
<1>6. CASE Begins
  <2>1. Known' = started /\ started' = started /\ started \in Nat
    BY <1>6 DEF Begins, Known, DeckTypes
  <2>2. title' \in 0 .. started /\ heard' \in 0 .. started
    BY <1>6, <2>1, KnownTypes DEF Begins, DeckTypes
  <2>4. begun' = TRUE /\ (mute' = TRUE \/ UNCHANGED mute)
    BY <1>6 DEF Begins
  <2>3. rx' \in Seq(Messages(started)) /\ Len(rx') <= MaxRx
    <3>1. CASE UNCHANGED rx
      BY <2>1, <3>1, Grows, KnownTypes DEF DeckTypes
    <3>2. CASE Len(rx) < MaxRx /\ rx' = Append(rx, Cleared)
      <4>1. Cleared \in Messages(started)
        BY DEF Messages, Reports
      <4> QED
        BY <2>1, <3>2, <4>1, Arrives, KnownTypes
    <3> QED
      BY <1>6, <3>1, <3>2 DEF Begins
  <2> QED
    BY <1>6, <2>1, <2>2, <2>3, <2>4 DEF Begins, DeckTypes
<1> QED
  BY <1>1, <1>2, <1>3, <1>4, <1>5, <1>6 DEF People

LEMMA DeckInitTypes == TurntableInit => DeckTypes
<1> SUFFICES ASSUME TurntableInit PROVE DeckTypes
  OBVIOUS
<1>1. rx \in Seq(Messages(Known)) /\ Len(rx) = 0
  BY EmptySeq DEF TurntableInit
<1>2. MaxRx \in Nat
  BY TurntableAssumption
<1>3. Len(rx) <= MaxRx
  BY <1>1, <1>2
<1>4. started = 0 /\ proc \in 0 .. started /\ title \in 0 .. Known /\ heard \in 0 .. Known
  BY DEF TurntableInit, Known
<1>5. {playing, fresh, grace, begun, hidden, mute} \subseteq BOOLEAN
  BY DEF TurntableInit
<1>6. /\ deck \in {"rest", "spinning"} /\ sent \subseteq {"play", "stop"}
      /\ bus = "idle" /\ snoop = "idle"
  BY DEF TurntableInit
<1> QED
  BY <1>1, <1>3, <1>4, <1>5, <1>6 DEF DeckTypes, TurntableTypeOK

LEMMA DeckStepTypes ==
    ASSUME DeckTypes, TurntableNext \/ UNCHANGED deckVars
    PROVE  DeckTypes'
<1>1. CASE UNCHANGED deckVars
  BY <1>1 DEF deckVars, loopVars, DeckTypes, TurntableTypeOK, Known
<1> QED
  BY <1>1, BusThreadTypes, SnoopTypes, OthersTypes DEF TurntableNext

-----------------------------------------------------------------------------
(* MultiTypeOK, of the players behind one source: a sweep never runs past  *)
(* the subs, and the active and the last sub are subs, whatever the        *)
(* threads and people do.                                                  *)
THEOREM MultiTypeCorrect == MultiSpec => []MultiTypeOK
<1>1. MultiStarts => MultiTypes
  BY MultiInitTypes DEF MultiStarts
<1>2. MultiTypes /\ [MultiNext]_multiVars => MultiTypes'
  BY MultiStepTypes
<1>3. MultiTypes => MultiTypeOK
  BY DEF MultiTypes, MultiTypeOK, Maybe, Sweeps, Threads
<1> QED
  BY <1>1, <1>2, <1>3, PTL DEF MultiSpec

(* TurntableTypeOK: a title, and one that the snoop thread holds between   *)
(* its check and its write, is that of a loopback whose recognizer has     *)
(* begun.                                                                  *)
THEOREM DeckTypeCorrect == DeckSpec => []TurntableTypeOK
<1>1. DeckStarts => DeckTypes
  BY DeckInitTypes DEF DeckStarts
<1>2. DeckTypes /\ [TurntableNext]_deckVars => DeckTypes'
  BY DeckStepTypes
<1>3. DeckTypes => TurntableTypeOK
  BY DEF DeckTypes
<1> QED
  BY <1>1, <1>2, <1>3, PTL DEF DeckSpec

==============================================================================
