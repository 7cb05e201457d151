--------------------------- MODULE GatewayProofs ---------------------------
(***************************************************************************)
(* Proofs about the gateway among its neighbours.  Both invariants follow  *)
(* something on its way through the queues: an all-standby from the bytes  *)
(* of the line to Home Assistant, a command from the pacer to the thread   *)
(* that handles its line of the log.  They are counted there.              *)
(***************************************************************************)
EXTENDS GatewaySystem, SequenceTheorems, FiniteSetTheorems, TLAPS

\* How many elements of a sequence belong to a set.
Count(s, S) == Cardinality({i \in DOMAIN s : s[i] \in S})

-----------------------------------------------------------------------------
(* What the queues hold *)

\* Payloads of the bus, the Pi's own telegrams, lines of the log.
Carried == {t \o <<7, 0>> : t \in Telegrams}
Addresses == UNION {{f[d] : d \in DOMAIN f} : f \in Files}
Commands == {Beo4Telegram(a) : a \in Addresses}
OwnSends == PiSends \union Commands
Lines == Telegrams \union OwnSends

Call(t, own) == [call |-> "telegram", t |-> t, own |-> own]

EventTypes == {"light", "all standby", "status", "picture", "config changed", "login fail",
               "login ok"}
Events == [type : EventTypes, device : Nat, source : Nat]

\* All-standbys at each stage: the byte that completes the frame, the telegram as it was
\* received, on the loop, and the event.
Standbys == {t \in Telegrams : AllStandby(t)}
StandbyBytes == {CrcHi(ChanMl, t \o <<7, 0>>) : t \in Standbys}
StandbyRx == {[t |-> t \o <<7, 0>>, own |-> FALSE] : t \in Standbys}
StandbyCalls == {Call(t, FALSE) : t \in Standbys}
StandbyEvents == {e \in Events : e.type = "all standby"}

Out == IF ha.session \in Sessions THEN api[ha.session].out ELSE <<>>
Log == IF ha.session \in Sessions THEN logs[ha.session] ELSE Off

OnLine == Count(uart, StandbyBytes)
Published == Count(rx, StandbyRx)
Scheduled == Count(loop, StandbyCalls)
Announced == Count(Out, StandbyEvents)

\* Whoever is told of an all-standby was sent one, and so with those on their way.
UnderWay == (OnLine + Published) + (Scheduled + Announced)
Counted == ha.standbys + UnderWay <= bus.standbys

\* Sessions but Home Assistant's latest have no log, and later ones no connection.
Current ==
    /\ \A s \in Sessions : s # ha.session => logs[s] = Off
    /\ \A s \in Sessions : s > ha.session => api[s] = Unconnected
    /\ \A s \in Sessions : logs[s].at # "online" => logs[s].lines = <<>>

\* Commands on their way; in the log, what Home Assistant takes for an answer.
Answers == {t \in Lines : IsAnswer(t)}
CommandRx == {[t |-> c, own |-> TRUE] : c \in Commands}
CommandCalls == {Call(c, TRUE) : c \in Commands}
Sent == Count(rx, CommandRx)
Looped == Count(loop, CommandCalls)
Logged == Count(Log.lines, Answers)
Taken == Count(ha.lines, Answers)
InFlight == (Sent + Looped) + (Logged + Taken)

\* Nothing of a set but one element.
Only(s, S, x) == \A i \in DOMAIN s : s[i] \in S => s[i] = x

Answer == Beo4Telegram(ha.asked[Len(ha.learned) + 1])

\* A command is under way only while the gap is open, and it is the next answer.
Paced ==
    /\ Log.at # "online" => pacer.queue = <<>> /\ Sent = 0 /\ Looped = 0
    /\ InFlight <= 1
    /\ Log.at = "online" /\ InFlight = 1 => pacer.gap
    /\ Only(rx, CommandRx, [t |-> Answer, own |-> TRUE])
    /\ Only(loop, CommandCalls, Call(Answer, TRUE))
    /\ Only(Log.lines, Answers, Answer)
    /\ Only(ha.lines, Answers, Answer)

InOrder == IsPrefix(ha.learned, ha.asked)

\* What was asked: what was learned, then what is under way, then what is queued.
Ordered ==
    /\ InOrder
    /\ Len(ha.learned) + InFlight + Len(pacer.queue) <= Len(ha.asked)
    /\ Log.at = "in" => ha.asked = <<>>
    /\ Log.at = "online" =>
          /\ Len(ha.learned) + InFlight + Len(pacer.queue) = Len(ha.asked)
          /\ \A i \in 1 .. Len(pacer.queue) :
                pacer.queue[i] = Beo4Telegram(ha.asked[Len(ha.learned) + InFlight + i])

-----------------------------------------------------------------------------
(* Counting *)

LEMMA CountType ==
    ASSUME NEW T, NEW s \in Seq(T), NEW S
    PROVE  /\ IsFiniteSet({i \in DOMAIN s : s[i] \in S})
           /\ Count(s, S) \in Nat
<1>1. IsFiniteSet(1 .. Len(s))
  BY LenProperties, FS_Interval
<1>2. {i \in DOMAIN s : s[i] \in S} \subseteq 1 .. Len(s)
  BY LenProperties
<1>3. IsFiniteSet({i \in DOMAIN s : s[i] \in S})
  BY <1>1, <1>2, FS_Subset
<1> QED
  BY <1>3, FS_CardinalityType DEF Count

LEMMA CountEmpty == \A S : Count(<<>>, S) = 0
<1> SUFFICES ASSUME NEW S PROVE Count(<<>>, S) = 0
  OBVIOUS
<1>1. {i \in DOMAIN <<>> : <<>>[i] \in S} = {}
  OBVIOUS
<1> QED
  BY <1>1, FS_EmptySet DEF Count

LEMMA CountNone ==
    ASSUME NEW T, NEW s \in Seq(T), NEW S
    PROVE  Count(s, S) = 0 <=> \A i \in DOMAIN s : s[i] \notin S
<1>1. Count(s, S) = 0 <=> {i \in DOMAIN s : s[i] \in S} = {}
  BY CountType, FS_EmptySet DEF Count
<1> QED
  BY <1>1

LEMMA CountAppend ==
    ASSUME NEW T, NEW s \in Seq(T), NEW e \in T, NEW S
    PROVE  Count(Append(s, e), S) = Count(s, S) + IF e \in S THEN 1 ELSE 0
<1> DEFINE a == Append(s, e)
           I == {i \in DOMAIN s : s[i] \in S}
           J == {i \in DOMAIN a : a[i] \in S}
           n == Len(s) + 1
<1>1. /\ n \notin I
      /\ J = IF e \in S THEN I \union {n} ELSE I
  BY AppendProperties, LenProperties
<1>2. IsFiniteSet(I) /\ Cardinality(I) \in Nat
  BY CountType DEF Count
<1>3. Cardinality(I \union {n}) = Cardinality(I) + 1
  BY <1>1, <1>2, FS_AddElement
<1> HIDE DEF n, a, I, J
<1>4. Cardinality(J) = Cardinality(I) + IF e \in S THEN 1 ELSE 0
  BY <1>1, <1>2, <1>3
<1> QED
  BY <1>4 DEF Count, I, J, a

\* Sequences that differ in one place, which is in the longer one only.
LEMMA CountShift ==
    ASSUME NEW T, NEW s \in Seq(T), NEW t \in Seq(T), NEW S, NEW k \in 1 .. Len(s),
           Len(t) = Len(s) - 1,
           \A i \in 1 .. Len(t) : t[i] = s[IF i < k THEN i ELSE i + 1]
    PROVE  Count(s, S) = Count(t, S) + IF s[k] \in S THEN 1 ELSE 0
<1> DEFINE I == {i \in DOMAIN s : s[i] \in S}
           J == {i \in DOMAIN t : t[i] \in S}
           f == [i \in J |-> IF i < k THEN i ELSE i + 1]
<1>0. DOMAIN s = 1 .. Len(s) /\ DOMAIN t = 1 .. Len(t) /\ Len(s) \in Nat /\ Len(t) \in Nat
  BY LenProperties
<1>1. f \in [J -> I \ {k}]
  <2> SUFFICES ASSUME NEW i \in J PROVE (IF i < k THEN i ELSE i + 1) \in I \ {k}
    OBVIOUS
  <2> QED
    BY <1>0
<1>2. \A x, y \in J : f[x] = f[y] => x = y
  BY <1>0
<1>3. \A y \in I \ {k} : \E x \in J : f[x] = y
  <2> SUFFICES ASSUME NEW y \in I \ {k} PROVE \E x \in J : f[x] = y
    OBVIOUS
  <2> DEFINE x == IF y < k THEN y ELSE y - 1
  <2>1. x \in 1 .. Len(t) /\ (IF x < k THEN x ELSE x + 1) = y
    BY <1>0
  <2>2. x \in J
    BY <1>0, <2>1
  <2> QED
    BY <2>1, <2>2
<1>4. ExistsBijection(J, I \ {k})
  <2>1. f \in Bijection(J, I \ {k})
    BY <1>1, <1>2, <1>3 DEF Bijection, Injection, Surjection, IsInjective
  <2> QED
    BY <2>1 DEF ExistsBijection
<1>5. IsFiniteSet(I) /\ IsFiniteSet(J) /\ Cardinality(I) \in Nat
  BY CountType DEF Count
<1>6. Cardinality(I \ {k}) = Cardinality(J)
  BY <1>4, <1>5, FS_Bijection
<1>7. Cardinality(I \ {k}) = IF k \in I THEN Cardinality(I) - 1 ELSE Cardinality(I)
  BY <1>5, FS_RemoveElement
<1>8. k \in I <=> s[k] \in S
  BY <1>0
<1> HIDE DEF I, J
<1>9. Cardinality(I) = Cardinality(J) + IF s[k] \in S THEN 1 ELSE 0
  BY <1>5, <1>6, <1>7, <1>8
<1> QED
  BY <1>9 DEF Count, I, J

LEMMA CountTail ==
    ASSUME NEW T, NEW s \in Seq(T), s # <<>>, NEW S
    PROVE  Count(s, S) = Count(Tail(s), S) + IF Head(s) \in S THEN 1 ELSE 0
<1> DEFINE r == Tail(s)
           k == 1
<1>1. /\ r \in Seq(T) /\ Len(r) = Len(s) - 1
      /\ \A i \in 1 .. Len(r) : r[i] = s[IF i < k THEN i ELSE i + 1]
  BY HeadTailProperties, LenProperties
<1>2. k \in 1 .. Len(s) /\ Head(s) = s[k]
  BY EmptySeq, LenProperties
<1> HIDE DEF r, k
<1>3. Count(s, S) = Count(r, S) + IF s[k] \in S THEN 1 ELSE 0
  BY <1>1, <1>2, CountShift, SMTT(30)
<1> QED
  BY <1>2, <1>3 DEF r

LEMMA CountRemoved ==
    ASSUME NEW T, NEW s \in Seq(T), NEW k \in DOMAIN s, NEW S
    PROVE  /\ RemoveAt(s, k) \in Seq(T)
           /\ \A i \in DOMAIN RemoveAt(s, k) : \E j \in DOMAIN s : RemoveAt(s, k)[i] = s[j]
           /\ Count(s, S) = Count(RemoveAt(s, k), S) + IF s[k] \in S THEN 1 ELSE 0
<1> DEFINE a == SubSeq(s, 1, k - 1)
           b == SubSeq(s, k + 1, Len(s))
           r == a \o b
<1>0. DOMAIN s = 1 .. Len(s) /\ Len(s) \in Nat /\ k \in 1 .. Len(s)
  BY LenProperties
<1>1. /\ a \in Seq(T) /\ Len(a) = k - 1
      /\ \A i \in 1 .. Len(a) : a[i] = s[i]
  <2>1. \A i \in 1 .. k - 1 : s[i] \in T
    BY <1>0, ElementOfSeq
  <2> QED
    BY <1>0, <2>1, SubSeqProperties
<1>2. /\ b \in Seq(T) /\ Len(b) = Len(s) - k
      /\ \A i \in 1 .. Len(b) : b[i] = s[k + i]
  <2>1. \A i \in k + 1 .. Len(s) : s[i] \in T
    BY <1>0, ElementOfSeq
  <2> QED
    BY <1>0, <2>1, SubSeqProperties
<1> HIDE DEF a, b
<1>3. /\ r \in Seq(T) /\ Len(r) = Len(s) - 1
      /\ \A i \in 1 .. Len(r) : r[i] = s[IF i < k THEN i ELSE i + 1]
  <2>1. /\ r \in Seq(T) /\ Len(r) = Len(a) + Len(b)
        /\ \A i \in 1 .. Len(a) + Len(b) : r[i] = IF i <= Len(a) THEN a[i] ELSE b[i - Len(a)]
    BY <1>1, <1>2, ConcatProperties
  <2> HIDE DEF r
  <2>2. Len(r) = Len(s) - 1
    BY <1>0, <1>1, <1>2, <2>1
  <2>3. ASSUME NEW i \in 1 .. Len(r) PROVE r[i] = s[IF i < k THEN i ELSE i + 1]
    <3>0. Len(a) = k - 1 /\ Len(b) = Len(s) - k /\ i \in 1 .. Len(s) - 1
      BY <1>1, <1>2, <2>2
    <3>1. CASE i < k
      BY <1>0, <1>1, <1>2, <2>1, <2>2, <3>1
    <3>2. CASE i >= k
      <4>1. i - Len(a) \in 1 .. Len(b) /\ k + (i - Len(a)) = i + 1 /\ ~(i <= Len(a))
        BY <1>0, <3>0, <3>2
      <4>2. r[i] = b[i - Len(a)]
        BY <2>1, <2>2, <4>1, <1>0, <1>1, <1>2
      <4> QED
        BY <1>2, <3>2, <4>1, <4>2
    <3> QED
      BY <1>0, <3>1, <3>2
  <2> QED
    BY <2>1, <2>2, <2>3
<1>4. RemoveAt(s, k) = r
  BY DEF RemoveAt, a, b
<1> HIDE DEF r
<1>5. Count(s, S) = Count(r, S) + IF s[k] \in S THEN 1 ELSE 0
  BY <1>0, <1>3, CountShift
<1>6. \A i \in DOMAIN r : \E j \in DOMAIN s : r[i] = s[j]
  <2> SUFFICES ASSUME NEW i \in DOMAIN r PROVE \E j \in DOMAIN s : r[i] = s[j]
    OBVIOUS
  <2>1. i \in 1 .. Len(r)
    BY <1>3, LenProperties
  <2>2. (IF i < k THEN i ELSE i + 1) \in DOMAIN s
    BY <1>0, <1>3, <2>1
  <2> QED
    BY <1>3, <2>1, <2>2
<1> QED
  BY <1>3, <1>4, <1>5, <1>6

LEMMA CountPrepend ==
    ASSUME NEW T, NEW s \in Seq(T), NEW e \in T, NEW S
    PROVE  Count(<<e>> \o s, S) = Count(s, S) + IF e \in S THEN 1 ELSE 0
<1> DEFINE h == <<e>>
           r == h \o s
           k == 1
<1>1. h \in Seq(T) /\ Len(h) = 1 /\ h[1] = e
  OBVIOUS
<1>2. Len(s) \in Nat
  BY LenProperties
<1> HIDE DEF h
<1>3. /\ r \in Seq(T) /\ Len(r) = Len(h) + Len(s)
      /\ \A i \in 1 .. Len(h) + Len(s) : r[i] = IF i <= Len(h) THEN h[i] ELSE s[i - Len(h)]
  BY <1>1, ConcatProperties
<1> HIDE DEF r
<1>4. r[k] = e
  BY <1>1, <1>2, <1>3
<1>5. /\ r \in Seq(T) /\ Len(s) = Len(r) - 1 /\ k \in 1 .. Len(r)
      /\ \A i \in 1 .. Len(s) : s[i] = r[IF i < k THEN i ELSE i + 1]
  BY <1>1, <1>2, <1>3
<1> HIDE DEF k
<1>6. Count(r, S) = Count(s, S) + IF r[k] \in S THEN 1 ELSE 0
  BY <1>5, CountShift, SMTT(30)
<1> QED
  BY <1>4, <1>6 DEF r, h

LEMMA CountConcat ==
    ASSUME NEW T, NEW s \in Seq(T), NEW t \in Seq(T), NEW S,
           \A i \in DOMAIN t : t[i] \notin S
    PROVE  Count(s \o t, S) = Count(s, S)
<1>0. /\ DOMAIN s = 1 .. Len(s) /\ DOMAIN t = 1 .. Len(t)
      /\ Len(s) \in Nat /\ Len(t) \in Nat
  BY LenProperties
<1>1. /\ DOMAIN (s \o t) = 1 .. Len(s) + Len(t)
      /\ \A i \in 1 .. Len(s) + Len(t) :
            (s \o t)[i] = IF i <= Len(s) THEN s[i] ELSE t[i - Len(s)]
  BY ConcatProperties, LenProperties
<1>2. \A i \in 1 .. Len(s) + Len(t) : i > Len(s) => (s \o t)[i] \notin S
  BY <1>0, <1>1
<1>3. {i \in DOMAIN (s \o t) : (s \o t)[i] \in S} = {i \in DOMAIN s : s[i] \in S}
  BY <1>0, <1>1, <1>2
<1> QED
  BY <1>3 DEF Count

-----------------------------------------------------------------------------
(* Types *)

Bytes == {<<b>> : b \in Nat}
         \union {CrcLo(ChanMl, p) : p \in Carried} \union {CrcHi(ChanMl, p) : p \in Carried}
         \union {CrcLo(ChanGpio, << 1 >>), CrcHi(ChanGpio, << 1 >>)}
Framers == [at : {"sync1", "sync2", "chan", "len", "payload", "crc lo", "crc hi"},
            chan : Nat, len : Nat, payload : Seq(Nat), lo : Seq(Nat)]
FromBus == {[t |-> p, own |-> FALSE] : p \in Carried}
FromPi == {[t |-> p, own |-> TRUE] : p \in OwnSends}
Received == FromBus \union FromPi
Calls == {[call |-> "reload"]} \union {Call(p, FALSE) : p \in Telegrams}
         \union {Call(p, TRUE) : p \in OwnSends}
Processes == [at : {"down", "deaf", "deaf idle", "on", "idle"}, settings : Settings,
              devices : Files, kept : BOOLEAN]
Pacers == [queue : Seq(Commands), gap : BOOLEAN]
LogSessions == [at : {"out", "in", "online"}, lines : Seq(Lines)]
ApiSessions == [open : BOOLEAN, authed : BOOLEAN, out : Seq(Events)]
SourceMap(f) == IsFiniteSet(DOMAIN f) /\ DOMAIN f \subseteq Nat /\ f \in [DOMAIN f -> Nat]
Homes == [session : Nat, lines : Seq(Lines), asked : Seq(Addresses), learned : Seq(Nat),
          standbys : Nat, mixed : BOOLEAN]
Saves == [at : {"idle", "devices", "settings"}, todo : Seq({"write", "publish"}),
          request : Files \union Settings \union {"none"}]
Named(save) == /\ save.at = "devices" => save.request \in Files
               /\ save.at = "settings" => save.request \in Settings
               /\ save.todo # <<>> => save.at # "idle"

Types ==
    /\ uart \in Seq(Bytes) /\ framer \in Framers /\ rx \in Seq(Received)
    /\ proc \in Processes /\ loop \in Seq(Calls) /\ pacer \in Pacers
    /\ logs \in [Sessions -> LogSessions] /\ api \in [Sessions -> ApiSessions]
    /\ SourceMap(onSource) /\ file \in Files /\ conf \in Settings
    /\ ha \in Homes
    /\ saving \in [Savers -> Saves] /\ \A w \in Savers : Named(saving[w])
    /\ bus.standbys \in Nat
    /\ bus = [left |-> bus.left, standbys |-> bus.standbys, missed |-> bus.missed]

LEMMA Constants ==
  /\ Addresses \subseteq Nat
  /\ \A f \in Files : f \in Seq(Addresses) /\ DOMAIN f \subseteq Nat
  /\ \A t \in Lines : t \in Seq(Nat) /\ Len(t) >= 3 /\ \A i \in 1 .. Len(t) : t[i] \in Nat
  /\ \A t \in Commands : t[1] \in Addresses /\ t = Beo4Telegram(t[1]) /\ t \in Lines
                        /\ t[2] = AddrMlgw /\ t[3] = VirtualBeo4 /\ t[1] \in Nat
  /\ Commands \subseteq Answers
  /\ \A t \in OwnSends : t \in Answers => t \in Commands
<1>1. Addresses \subseteq Nat
  <2> SUFFICES ASSUME NEW f \in Files, NEW d \in DOMAIN f PROVE f[d] \in Nat
    BY DEF Addresses
  <2>1. f \in Seq(Nat)
    BY GatewayAssumption
  <2> QED
    BY <2>1, LenProperties
<1>2. ASSUME NEW f \in Files PROVE f \in Seq(Addresses) /\ DOMAIN f \subseteq Nat
  <2>1. f \in Seq(Nat) /\ Len(f) \in Nat /\ DOMAIN f = 1 .. Len(f) /\ f \in [1 .. Len(f) -> Nat]
    BY GatewayAssumption, LenProperties
  <2>2. \A d \in DOMAIN f : f[d] \in Addresses
    BY DEF Addresses
  <2>3. f \in [1 .. Len(f) -> Addresses]
    BY <2>1, <2>2
  <2> QED
    BY <2>1, <2>3, SeqDef
<1>3. ASSUME NEW t \in Commands
      PROVE  /\ t[1] \in Addresses /\ t = Beo4Telegram(t[1]) /\ t \in Lines
             /\ t[2] = AddrMlgw /\ t[3] = VirtualBeo4 /\ t[1] \in Nat
             /\ t \in Seq(Nat) /\ Len(t) >= 3
  <2> PICK a \in Addresses : t = Beo4Telegram(a)
    BY DEF Commands
  <2>1. t = <<a, 240, 32, 88>> /\ a \in Nat
    BY <1>1 DEF Beo4Telegram, AddrMlgw, VirtualBeo4
  <2>2. t \in Lines
    BY DEF Lines, OwnSends
  <2> QED
    BY <2>1, <2>2 DEF Beo4Telegram, AddrMlgw, VirtualBeo4
<1>4. ASSUME NEW t \in Lines PROVE t \in Seq(Nat) /\ Len(t) >= 3
  BY <1>3, GatewayAssumption DEF Lines, OwnSends
<1>5. ASSUME NEW t \in Lines PROVE \A i \in 1 .. Len(t) : t[i] \in Nat
  BY <1>4, ElementOfSeq
<1>6. ASSUME NEW t \in OwnSends, t \in Answers PROVE t \in Commands
  BY <1>6, GatewayAssumption DEF OwnSends, Answers, IsAnswer
<1>7. Commands \subseteq Answers
  BY <1>3 DEF Answers, IsAnswer
<1> QED
  BY <1>1, <1>2, <1>3, <1>4, <1>5, <1>6, <1>7

\* A telegram of the bus is what is left without the checksum and the end marker.
LEMMA Payloads ==
    ASSUME NEW t \in Telegrams
    PROVE  /\ t \o <<7, 0>> \in Seq(Nat) /\ Len(t \o <<7, 0>>) = Len(t) + 2 /\ Len(t) \in Nat
           /\ t \in Seq(Nat) /\ Len(t) >= 3
           /\ SubSeq(t \o <<7, 0>>, 1, Len(t \o <<7, 0>>) - 2) = t
           /\ \A u \in Telegrams : t \o <<7, 0>> = u \o <<7, 0>> => t = u
<1> DEFINE e == <<7, 0>>
<1>1. e \in Seq(Nat) /\ Len(e) = 2
  OBVIOUS
<1>2. \A u \in Telegrams : u \in Seq(Nat) /\ Len(u) >= 3 /\ Len(u) \in Nat
  BY GatewayAssumption, LenProperties
<1> HIDE DEF e
<1>3. t \o e \in Seq(Nat) /\ Len(t \o e) = Len(t) + 2
  <2>1. t \in Seq(Nat)
    BY <1>2
  <2>2. t \o e \in Seq(Nat) /\ Len(t \o e) = Len(t) + Len(e)
    BY <1>1, <2>1, ConcatProperties
  <2> QED
    BY <1>1, <2>2
<1>4. SubSeq(t \o e, 1, Len(t)) = SubSeq(t, 1, Len(t))
  <2>1. 1 \in 1 .. Len(t) /\ Len(t) \in 1 .. Len(t)
    BY <1>2
  <2> QED
    BY <1>1, <1>2, <2>1, SubSeqOfConcat1
<1>5. SubSeq(t, 1, Len(t)) = t
  BY <1>2, SubSeqFull
<1>6. Len(t \o e) - 2 = Len(t)
  BY <1>2, <1>3
<1>7. \A u \in Telegrams : t \o e = u \o e => t = u
  BY <1>1, <1>2, ConcatSimplifications
<1> QED
  BY <1>2, <1>3, <1>4, <1>5, <1>6, <1>7 DEF e

LEMMA Prefixed ==
    ASSUME NEW m \in Nat, NEW n \in Nat, NEW p \in Seq(Nat)
    PROVE  /\ <<m, n>> \o p \in Seq(Nat) /\ Len(<<m, n>> \o p) > 1
           /\ (<<m, n>> \o p)[1] = m /\ (<<m, n>> \o p)[2] = n
<1> DEFINE h == <<m, n>>
<1>1. h \in Seq(Nat) /\ Len(h) = 2 /\ h[1] = m /\ h[2] = n
  OBVIOUS
<1>2. Len(p) \in Nat
  BY LenProperties
<1> HIDE DEF h
<1>3. /\ h \o p \in Seq(Nat) /\ Len(h \o p) = Len(h) + Len(p)
      /\ \A i \in 1 .. Len(h) + Len(p) : (h \o p)[i] = IF i <= Len(h) THEN h[i] ELSE p[i - Len(h)]
  BY <1>1, ConcatProperties
<1>4. 1 \in 1 .. Len(h) + Len(p) /\ 2 \in 1 .. Len(h) + Len(p) /\ Len(h) + Len(p) > 1
  BY <1>1, <1>2
<1>5. (h \o p)[1] = m /\ (h \o p)[2] = n
  BY <1>1, <1>3, <1>4
<1>6. h \o p \in Seq(Nat) /\ Len(h \o p) > 1
  BY <1>3, <1>4
<1> QED
  BY <1>5, <1>6 DEF h

LEMMA PrefixedAlike ==
    ASSUME NEW m \in Nat, NEW n \in Nat, NEW p \in Seq(Nat), NEW q \in Seq(Nat),
           <<m, n>> \o p = <<m, n>> \o q
    PROVE  p = q
<1> DEFINE h == <<m, n>>
<1>1. h \in Seq(Nat) /\ h \o p = h \o q
  OBVIOUS
<1> HIDE DEF h
<1> QED
  BY <1>1, ConcatSimplifications

\* The bytes of a checksum are those of one channel and payload.
LEMMA Checksums ==
    ASSUME NEW c \in Nat, NEW p \in Seq(Nat)
    PROVE  /\ CrcLo(c, p) \in Seq(Nat) /\ CrcHi(c, p) \in Seq(Nat)
           /\ Len(CrcLo(c, p)) > 1 /\ Len(CrcHi(c, p)) > 1
           /\ CrcLo(c, p)[1] = 0 /\ CrcHi(c, p)[1] = 1
           /\ \A d \in Nat, q \in Seq(Nat) : CrcHi(c, p) = CrcHi(d, q) => c = d /\ p = q
<1>1. ASSUME NEW d \in Nat, NEW q \in Seq(Nat), CrcHi(c, p) = CrcHi(d, q)
      PROVE  c = d /\ p = q
  <2>1. <<1, c>> \o p = <<1, d>> \o q
    BY <1>1 DEF CrcHi
  <2>2. (<<1, c>> \o p)[2] = c /\ (<<1, d>> \o q)[2] = d
    BY Prefixed
  <2>3. c = d
    BY <2>1, <2>2
  <2>4. <<1, c>> \o p = <<1, c>> \o q
    BY <2>1, <2>3
  <2> QED
    BY <2>3, <2>4, PrefixedAlike
<1>2. /\ <<0, c>> \o p \in Seq(Nat) /\ <<1, c>> \o p \in Seq(Nat)
      /\ Len(<<0, c>> \o p) > 1 /\ Len(<<1, c>> \o p) > 1
      /\ (<<0, c>> \o p)[1] = 0 /\ (<<1, c>> \o p)[1] = 1
  BY Prefixed
<1> QED
  BY <1>1, <1>2 DEF CrcLo, CrcHi

LEMMA BytesAre ==
  /\ \A b \in Bytes : b \in Seq(Nat) /\ Len(b) >= 1 /\ b[1] \in Nat
  /\ \A p \in Carried : p \in Seq(Nat) /\ Len(p) >= 5
<1>1. ASSUME NEW p \in Carried PROVE p \in Seq(Nat) /\ Len(p) >= 5
  <2> PICK t \in Telegrams : p = t \o <<7, 0>>
    BY DEF Carried
  <2>1. p \in Seq(Nat) /\ Len(p) = Len(t) + 2 /\ Len(t) \in Nat /\ Len(t) >= 3
    BY Payloads
  <2> QED
    BY <2>1
<1>2. ASSUME NEW b \in Bytes PROVE b \in Seq(Nat) /\ Len(b) >= 1
  <2>1. ASSUME b \in {<<n>> : n \in Nat} PROVE b \in Seq(Nat) /\ Len(b) >= 1
    <3> PICK n \in Nat : b = <<n>>
      BY <2>1
    <3> QED
      OBVIOUS
  <2>2. ASSUME NEW c \in Nat, NEW p \in Seq(Nat), b \in {CrcLo(c, p), CrcHi(c, p)}
        PROVE  b \in Seq(Nat) /\ Len(b) >= 1
    <3>1. b \in Seq(Nat) /\ Len(b) > 1 /\ Len(b) \in Nat
      BY <2>2, Checksums, LenProperties
    <3> QED
      BY <3>1
  <2>3. ChanMl \in Nat /\ ChanGpio \in Nat /\ << 1 >> \in Seq(Nat)
    BY DEF ChanMl, ChanGpio
  <2> QED
    BY <1>1, <2>1, <2>2, <2>3 DEF Bytes
<1>3. ASSUME NEW b \in Bytes PROVE b[1] \in Nat
  <2>1. 1 \in 1 .. Len(b)
    BY <1>2, LenProperties
  <2> QED
    BY <1>2, <2>1, ElementOfSeq
<1> QED
  BY <1>1, <1>2, <1>3

LEMMA AppendTwo ==
    ASSUME NEW T, NEW s \in Seq(T), NEW a \in T, NEW b \in T
    PROVE  s \o <<a, b>> = Append(Append(s, a), b)
<1> DEFINE e == <<a, b>>
           l == s \o e
           r == Append(Append(s, a), b)
<1>1. e \in Seq(T) /\ Len(e) = 2 /\ e[1] = a /\ e[2] = b
  OBVIOUS
<1>2. Len(s) \in Nat
  BY LenProperties
<1> HIDE DEF e
<1>3. /\ l \in Seq(T) /\ Len(l) = Len(s) + Len(e)
      /\ \A i \in 1 .. Len(s) + Len(e) : l[i] = IF i <= Len(s) THEN s[i] ELSE e[i - Len(s)]
  BY <1>1, ConcatProperties
<1>0. Len(l) = Len(s) + 2 /\ Len(s) + Len(e) = Len(s) + 2
  BY <1>1, <1>2, <1>3
<1>4. /\ r \in Seq(T) /\ Len(r) = Len(s) + 2
      /\ \A i \in 1 .. Len(s) : r[i] = s[i]
      /\ r[Len(s) + 1] = a /\ r[Len(s) + 2] = b
  <2> DEFINE q == Append(s, a)
  <2>1. /\ q \in Seq(T) /\ Len(q) = Len(s) + 1
        /\ \A i \in 1 .. Len(s) : q[i] = s[i]
        /\ q[Len(s) + 1] = a
    BY AppendProperties
  <2> HIDE DEF q
  <2>2. /\ Append(q, b) \in Seq(T) /\ Len(Append(q, b)) = Len(q) + 1
        /\ \A i \in 1 .. Len(q) : Append(q, b)[i] = q[i]
        /\ Append(q, b)[Len(q) + 1] = b
    BY <2>1, AppendProperties
  <2>3. r = Append(q, b)
    BY DEF q
  <2> QED
    BY <1>2, <2>1, <2>2, <2>3
<1> HIDE DEF l, r
<1>5. ASSUME NEW i \in 1 .. Len(l) PROVE l[i] = r[i]
  <2>1. CASE i <= Len(s)
    BY <1>2, <1>3, <1>4, <1>0, <2>1
  <2>2. CASE i = Len(s) + 1
    BY <1>1, <1>2, <1>3, <1>4, <1>0, <2>2
  <2>3. CASE i = Len(s) + 2
    BY <1>1, <1>2, <1>3, <1>4, <1>0, <2>3
  <2> QED
    BY <1>2, <1>0, <2>1, <2>2, <2>3
<1>6. l = r
  BY <1>3, <1>4, <1>5, <1>0, SeqEqual
<1> QED
  BY <1>6 DEF l, r, e

\* A frame on the line: one byte of it completes an all-standby, if it is one.
LEMMA Frames ==
    ASSUME NEW c \in {ChanMl, ChanGpio}, NEW p,
           (c = ChanMl /\ p \in Carried) \/ (c = ChanGpio /\ p = << 1 >>),
           NEW u \in Seq(Bytes)
    PROVE  /\ u \o BuildFrame(c, p) \in Seq(Bytes)
           /\ Count(u \o BuildFrame(c, p), StandbyBytes)
                = Count(u, StandbyBytes) + IF CrcHi(c, p) \in StandbyBytes THEN 1 ELSE 0
<1> DEFINE Plain == {<<b>> : b \in Nat}
           h == <<Sync1, Sync2, <<c>>, <<Len(p)>>>>
           q == [i \in 1 .. Len(p) |-> <<p[i]>>]
           lo == CrcLo(c, p)
           hi == CrcHi(c, p)
           f == h \o q
           w == u \o f
<1>1. c \in Nat /\ p \in Seq(Nat) /\ Len(p) \in Nat
  <2>1. << 1 >> \in Seq(Nat) /\ c \in Nat
    BY DEF ChanMl, ChanGpio
  <2>2. p \in Seq(Nat)
    BY <2>1, BytesAre
  <2> QED
    BY <2>1, <2>2, LenProperties
<1>2. h \in Seq(Plain)
  BY <1>1 DEF Sync1, Sync2
<1>3. q \in Seq(Plain)
  <2>1. \A i \in 1 .. Len(p) : p[i] \in Nat
    BY <1>1, ElementOfSeq
  <2>2. q \in [1 .. Len(p) -> Plain]
    BY <2>1
  <2> QED
    BY <1>1, <2>2, SeqDef
<1>4. Plain \subseteq Bytes /\ lo \in Bytes /\ hi \in Bytes
  BY DEF Bytes
<1>5. \A b \in StandbyBytes : b \in Seq(Nat) /\ Len(b) > 1 /\ b[1] = 1
  <2> SUFFICES ASSUME NEW b \in StandbyBytes PROVE b \in Seq(Nat) /\ Len(b) > 1 /\ b[1] = 1
    OBVIOUS
  <2> PICK t \in Telegrams : b = CrcHi(ChanMl, t \o <<7, 0>>)
    BY DEF StandbyBytes, Standbys
  <2>1. ChanMl \in Nat /\ t \o <<7, 0>> \in Seq(Nat)
    BY Payloads DEF ChanMl
  <2> QED
    BY <2>1, Checksums
<1>6. \A b \in Plain : b \notin StandbyBytes
  <2> SUFFICES ASSUME NEW b \in Plain, b \in StandbyBytes PROVE FALSE
    OBVIOUS
  <2> PICK n \in Nat : b = <<n>>
    OBVIOUS
  <2>1. Len(b) = 1
    OBVIOUS
  <2>2. Len(b) > 1
    BY <1>5
  <2> QED
    BY <2>1, <2>2
<1>7. lo \notin StandbyBytes
  <2>1. lo[1] = 0
    BY <1>1, Checksums
  <2> QED
    BY <1>5, <2>1
<1>8. BuildFrame(c, p) = f \o <<lo, hi>>
  BY DEF BuildFrame
<1> HIDE DEF Plain, h, q, lo, hi
<1>9. f \in Seq(Plain)
  BY <1>2, <1>3, ConcatProperties
<1> HIDE DEF f
<1>10. f \in Seq(Bytes) /\ <<lo, hi>> \in Seq(Bytes)
  BY <1>4, <1>9, SeqMonotonic
<1>11. \A i \in DOMAIN f : f[i] \notin StandbyBytes
  BY <1>6, <1>9, LenProperties
<1>12. w \in Seq(Bytes) /\ Count(w, StandbyBytes) = Count(u, StandbyBytes)
  <2>1. w \in Seq(Bytes)
    BY <1>10, ConcatProperties
  <2>2. Count(w, StandbyBytes) = Count(u, StandbyBytes)
    BY <1>10, <1>11, CountConcat
  <2> QED
    BY <2>1, <2>2
<1>13. u \o BuildFrame(c, p) = w \o <<lo, hi>>
  BY <1>8, <1>10, ConcatAssociative
<1> HIDE DEF w
<1>14. w \o <<lo, hi>> = Append(Append(w, lo), hi)
  BY <1>4, <1>12, AppendTwo
<1>15. /\ Append(w, lo) \in Seq(Bytes)
       /\ Count(Append(w, lo), StandbyBytes) = Count(w, StandbyBytes)
  <2>1. Count(w, StandbyBytes) \in Nat
    BY <1>12, CountType
  <2>2. Count(Append(w, lo), StandbyBytes) =
            Count(w, StandbyBytes) + IF lo \in StandbyBytes THEN 1 ELSE 0
    BY <1>4, <1>12, CountAppend
  <2> QED
    BY <1>4, <1>7, <1>12, <2>1, <2>2, AppendProperties
<1> DEFINE v == Append(w, lo)
<1>0. v \in Seq(Bytes)
  BY <1>15
<1> HIDE DEF v
<1>16. /\ Append(v, hi) \in Seq(Bytes)
       /\ Count(Append(v, hi), StandbyBytes)
            = Count(v, StandbyBytes) + IF hi \in StandbyBytes THEN 1 ELSE 0
  BY <1>4, <1>0, AppendProperties, CountAppend
<1> QED
  BY <1>12, <1>13, <1>14, <1>15, <1>16 DEF v, hi

-----------------------------------------------------------------------------
(* Events *)

LEMMA ApiSession ==
    ASSUME Types, NEW s \in Sessions
    PROVE  /\ api[s].open \in BOOLEAN /\ api[s].authed \in BOOLEAN /\ api[s].out \in Seq(Events)
           /\ api[s] = [open |-> api[s].open, authed |-> api[s].authed, out |-> api[s].out]
           /\ DOMAIN api = Sessions
  BY DEF Types, ApiSessions

\* An event reaches those who have logged in.
LEMMA Broadcasts ==
    ASSUME Types, NEW m \in Seq(Events), Broadcast(m)
    PROVE  /\ api' \in [Sessions -> ApiSessions]
           /\ \A s \in Sessions : api[s] = Unconnected => api'[s] = Unconnected
           /\ (\A i \in DOMAIN m : m[i] \notin StandbyEvents) =>
                 \A s \in Sessions :
                    Count(api'[s].out, StandbyEvents) = Count(api[s].out, StandbyEvents)
           /\ m = <<Event("all standby", 0, 0)>> =>
                 \A s \in Sessions :
                    Count(api'[s].out, StandbyEvents) <= Count(api[s].out, StandbyEvents) + 1
<1>1. ASSUME NEW s \in Sessions, ~api[s].authed PROVE api'[s] = api[s]
  BY <1>1 DEF Broadcast
<1>2. ASSUME NEW s \in Sessions, api[s].authed
      PROVE  /\ api'[s] \in ApiSessions /\ api'[s].authed
             /\ api'[s].out = api[s].out \o m
  <2> DEFINE q == api[s].out \o m
  <2>1. q \in Seq(Events)
    BY ApiSession, ConcatProperties
  <2>2. api'[s] = [api[s] EXCEPT !.out = q]
    BY <1>2 DEF Broadcast
  <2> HIDE DEF q
  <2>3. api'[s] = [open |-> api[s].open, authed |-> api[s].authed, out |-> q]
    BY <2>2, ApiSession
  <2>4. [open |-> api[s].open, authed |-> api[s].authed, out |-> q] \in ApiSessions
    BY <2>1, ApiSession DEF ApiSessions
  <2> QED
    BY <1>2, <2>3, <2>4 DEF q
<1>3. api' \in [Sessions -> ApiSessions]
  <2>1. api' = [s \in Sessions |-> api'[s]]
    BY DEF Broadcast
  <2>2. \A s \in Sessions : api'[s] \in ApiSessions
    BY <1>1, <1>2 DEF Types
  <2> QED
    BY <2>1, <2>2
<1>4. ASSUME NEW s \in Sessions, api[s] = Unconnected PROVE api'[s] = Unconnected
  <2>1. ~api[s].authed
    BY <1>4 DEF Unconnected
  <2> QED
    BY <1>1, <1>4, <2>1
<1>5. ASSUME \A i \in DOMAIN m : m[i] \notin StandbyEvents, NEW s \in Sessions
      PROVE  Count(api'[s].out, StandbyEvents) = Count(api[s].out, StandbyEvents)
  <2>1. Count(api[s].out \o m, StandbyEvents) = Count(api[s].out, StandbyEvents)
    BY <1>5, ApiSession, CountConcat
  <2>2. CASE api[s].authed
    BY <1>2, <2>1, <2>2
  <2>3. CASE ~api[s].authed
    BY <1>1, <2>3
  <2> QED
    BY <2>2, <2>3
<1>6. ASSUME m = <<Event("all standby", 0, 0)>>, NEW s \in Sessions
      PROVE  Count(api'[s].out, StandbyEvents) <= Count(api[s].out, StandbyEvents) + 1
  <2> DEFINE e == Event("all standby", 0, 0)
             o == api[s].out
             a == Append(o, e)
  <2>1. e \in Events /\ o \in Seq(Events)
    BY ApiSession DEF Event, Events, EventTypes
  <2>2. o \o m = a
    BY <1>6, <2>1, AppendIsConcat
  <2> HIDE DEF o, e
  <2>3. /\ Count(a, StandbyEvents) = Count(o, StandbyEvents) + IF e \in StandbyEvents THEN 1 ELSE 0
        /\ Count(o, StandbyEvents) \in Nat
    BY <2>1, CountAppend, CountType
  <2> HIDE DEF a
  <2>4. /\ Count(a, StandbyEvents) <= Count(o, StandbyEvents) + 1
        /\ Count(o, StandbyEvents) <= Count(o, StandbyEvents) + 1
    BY <2>3
  <2>5. api'[s].out = a \/ api'[s].out = o
    <3>1. api[s].authed => api'[s].out = o \o m
      BY <1>2 DEF o
    <3>2. ~api[s].authed => api'[s].out = o
      BY <1>1 DEF o
    <3> QED
      BY <2>2, <3>1, <3>2
  <2>6. Count(api'[s].out, StandbyEvents) <= Count(o, StandbyEvents) + 1
    BY <2>4, <2>5
  <2> QED
    BY <2>6 DEF o
<1> QED
  BY <1>3, <1>4, <1>5, <1>6

LEMMA NothingBroadcast ==
    ASSUME Types, UNCHANGED api
    PROVE  <<>> \in Seq(Events) /\ Broadcast(<<>>)
<1>1. ASSUME NEW s \in Sessions
      PROVE  [api[s] EXCEPT !.out = @ \o <<>>] = api[s]
  <2>1. api[s].out \o <<>> = api[s].out
    BY ApiSession, ConcatEmptySeq
  <2> QED
    BY <2>1, ApiSession
<1>2. api = [s \in Sessions |->
              IF api[s].authed THEN [api[s] EXCEPT !.out = @ \o <<>>] ELSE api[s]]
  BY <1>1 DEF Types
<1> QED
  BY <1>2 DEF Broadcast

LEMMA StatusEvents ==
  /\ \A d \in Nat, source \in Nat : StatusOf(d, source) \in Events \ StandbyEvents
  /\ \A f : \A source \in Nat :
        SourceMap(f) => StatusOfAll(f, source) \in Seq(Events \ StandbyEvents)
<1>1. ASSUME NEW d \in Nat, NEW source \in Nat
      PROVE  StatusOf(d, source) \in Events \ StandbyEvents
  BY DEF StatusOf, Event, Events, EventTypes, StandbyEvents
<1>2. ASSUME NEW f, NEW source \in Nat, SourceMap(f)
      PROVE  StatusOfAll(f, source) \in Seq(Events \ StandbyEvents)
  <2> DEFINE S == OnIt(f, source)
             n == Cardinality(S)
             order == SetToSeq(S)
  <2>1. S \subseteq Nat /\ IsFiniteSet(S)
    BY <1>2, FS_Subset DEF OnIt, SourceMap
  <2>2. n \in Nat /\ ExistsBijection(1 .. n, S)
    BY <2>1, FS_CardinalityType
  <2>3. PICK g \in Bijection(1 .. n, S) : TRUE
    BY <2>2 DEF ExistsBijection
  <2>4. g \in [1 .. n -> S] /\ IsInjective(g)
    BY <2>3 DEF Bijection, Injection
  <2>5. order \in [1 .. n -> S]
    BY <2>4 DEF SetToSeq
  <2> HIDE DEF order, S, n
  <2>6. [i \in DOMAIN order |-> StatusOf(order[i], source)] \in [1 .. n -> Events \ StandbyEvents]
    BY <1>1, <2>1, <2>5
  <2>7. [i \in DOMAIN order |-> StatusOf(order[i], source)] \in Seq(Events \ StandbyEvents)
    BY <2>2, <2>6, SeqDef
  <2> QED
    BY <2>7 DEF StatusOfAll, order, S
<1> QED
  BY <1>1, <1>2

LEMMA SourceMaps ==
    ASSUME NEW f, SourceMap(f), NEW d \in Nat, NEW source \in Nat
    PROVE  SourceMap(With(f, d, source)) /\ SourceMap(Without(f, d)) /\ SourceMap(<<>>)
<1>1. IsFiniteSet(DOMAIN f \union {d}) /\ IsFiniteSet(DOMAIN f \ {d})
  BY FS_AddElement, FS_RemoveElement DEF SourceMap
<1>2. SourceMap(With(f, d, source))
  BY <1>1 DEF With, SourceMap
<1>3. SourceMap(Without(f, d))
  BY <1>1 DEF Without, SourceMap
<1>4. SourceMap(<<>>)
  <2>1. DOMAIN <<>> = {}
    OBVIOUS
  <2> QED
    BY <2>1, FS_EmptySet DEF SourceMap
<1> QED
  BY <1>2, <1>3, <1>4

\* What the synthesizer says of a telegram: an all-standby for an all-standby of a device,
\* and for nothing else.
Says(m, t, own) ==
    /\ m \in Seq(Events) /\ Broadcast(m)
    /\ \/ \A i \in DOMAIN m : m[i] \notin StandbyEvents
       \/ m = <<Event("all standby", 0, 0)>> /\ AllStandby(t) /\ ~own

LEMMA SaysNothingElse ==
    ASSUME NEW m \in Seq(Events \ StandbyEvents), Broadcast(m), NEW t, NEW own
    PROVE  Says(m, t, own)
<1>1. m \in Seq(Events)
  BY SeqMonotonic
<1>2. \A i \in DOMAIN m : m[i] \notin StandbyEvents
  BY LenProperties
<1> QED
  BY <1>1, <1>2 DEF Says

LEMMA OneEvent ==
    ASSUME NEW e \in Events \ StandbyEvents
    PROVE  <<e>> \in Seq(Events \ StandbyEvents)
  OBVIOUS

LEMMA FeedSays ==
    ASSUME Types, NEW t \in Lines, Len(t) = 4, NEW own \in BOOLEAN, Feed(t, own)
    PROVE  SourceMap(onSource') /\ \E m : Says(m, t, own)
<1> DEFINE to == t[1]
           from == t[2]
           type == t[3]
           source == t[4]
           devs == ByAddress(from)
           dev == CHOOSE d \in devs : TRUE
           Quiet_ == Events \ StandbyEvents
<1>0. to \in Nat /\ from \in Nat /\ type \in Nat /\ source \in Nat
  BY Constants
<1>1. devs # {} => dev \in Nat
  <2>1. \A f \in Files : DOMAIN f \subseteq Nat
    BY Constants
  <2>2. proc.devices \in Files
    BY DEF Types, Processes
  <2> QED
    BY <2>1, <2>2 DEF ByAddress
<1>2. SourceMap(onSource)
  BY DEF Types
<1>3. ASSUME NEW s, SourceMap(s), NEW m \in Seq(Quiet_), Tells(s, m)
      PROVE  SourceMap(onSource') /\ \E n : Says(n, t, own)
  BY <1>3, SaysNothingElse DEF Tells
<1>4. ASSUME UNCHANGED <<onSource, api>>
      PROVE  SourceMap(onSource') /\ \E n : Says(n, t, own)
  <2>1. <<>> \in Seq(Quiet_) /\ Broadcast(<<>>)
    BY <1>4, NothingBroadcast
  <2> QED
    BY <1>2, <1>4, <2>1, SaysNothingElse
<1> DEFINE Light == type = VirtualBeo4 /\ to = AddrMlgw
           Standby == type \in {KeyRelease, KeyStandby} /\ to = AddrAll /\ ~own
           Release == type = KeyRelease /\ (to # AddrAll \/ own) /\ Extended /\ devs # {}
           Goto == type = GotoSource /\ Extended /\ devs # {}
           Source == type = SourceStatus /\ (to = AddrMlgw \/ Extended)
           Picture == type = PictSound /\ (to = AddrMlgw \/ Extended) /\ devs # {}
<1>5. \/ Light /\ Tells(onSource, <<Event("light", 0, source)>>)
      \/ Standby /\ Tells(<<>>, <<Event("all standby", 0, 0)>>)
      \/ Release /\ IF dev \in DOMAIN onSource
                     THEN Tells(Without(onSource, dev), <<StatusOf(dev, 0)>>)
                     ELSE UNCHANGED <<onSource, api>>
      \/ Goto /\ Tells(With(onSource, dev, source), <<StatusOf(dev, source)>>)
      \/ Source /\ Status(to, from, source)
      \/ Picture /\ Tells(onSource, <<Event("picture", dev, source)>>)
      \/ UNCHANGED <<onSource, api>>
  <2>1. /\ ~(Light /\ Standby) /\ ~(Light /\ Release) /\ ~(Light /\ Goto) /\ ~(Light /\ Source)
        /\ ~(Light /\ Picture) /\ ~(Standby /\ Release) /\ ~(Standby /\ Goto)
        /\ ~(Standby /\ Source) /\ ~(Standby /\ Picture) /\ ~(Release /\ Goto)
        /\ ~(Release /\ Source) /\ ~(Release /\ Picture) /\ ~(Goto /\ Source)
        /\ ~(Goto /\ Picture) /\ ~(Source /\ Picture)
    BY DEF VirtualBeo4, KeyRelease, KeyStandby, GotoSource, SourceStatus, PictSound
  <2>2. Feed(t, own)
    OBVIOUS
  <2>3. CASE Light
    BY <2>1, <2>2, <2>3 DEF Feed
  <2>4. CASE Standby
    BY <2>1, <2>2, <2>4 DEF Feed
  <2>5. CASE Release
    BY <2>1, <2>2, <2>5 DEF Feed
  <2>6. CASE Goto
    BY <2>1, <2>2, <2>6 DEF Feed
  <2>7. CASE Source
    BY <2>1, <2>2, <2>7 DEF Feed
  <2>8. CASE Picture
    BY <2>1, <2>2, <2>8 DEF Feed
  <2>9. CASE ~Light /\ ~Standby /\ ~Release /\ ~Goto /\ ~Source /\ ~Picture
    BY <2>2, <2>9 DEF Feed
  <2> QED
    BY <2>3, <2>4, <2>5, <2>6, <2>7, <2>8, <2>9
<1>6. CASE Light /\ Tells(onSource, <<Event("light", 0, source)>>)
  <2>1. Event("light", 0, source) \in Quiet_
    BY <1>0 DEF Event, Events, EventTypes, StandbyEvents
  <2> QED
    BY <1>2, <1>3, <1>6, <2>1, OneEvent
<1>7. CASE Standby /\ Tells(<<>>, <<Event("all standby", 0, 0)>>)
  <2> DEFINE m == <<Event("all standby", 0, 0)>>
  <2>1. m \in Seq(Events)
    BY DEF Event, Events, EventTypes
  <2>2. AllStandby(t) /\ ~own
    BY <1>7 DEF AllStandby
  <2>0. Broadcast(m)
    BY <1>7 DEF Tells
  <2>3. Says(m, t, own)
    BY <2>1, <2>2, <2>0 DEF Says
  <2>4. SourceMap(onSource')
    BY <1>2, <1>7, SourceMaps DEF Tells
  <2> QED
    BY <2>3, <2>4
<1>8. CASE Release /\ IF dev \in DOMAIN onSource
                      THEN Tells(Without(onSource, dev), <<StatusOf(dev, 0)>>)
                      ELSE UNCHANGED <<onSource, api>>
  <2>1. dev \in Nat /\ <<StatusOf(dev, 0)>> \in Seq(Quiet_)
    BY <1>1, <1>8, StatusEvents, OneEvent
  <2>2. SourceMap(Without(onSource, dev))
    BY <1>0, <1>2, <2>1, SourceMaps
  <2>3. CASE dev \in DOMAIN onSource
    BY <1>3, <1>8, <2>1, <2>2, <2>3
  <2>4. CASE dev \notin DOMAIN onSource
    BY <1>4, <1>8, <2>4
  <2> QED
    BY <2>3, <2>4
<1>9. CASE Goto /\ Tells(With(onSource, dev, source), <<StatusOf(dev, source)>>)
  <2>1. dev \in Nat /\ <<StatusOf(dev, source)>> \in Seq(Quiet_)
    BY <1>0, <1>1, <1>9, StatusEvents, OneEvent
  <2>2. SourceMap(With(onSource, dev, source))
    BY <1>0, <1>2, <2>1, SourceMaps
  <2> QED
    BY <1>3, <1>9, <2>1, <2>2
<1>10. CASE Source /\ Status(to, from, source)
  <2> DEFINE learns == devs # {} /\ (to = AddrMlgw \/ from \in Masters)
             sources == IF learns THEN With(onSource, dev, source) ELSE onSource
             own_ == IF devs # {} /\ to = AddrMlgw THEN <<StatusOf(dev, source)>> ELSE <<>>
             all == IF Extended THEN StatusOfAll(sources, source) ELSE <<>>
  <2>1. SourceMap(sources)
    BY <1>0, <1>1, <1>2, SourceMaps
  <2>10. <<>> \in Seq(Quiet_)
    OBVIOUS
  <2>2. own_ \in Seq(Quiet_)
    <3>1. CASE devs # {} /\ to = AddrMlgw
      <4>1. StatusOf(dev, source) \in Quiet_
        BY <1>0, <1>1, <3>1, StatusEvents
      <4> QED
        BY <3>1, <4>1, OneEvent
    <3>2. CASE ~(devs # {} /\ to = AddrMlgw)
      BY <2>10, <3>2
    <3> QED
      BY <3>1, <3>2
  <2> HIDE DEF sources
  <2>3. all \in Seq(Quiet_)
    <3>1. StatusOfAll(sources, source) \in Seq(Quiet_)
      BY <1>0, <2>1, StatusEvents
    <3> QED
      BY <2>10, <3>1
  <2>4. Tells(sources, own_ \o all)
    BY <1>10 DEF Status, sources
  <2> HIDE DEF own_, all
  <2>5. own_ \o all \in Seq(Quiet_)
    BY <2>2, <2>3, ConcatProperties
  <2> QED
    BY <1>3, <2>1, <2>4, <2>5
<1>11. CASE Picture /\ Tells(onSource, <<Event("picture", dev, source)>>)
  <2>1. Event("picture", dev, source) \in Quiet_
    BY <1>0, <1>1, <1>11 DEF Event, Events, EventTypes, StandbyEvents
  <2> QED
    BY <1>2, <1>3, <1>11, <2>1, OneEvent
<1> QED
  BY <1>4, <1>5, <1>6, <1>7, <1>8, <1>9, <1>10, <1>11

-----------------------------------------------------------------------------
(* The framer *)

LEMMA FeedsByte ==
    ASSUME NEW f \in Framers, NEW b \in Bytes
    PROVE  FeedByte(f, b) \in Framers
<1>1. b \in Seq(Nat) /\ b[1] \in Nat
  BY BytesAre
<1>2. Append(f.payload, b[1]) \in Seq(Nat)
  BY <1>1, AppendProperties DEF Framers
<1>3. <<>> \in Seq(Nat)
  OBVIOUS
<1>4. Reset \in Framers
  BY <1>3 DEF Reset, Framers
<1>5. CASE f.at = "sync1"
  BY <1>5 DEF FeedByte, Framers
<1>6. CASE f.at = "sync2"
  BY <1>6 DEF FeedByte, Framers
<1>7. CASE f.at = "chan"
  BY <1>1, <1>7 DEF FeedByte, Framers
<1>8. CASE f.at = "len"
  <2>1. ASSUME NEW at \in {"crc lo", "payload"}
        PROVE  [f EXCEPT !.len = b[1], !.payload = <<>>, !.at = at] \in Framers
    BY <1>1, <1>3 DEF Framers
  <2> QED
    BY <1>4, <1>8, <2>1 DEF FeedByte
<1>9. CASE f.at = "payload"
  <2> DEFINE p == Append(f.payload, b[1])
  <2> HIDE DEF p
  <2>1. ASSUME NEW at \in {"crc lo", "payload"}
        PROVE  [f EXCEPT !.payload = p, !.at = at] \in Framers
    BY <1>2 DEF Framers, p
  <2> QED
    BY <1>9, <2>1 DEF FeedByte, p
<1>10. CASE f.at = "crc lo"
  BY <1>1, <1>10 DEF FeedByte, Framers
<1>11. CASE f.at = "crc hi"
  BY <1>4, <1>11 DEF FeedByte
<1> QED
  BY <1>5, <1>6, <1>7, <1>8, <1>9, <1>10, <1>11 DEF Framers

\* A complete frame is one that was sent: its last byte is the checksum of it.
LEMMA Completes ==
    ASSUME NEW f \in Framers, NEW b \in Bytes, Complete(f, b), f.chan = ChanMl
    PROVE  f.payload \in Carried /\ b = CrcHi(ChanMl, f.payload)
<1>1. f.payload \in Seq(Nat) /\ ChanMl \in Nat /\ ChanGpio \in Nat /\ ChanGpio # ChanMl
      /\ << 1 >> \in Seq(Nat)
  <2>1. f.payload \in Seq(Nat)
    BY DEF Framers
  <2>2. ChanMl \in Nat /\ ChanGpio \in Nat /\ ChanGpio # ChanMl
    BY DEF ChanMl, ChanGpio
  <2>3. << 1 >> \in Seq(Nat)
    OBVIOUS
  <2> QED
    BY <2>1, <2>2, <2>3
<1>2. b = CrcHi(ChanMl, f.payload)
  BY DEF Complete
<1>3. /\ Len(b) > 1 /\ b[1] = 1
      /\ \A d \in Nat, q \in Seq(Nat) : b = CrcHi(d, q) => ChanMl = d /\ f.payload = q
  <2> DEFINE c == ChanMl
             p == f.payload
  <2> HIDE DEF c, p
  <2>1. c \in Nat /\ p \in Seq(Nat)
    BY <1>1 DEF c, p
  <2>2. /\ Len(CrcHi(c, p)) > 1 /\ CrcHi(c, p)[1] = 1
        /\ \A d \in Nat, q \in Seq(Nat) : CrcHi(c, p) = CrcHi(d, q) => c = d /\ p = q
    BY <2>1, Checksums
  <2>3. b = CrcHi(c, p)
    BY <1>2 DEF c, p
  <2>4. /\ Len(b) > 1 /\ b[1] = 1
        /\ \A d \in Nat, q \in Seq(Nat) : b = CrcHi(d, q) => c = d /\ p = q
    BY <2>2, <2>3
  <2> QED
    BY <2>4 DEF c, p
<1>4. ASSUME NEW n \in Nat PROVE b # <<n>>
  <2>1. Len(<<n>>) = 1
    OBVIOUS
  <2>2. b \in Seq(Nat) /\ Len(b) \in Nat
    BY BytesAre, LenProperties
  <2> DEFINE l == Len(b)
  <2>3. l > 1 /\ l \in Nat
    BY <1>3, <2>2
  <2> HIDE DEF l
  <2>4. l # 1
    BY <2>3
  <2> QED
    BY <2>1, <2>4 DEF l
<1>5. \A d \in Nat, q \in Seq(Nat) : b # CrcLo(d, q)
  <2>1. \A d \in Nat, q \in Seq(Nat) : CrcLo(d, q)[1] = 0
    BY Checksums
  <2> QED
    BY <1>3, <2>1
<1>6. b # CrcHi(ChanGpio, << 1 >>)
  BY <1>1, <1>3
<1>7. PICK p \in Carried : b = CrcHi(ChanMl, p)
  BY <1>1, <1>4, <1>5, <1>6, BytesAre DEF Bytes
<1>8. f.payload = p
  BY <1>1, <1>3, <1>7, BytesAre
<1> QED
  BY <1>2, <1>8

-----------------------------------------------------------------------------
(* The types are kept *)

THEOREM InitTypes == Init => Types
<1> SUFFICES ASSUME Init PROVE Types
  OBVIOUS
<1>1. \A S : <<>> \in Seq(S)
  OBVIOUS
<1>2. framer \in Framers
  BY <1>1 DEF Init, BrokerInit, Reset, Framers
<1>3. file \in Files /\ conf \in Settings
  BY GatewayAssumption DEF Init
<1>4. proc \in Processes
  BY <1>3 DEF Init, Processes
<1>5. pacer \in Pacers
  BY <1>1 DEF Init, Pacers
<1>6. logs \in [Sessions -> LogSessions] /\ api \in [Sessions -> ApiSessions]
  BY <1>1 DEF Init, Off, Unconnected, LogSessions, ApiSessions
<1>7. SourceMap(onSource)
  <2>1. onSource = <<>> /\ DOMAIN onSource = {}
    BY DEF Init
  <2> QED
    BY <2>1, FS_EmptySet DEF SourceMap
<1>8. ha \in Homes
  BY <1>1 DEF Init, Fresh, Homes
<1>9. saving \in [Savers -> Saves] /\ \A w \in Savers : Named(saving[w])
  BY <1>1 DEF Init, Saves, Named
<1>10. /\ bus.standbys \in Nat
       /\ bus = [left |-> bus.left, standbys |-> bus.standbys, missed |-> bus.missed]
  BY DEF Init
<1> QED
  BY <1>1, <1>2, <1>3, <1>4, <1>5, <1>6, <1>7, <1>8, <1>9, <1>10 DEF Types, Init, BrokerInit

LEMMA BusTypes ==
    ASSUME Types, Device \/ Bridge \/ Line \/ BrokerRuns
    PROVE  Types'
<1>1. ASSUME NEW t \in Telegrams, DeviceSends(t) PROVE uart' \in Seq(Bytes)
  <2>1. t \o <<7, 0>> \in Carried /\ uart \in Seq(Bytes)
    BY DEF Carried, Types
  <2> QED
    BY <1>1, <2>1, Frames DEF DeviceSends
<1>2. ASSUME Device PROVE Types'
  <2> PICK t \in Telegrams :
        /\ DeviceSends(t)
        /\ bus' = [bus EXCEPT !.left.telegrams = @ - 1,
                              !.standbys = @ + IF AllStandby(t) THEN 1 ELSE 0]
    BY <1>2 DEF Device
  <2>1. uart' \in Seq(Bytes) /\ UNCHANGED <<framer, rx>>
    BY <1>1 DEF DeviceSends
  <2>2. /\ bus'.standbys = bus.standbys + IF AllStandby(t) THEN 1 ELSE 0
        /\ bus' = [left |-> bus'.left, standbys |-> bus'.standbys, missed |-> bus'.missed]
    BY DEF Types
  <2>3. bus'.standbys \in Nat
    BY <2>2 DEF Types
  <2> QED
    BY <1>2, <2>1, <2>2, <2>3 DEF Device, Types, gatewayVars
<1>3. ASSUME Bridge PROVE Types'
  <2>1. rx' \in Seq(Received)
    <3>1. CASE UNCHANGED rx
      BY <3>1 DEF Types
    <3>2. ASSUME NEW t \in PiSends, PublishMl(t) PROVE rx' \in Seq(Received)
      <4>1. [t |-> t, own |-> TRUE] \in Received
        BY DEF Received, FromPi, OwnSends
      <4> QED
        BY <3>2, <4>1, AppendProperties DEF PublishMl, Types
    <3> QED
      BY <1>3, <3>1, <3>2 DEF Bridge
  <2>2. bus' = [left |-> bus'.left, standbys |-> bus.standbys, missed |-> bus.missed]
    BY <1>3 DEF Bridge, Spend, Types
  <2>3. /\ bus'.standbys \in Nat
        /\ bus' = [left |-> bus'.left, standbys |-> bus'.standbys, missed |-> bus'.missed]
    BY <2>2 DEF Types
  <2> QED
    BY <1>3, <2>1, <2>3 DEF Bridge, Types, gatewayVars
<1>4. ASSUME Line PROVE Types'
  <2>1. uart \in Seq(Bytes) /\ uart # <<>> /\ Tail(uart) \in Seq(Bytes)
    BY <1>4, HeadTailProperties DEF Line, Noise, Types
  <2>2. Spoiled \subseteq Bytes
    <3> SUFFICES ASSUME NEW s \in Spoiled PROVE s \in Bytes
      OBVIOUS
    <3> PICK b \in 0 .. 255 : s = <<b>>
      BY GatewayAssumption
    <3>1. b \in Nat
      OBVIOUS
    <3> QED
      BY <3>1 DEF Bytes
  <2>3. \A b \in Spoiled : <<b>> \o Tail(uart) \in Seq(Bytes)
    BY <2>1, <2>2, ConcatProperties
  <2>4. uart' \in Seq(Bytes)
    BY <1>4, <2>1, <2>3 DEF Line, Noise
  <2> QED
    BY <1>4, <2>4 DEF Line, Noise, Types, gatewayVars
<1>5. ASSUME BrokerRuns, SerialReader PROVE Types'
  <2>1. uart \in Seq(Bytes) /\ uart # <<>> /\ Head(uart) \in Bytes /\ uart' \in Seq(Bytes)
        /\ framer \in Framers
    BY <1>5, HeadTailProperties DEF SerialReader, Types
  <2>2. framer' \in Framers
    BY <1>5, <2>1, FeedsByte DEF SerialReader
  <2>3. rx' \in Seq(Received)
    <3>1. CASE UNCHANGED rx
      BY <3>1 DEF Types
    <3>2. ASSUME Complete(framer, Head(uart)), framer.chan = ChanMl,
                 rx' = Append(rx, [t |-> framer.payload, own |-> FALSE])
          PROVE  rx' \in Seq(Received)
      <4>1. framer.payload \in Carried
        BY <2>1, <3>2, Completes
      <4>2. [t |-> framer.payload, own |-> FALSE] \in Received
        BY <4>1 DEF Received, FromBus
      <4> QED
        BY <3>2, <4>2, AppendProperties DEF Types
    <3> QED
      BY <1>5, <3>1, <3>2 DEF SerialReader, OnWireFrame
  <2> QED
    BY <1>5, <2>1, <2>2, <2>3 DEF BrokerRuns, Types, gatewayVars
<1>6. ASSUME BrokerRuns, RedisSubscriber PROVE Types'
  <2>1. ASSUME NEW m, McuTakes(m) PROVE uart' \in Seq(Bytes)
    <3>1. uart \o BuildFrame(ChanGpio, << 1 >>) \in Seq(Bytes)
      BY Frames DEF Types
    <3> QED
      BY <2>1, <3>1 DEF McuTakes, Types
  <2>2. uart' \in Seq(Bytes)
    BY <1>6, <2>1 DEF RedisSubscriber, Types
  <2> QED
    BY <1>6, <2>2 DEF BrokerRuns, RedisSubscriber, Types, gatewayVars
<1> QED
  BY <1>2, <1>3, <1>4, <1>5, <1>6 DEF BrokerRuns

\* What was received gets onto the loop without its trailer.
LEMMA Receives ==
    ASSUME NEW m \in Received
    PROVE  LET p == IF m.own \/ Len(m.t) <= 2 THEN m.t ELSE SubSeq(m.t, 1, Len(m.t) - 2)
           IN  /\ Call(p, m.own) \in Calls
               /\ m \in CommandRx <=> Call(p, m.own) \in CommandCalls
               /\ m \in CommandRx => m.t = p
               /\ m \in StandbyRx <=> Call(p, m.own) \in StandbyCalls
<1> DEFINE p == IF m.own \/ Len(m.t) <= 2 THEN m.t ELSE SubSeq(m.t, 1, Len(m.t) - 2)
<1>1. ASSUME NEW t \in Telegrams, m = [t |-> t \o <<7, 0>>, own |-> FALSE]
      PROVE  /\ Call(p, m.own) \in Calls
             /\ m \in CommandRx <=> Call(p, m.own) \in CommandCalls
             /\ m \in CommandRx => m.t = p
             /\ m \in StandbyRx <=> Call(p, m.own) \in StandbyCalls
  <2>1. /\ Len(t \o <<7, 0>>) = Len(t) + 2 /\ Len(t) \in Nat /\ Len(t) >= 3
        /\ SubSeq(t \o <<7, 0>>, 1, Len(t \o <<7, 0>>) - 2) = t
        /\ \A u \in Telegrams : t \o <<7, 0>> = u \o <<7, 0>> => t = u
    BY Payloads
  <2>2. ~(Len(t \o <<7, 0>>) <= 2)
    BY <2>1
  <2>3. p = t
    BY <1>1, <2>1, <2>2
  <2> HIDE DEF p
  <2>4. Call(p, m.own) = Call(t, FALSE) /\ Call(t, FALSE).own = FALSE /\ m.own = FALSE
        /\ Call(t, FALSE).t = t
    BY <1>1, <2>3 DEF Call
  <2>5. Call(p, m.own) \in Calls
    BY <2>4 DEF Calls
  <2>6. m \notin CommandRx
    BY <2>4 DEF CommandRx
  <2>7. Call(p, m.own) \notin CommandCalls
    BY <2>4 DEF CommandCalls, Call
  <2>8. m \in StandbyRx <=> t \in Standbys
    BY <1>1, <2>1 DEF StandbyRx, Standbys
  <2>9. Call(p, m.own) \in StandbyCalls <=> t \in Standbys
    BY <2>4 DEF StandbyCalls, Call
  <2> QED
    BY <2>5, <2>6, <2>7, <2>8, <2>9
<1>2. ASSUME NEW t \in OwnSends, m = [t |-> t, own |-> TRUE]
      PROVE  /\ Call(p, m.own) \in Calls
             /\ m \in CommandRx <=> Call(p, m.own) \in CommandCalls
             /\ m \in CommandRx => m.t = p
             /\ m \in StandbyRx <=> Call(p, m.own) \in StandbyCalls
  <2>1. p = t /\ m.own = TRUE /\ m.t = t
    BY <1>2
  <2> HIDE DEF p
  <2>2. Call(p, m.own) = Call(t, TRUE) /\ Call(t, TRUE).own = TRUE /\ Call(t, TRUE).t = t
    BY <2>1 DEF Call
  <2>3. Call(p, m.own) \in Calls
    BY <2>2 DEF Calls
  <2>4. m \in CommandRx <=> t \in Commands
    BY <1>2 DEF CommandRx
  <2>5. Call(p, m.own) \in CommandCalls <=> t \in Commands
    BY <2>2 DEF CommandCalls, Call
  <2>6. m \notin StandbyRx
    BY <2>1 DEF StandbyRx
  <2>7. Call(p, m.own) \notin StandbyCalls
    BY <2>2 DEF StandbyCalls, Call
  <2> QED
    BY <2>1, <2>3, <2>4, <2>5, <2>6, <2>7
<1> QED
  BY <1>1, <1>2 DEF Received, FromBus, FromPi, Carried

LEMMA CallsAre ==
    ASSUME NEW e \in Calls, e.call # "reload"
    PROVE  /\ e = Call(e.t, e.own) /\ e.own \in BOOLEAN /\ e.t \in Lines
           /\ ~e.own => e.t \in Telegrams
           /\ e \in CommandCalls <=> e.own /\ e.t \in Answers
           /\ (AllStandby(e.t) /\ ~e.own) => e \in StandbyCalls
<1>1. PICK p : (e = Call(p, FALSE) /\ p \in Telegrams) \/ (e = Call(p, TRUE) /\ p \in OwnSends)
  <2>1. e # [call |-> "reload"]
    OBVIOUS
  <2>2. \/ \E p \in Telegrams : e = Call(p, FALSE)
        \/ \E p \in OwnSends : e = Call(p, TRUE)
    BY <2>1 DEF Calls
  <2> QED
    BY <2>2
<1>2. e.t = p /\ e = Call(e.t, e.own)
  BY <1>1 DEF Call
<1>3. CASE e = Call(p, FALSE) /\ p \in Telegrams
  <2>1. e.own = FALSE /\ p \in Lines
    BY <1>3 DEF Call, Lines
  <2>2. e \notin CommandCalls
    BY <2>1 DEF CommandCalls, Call
  <2>4. AllStandby(p) => e \in StandbyCalls
    BY <1>3 DEF StandbyCalls, Standbys
  <2> QED
    BY <1>2, <1>3, <2>1, <2>2, <2>4
<1>4. CASE e = Call(p, TRUE) /\ p \in OwnSends
  <2>1. e.own = TRUE /\ p \in Lines
    BY <1>4 DEF Call, Lines
  <2>2. e \in CommandCalls <=> p \in Commands
    BY <1>4 DEF CommandCalls, Call
  <2>3. p \in Commands <=> p \in Answers
    BY <1>4, Constants
  <2> QED
    BY <1>2, <2>1, <2>2, <2>3
<1> QED
  BY <1>1, <1>3, <1>4

\* Home Assistant only notes that a line is not for it.
LEMMA HomeNotes ==
    ASSUME Types, GatewayRuns
    PROVE  /\ UNCHANGED <<saving, bus>> /\ ha' \in Homes
           /\ UNCHANGED <<ha.session, ha.lines, ha.asked, ha.learned, ha.standbys>>
           /\ \/ LoopRuns /\ (~ha'.mixed => ~OthersKey /\ UNCHANGED ha)
              \/ /\ RedisReader \/ PacerRun \/ Boot \/ Subscribe \/ CtlListener
                 /\ UNCHANGED ha
<1>1. ha \in Homes
  BY DEF Types
<1>2. OthersKey \in BOOLEAN
  BY DEF OthersKey
<1>3. CASE LoopRuns /\ ha' = [ha EXCEPT !.mixed = @ \/ OthersKey]
  <2>1. ha'.mixed = (ha.mixed \/ OthersKey) /\ ha.mixed \in BOOLEAN
    BY <1>1, <1>3 DEF Homes
  <2>2. /\ ha' \in Homes
        /\ UNCHANGED <<ha.session, ha.lines, ha.asked, ha.learned, ha.standbys>>
    BY <1>1, <1>2, <1>3 DEF Homes
  <2>3. ASSUME ~ha'.mixed PROVE ~OthersKey /\ UNCHANGED ha
    <3>1. ~OthersKey /\ ha.mixed = FALSE
      BY <2>1, <2>3
    <3>2. ha' = [ha EXCEPT !.mixed = FALSE]
      BY <1>3, <3>1
    <3>3. ha' = ha
      BY <1>1, <3>1, <3>2 DEF Homes
    <3> QED
      BY <3>1, <3>3
  <2>4. UNCHANGED <<saving, bus>>
    BY DEF GatewayRuns
  <2> QED
    BY <1>3, <2>2, <2>3, <2>4
<1>4. CASE /\ RedisReader \/ PacerRun \/ Boot \/ Subscribe \/ CtlListener
           /\ UNCHANGED ha
  BY <1>1, <1>4 DEF GatewayRuns
<1> QED
  BY <1>3, <1>4 DEF GatewayRuns

LEMMA GatewayKeepsTypes ==
    ASSUME Types, GatewayRuns
    PROVE  Types'
<1>8. UNCHANGED <<saving, bus>> /\ ha' \in Homes
  BY HomeNotes
<1>0. \A S : <<>> \in Seq(S)
  OBVIOUS
<1>1. ASSUME RedisReader PROVE Types'
  <2> DEFINE m == Head(rx)
             p == IF m.own \/ Len(m.t) <= 2 THEN m.t ELSE SubSeq(m.t, 1, Len(m.t) - 2)
  <2>1. rx \in Seq(Received) /\ rx # <<>> /\ m \in Received /\ rx' \in Seq(Received)
    BY <1>1, HeadTailProperties DEF RedisReader, Types
  <2>2. loop' = Append(loop, Call(p, m.own))
    BY <1>1 DEF RedisReader, Call
  <2> HIDE DEF m
  <2>3. Call(p, m.own) \in Calls
    BY <2>1, Receives
  <2>4. loop' \in Seq(Calls)
    BY <2>2, <2>3, AppendProperties DEF Types
  <2> QED
    BY <1>8, <1>1, <2>1, <2>4 DEF RedisReader, Types
<1>2. ASSUME LoopRuns PROVE Types'
  <2>1. /\ loop \in Seq(Calls) /\ loop # <<>> /\ Head(loop) \in Calls /\ loop' \in Seq(Calls)
        /\ UNCHANGED <<uart, framer, lastSent, tx, rx, pacer, ctl, file, conf>>
    BY <1>2, HeadTailProperties DEF LoopRuns, Types
  <2>2. ASSUME Reload PROVE Types'
    <3>1. proc' \in Processes
      BY <2>2 DEF Reload, Types, Processes
    <3>2. CASE Broadcast(<<Event("config changed", 0, 0)>>)
      <4> DEFINE e == Event("config changed", 0, 0)
                 m == <<e>>
      <4>3. e \in Events
        BY DEF Event, Events, EventTypes
      <4>0. Broadcast(m)
        BY <3>2
      <4> HIDE DEF e
      <4>1. m \in Seq(Events) /\ Broadcast(m)
        BY <4>3, <4>0
      <4>2. api' \in [Sessions -> ApiSessions]
        BY <4>1, Broadcasts
      <4> QED
        BY <1>8, <2>1, <2>2, <3>1, <4>2 DEF Reload, Types
    <3>3. CASE UNCHANGED api
      BY <1>8, <2>1, <2>2, <3>1, <3>3 DEF Reload, Types
    <3> QED
      BY <2>2, <3>2, <3>3 DEF Reload
  <2>3. ASSUME FanOut(Head(loop)), Head(loop).call # "reload" PROVE Types'
    <3>1. Head(loop).t \in Lines /\ Head(loop).own \in BOOLEAN
      BY <2>1, <2>3, CallsAre
    <3>2. logs' \in [Sessions -> LogSessions]
      <4>1. ASSUME NEW s \in Sessions
            PROVE  [logs[s] EXCEPT !.lines = Append(@, Head(loop).t)] \in LogSessions
        <5>1. Append(logs[s].lines, Head(loop).t) \in Seq(Lines)
          BY <3>1, AppendProperties DEF Types, LogSessions
        <5> QED
          BY <5>1 DEF Types, LogSessions
      <4> QED
        BY <2>3, <4>1 DEF FanOut, Types
    <3>3. SourceMap(onSource') /\ api' \in [Sessions -> ApiSessions]
      <4>1. CASE Len(Head(loop).t) = 4
        <5>1. Feed(Head(loop).t, Head(loop).own)
          BY <2>3, <4>1 DEF FanOut
        <5>2. SourceMap(onSource') /\ \E m : Says(m, Head(loop).t, Head(loop).own)
          BY <3>1, <4>1, <5>1, FeedSays
        <5> QED
          BY <5>2, Broadcasts DEF Says
      <4>2. CASE Len(Head(loop).t) # 4
        BY <2>3, <4>2 DEF FanOut, Types
      <4> QED
        BY <4>1, <4>2
    <3> QED
      BY <1>8, <2>1, <2>3, <3>2, <3>3 DEF FanOut, Types
  <2> QED
    BY <1>2, <2>2, <2>3 DEF LoopRuns
<1>3. ASSUME PacerRun PROVE Types'
  <2> DEFINE c == Head(pacer.queue)
  <2>1. /\ pacer.queue \in Seq(Commands) /\ c \in Commands
        /\ pacer' = [queue |-> Tail(pacer.queue), gap |-> TRUE]
        /\ Tail(pacer.queue) \in Seq(Commands)
    BY <1>3, HeadTailProperties DEF PacerRun, Types, Pacers
  <2>2. pacer' \in Pacers
    BY <2>1 DEF Pacers
  <2>3. Call(c, TRUE) \in Calls /\ [t |-> c, own |-> TRUE] \in Received
    BY <2>1 DEF Calls, Received, FromPi, OwnSends
  <2>4. \/ loop' = Append(loop, Call(c, TRUE)) /\ UNCHANGED rx
        \/ UNCHANGED loop /\ rx' = Append(rx, [t |-> c, own |-> TRUE])
    BY <1>3 DEF PacerRun, PublishMl, Call
  <2> HIDE DEF c
  <2>5. loop' \in Seq(Calls) /\ rx' \in Seq(Received)
    <3>1. loop \in Seq(Calls) /\ rx \in Seq(Received)
      BY DEF Types
    <3>2. Append(loop, Call(c, TRUE)) \in Seq(Calls)
      BY <2>3, <3>1, AppendProperties
    <3>3. Append(rx, [t |-> c, own |-> TRUE]) \in Seq(Received)
      BY <2>3, <3>1, AppendProperties
    <3> QED
      BY <2>4, <3>1, <3>2, <3>3
  <2> QED
    BY <1>8, <1>3, <2>2, <2>5 DEF PacerRun, Types
<1>4. ASSUME Boot PROVE Types'
  <2>1. proc' \in Processes
    BY <1>4 DEF Boot, Types, Processes
  <2> QED
    BY <1>8, <1>4, <2>1 DEF Boot, Types, brokerVars
<1>5. ASSUME Subscribe PROVE Types'
  <2>1. proc' \in Processes
    BY <1>5 DEF Subscribe, Types, Processes
  <2> QED
    BY <1>8, <1>5, <2>1 DEF Subscribe, Types, brokerVars
<1>6. ASSUME CtlListener, Dies PROVE Types'
  <2>1. proc' \in Processes
    BY <1>6 DEF Dies, Types, Processes
  <2>2. pacer' \in Pacers
    BY <1>0, <1>6 DEF Dies, Pacers
  <2>3. logs' \in [Sessions -> LogSessions] /\ api' \in [Sessions -> ApiSessions]
    BY <1>0, <1>6 DEF Dies, Off, Unconnected, LogSessions, ApiSessions
  <2>4. SourceMap(onSource')
    <3>1. 0 \in Nat /\ SourceMap(onSource)
      BY DEF Types
    <3> QED
      BY <1>6, <3>1, SourceMaps DEF Dies
  <2>5. rx' \in Seq(Received) /\ loop' \in Seq(Calls)
    BY <1>0, <1>6 DEF Dies
  <2> QED
    BY <1>8, <1>6, <2>1, <2>2, <2>3, <2>4, <2>5 DEF CtlListener, Types
<1>7. ASSUME CtlListener, ~Dies PROVE Types'
  <2>1. /\ loop' = Append(loop, [call |-> "reload"])
        /\ UNCHANGED <<proc, rx, pacer, logs, api, onSource, uart, framer, file, conf>>
    BY <1>7 DEF CtlListener
  <2>2. [call |-> "reload"] \in Calls
    BY DEF Calls
  <2>3. loop' \in Seq(Calls)
    BY <2>1, <2>2, AppendProperties DEF Types
  <2> QED
    BY <1>8, <2>1, <2>3 DEF Types
<1> QED
  BY <1>1, <1>2, <1>3, <1>4, <1>5, <1>6, <1>7 DEF GatewayRuns

LEMMA HomeIs ==
    ASSUME Types
    PROVE  /\ ha.session \in Nat /\ ha.lines \in Seq(Lines) /\ ha.asked \in Seq(Addresses)
           /\ ha.learned \in Seq(Nat) /\ ha.standbys \in Nat
           /\ ha = [session |-> ha.session, lines |-> ha.lines, asked |-> ha.asked,
                    learned |-> ha.learned, standbys |-> ha.standbys, mixed |-> ha.mixed]
           /\ ha.mixed \in BOOLEAN
           /\ \A s \in Sessions : s \in Nat
  BY GatewayAssumption DEF Types, Homes

LEMMA HomeKeepsTypes ==
    ASSUME Types, HomeAssistant \/ GapEnds
    PROVE  Types'
<1>10. \A S : <<>> \in Seq(S)
  OBVIOUS
<1>0. ASSUME bus' = [bus EXCEPT !.left.logins = @ - 1]
      PROVE  /\ bus'.standbys \in Nat
             /\ bus' = [left |-> bus'.left, standbys |-> bus'.standbys, missed |-> bus'.missed]
  <2>1. bus' = [left |-> bus'.left, standbys |-> bus.standbys, missed |-> bus.missed]
    BY <1>0 DEF Types
  <2> QED
    BY <2>1 DEF Types
<1>1. ASSUME NEW s \in Sessions, SetsUp(s) PROVE Types'
  <2>1. logs' \in [Sessions -> LogSessions]
    <3>1. Off \in LogSessions /\ [Off EXCEPT !.at = "in"] \in LogSessions
      BY <1>10 DEF Off, LogSessions
    <3> QED
      BY <1>1, <3>1 DEF SetsUp, TelnetLogin
  <2>2. ha' \in Homes
    <3>1. ha' = [session |-> s, lines |-> <<>>, asked |-> <<>>, learned |-> <<>>,
                 standbys |-> ha.standbys, mixed |-> pacer.queue # <<>>]
      BY <1>1 DEF SetsUp, Fresh
    <3> QED
      BY <1>10, <3>1, HomeIs DEF Homes
  <2>3. bus' = [bus EXCEPT !.left.logins = @ - 1]
    BY <1>1 DEF SetsUp, Spend
  <2> QED
    BY <1>1, <1>0, <2>1, <2>2, <2>3 DEF SetsUp, TelnetLogin, brokerVars, Types
<1>2. ASSUME NEW s \in Sessions, OpensLog(s) PROVE Types'
  <2>1. logs' \in [Sessions -> LogSessions]
    BY <1>2 DEF OpensLog, MlLogOnline, Types, LogSessions
  <2> QED
    BY <1>2, <2>1 DEF OpensLog, MlLogOnline, brokerVars, Types
<1>3. ASSUME NEW s \in Sessions, Pings(s) PROVE Types'
  <2>1. api' \in [Sessions -> ApiSessions]
    <3> DEFINE e == Event("login fail", 0, 0)
    <3>1. e \in Events
      BY DEF Event, Events, EventTypes
    <3>2. api' = [api EXCEPT ![s] = [open |-> TRUE, authed |-> FALSE, out |-> <<e>>]]
      BY <1>3 DEF Pings, HandlePing
    <3> HIDE DEF e
    <3>3. [open |-> TRUE, authed |-> FALSE, out |-> <<e>>] \in ApiSessions
      BY <3>1 DEF ApiSessions
    <3> QED
      BY <3>2, <3>3 DEF Types
  <2> QED
    BY <1>3, <2>1 DEF Pings, HandlePing, brokerVars, Types
<1>4. ASSUME NEW s \in Sessions, LogsIn(s) PROVE Types'
  <2>1. api' \in [Sessions -> ApiSessions]
    <3> DEFINE e == Event("login ok", 0, 0)
               o == Append(Tail(api[s].out), e)
    <3>1. e \in Events
      BY DEF Event, Events, EventTypes
    <3>2. o \in Seq(Events)
      <4>1. Tail(api[s].out) \in Seq(Events)
        BY <1>4, ApiSession, HeadTailProperties DEF LogsIn
      <4> QED
        BY <3>1, <4>1, AppendProperties
    <3>3. api' = [api EXCEPT ![s] = [api[s] EXCEPT !.authed = TRUE, !.out = o]]
      <4>1. api' = [api EXCEPT ![s].authed = TRUE, ![s].out = o]
        BY <1>4, ApiSession DEF LogsIn, HandleLogin
      <4> HIDE DEF o
      <4> QED
        BY <4>1, ApiSession
    <3> HIDE DEF o
    <3>4. [api[s] EXCEPT !.authed = TRUE, !.out = o] \in ApiSessions
      BY <3>2 DEF Types, ApiSessions
    <3> QED
      BY <3>3, <3>4 DEF Types
  <2> QED
    BY <1>4, <2>1 DEF LogsIn, HandleLogin, brokerVars, Types
<1>5. ASSUME NEW s \in Sessions, GetsEvent(s) PROVE Types'
  <2>1. api' \in [Sessions -> ApiSessions]
    <3> DEFINE o == Tail(api[s].out)
    <3>1. o \in Seq(Events)
      BY <1>5, ApiSession, HeadTailProperties DEF GetsEvent
    <3>2. api' = [api EXCEPT ![s] = [api[s] EXCEPT !.out = o]]
      BY <1>5, ApiSession DEF GetsEvent
    <3> HIDE DEF o
    <3>3. [api[s] EXCEPT !.out = o] \in ApiSessions
      BY <3>1 DEF Types, ApiSessions
    <3> QED
      BY <3>2, <3>3 DEF Types
  <2>2. ha' \in Homes
    <3> DEFINE n == ha.standbys + 1
    <3>1. ha' = ha \/ ha' = [ha EXCEPT !.standbys = n]
      BY <1>5 DEF GetsEvent
    <3>2. n \in Nat
      BY HomeIs
    <3> HIDE DEF n
    <3> QED
      BY <3>1, <3>2 DEF Types, Homes
  <2> QED
    BY <1>5, <2>1, <2>2 DEF GetsEvent, brokerVars, Types
<1>6. ASSUME NEW s \in Sessions, GetsLine(s) PROVE Types'
  <2>1. /\ logs[s].lines \in Seq(Lines) /\ Tail(logs[s].lines) \in Seq(Lines)
        /\ Head(logs[s].lines) \in Lines
    <3>1. logs[s].lines \in Seq(Lines) /\ logs[s].lines # <<>>
      BY <1>6 DEF GetsLine, Types, LogSessions
    <3> QED
      BY <3>1, HeadTailProperties
  <2>2. logs' \in [Sessions -> LogSessions]
    <3>1. [logs[s] EXCEPT !.lines = Tail(logs[s].lines)] \in LogSessions
      BY <2>1 DEF Types, LogSessions
    <3> QED
      BY <1>6, <3>1 DEF GetsLine, Types
  <2>3. ha' \in Homes
    <3> DEFINE l == Append(ha.lines, Head(logs[s].lines))
    <3>1. l \in Seq(Lines)
      BY <2>1, HomeIs, AppendProperties
    <3>2. ha' = [ha EXCEPT !.lines = l]
      BY <1>6 DEF GetsLine
    <3> HIDE DEF l
    <3> QED
      BY <3>1, <3>2 DEF Types, Homes
  <2> QED
    BY <1>6, <2>2, <2>3 DEF GetsLine, brokerVars, Types
<1>7. ASSUME NEW s \in Sessions, NEW d \in DOMAIN proc.devices, AsksDevice(s, d) PROVE Types'
  <2> DEFINE a == proc.devices[d]
  <2>1. a \in Addresses
    <3>1. proc.devices \in Files /\ a \in {proc.devices[x] : x \in DOMAIN proc.devices}
      BY DEF Types, Processes
    <3> QED
      BY <3>1 DEF Addresses
  <2>2. /\ \/ pacer' = [pacer EXCEPT !.queue = Append(@, Beo4Telegram(a))]
           \/ UNCHANGED pacer
        /\ ha' = [ha EXCEPT !.asked = Append(@, a), !.mixed = @ \/ a = NoAddress]
    BY <1>7 DEF AsksDevice, HandleBeo4
  <2> HIDE DEF a
  <2>3. Append(ha.asked, a) \in Seq(Addresses)
    BY <2>1, HomeIs, AppendProperties
  <2>4. Append(pacer.queue, Beo4Telegram(a)) \in Seq(Commands)
    BY <2>1, AppendProperties DEF Types, Pacers, Commands
  <2>5. ha' \in Homes
    BY <2>2, <2>3 DEF Types, Homes
  <2>6. pacer' \in Pacers
    BY <2>2, <2>4 DEF Types, Pacers
  <2> QED
    BY <1>7, <2>5, <2>6 DEF AsksDevice, HandleBeo4, brokerVars, Types
<1>8. ASSUME HandlesLine PROVE Types'
  <2> PICK i \in DOMAIN ha.lines :
        LET t == ha.lines[i]
            rest == [ha EXCEPT !.lines = RemoveAt(@, i)]
        IN  ha' = IF IsAnswer(t)
                  THEN [rest EXCEPT !.learned = Append(@, t[1])] ELSE rest
    BY <1>8 DEF HandlesLine
  <2> DEFINE t == ha.lines[i]
             r == RemoveAt(ha.lines, i)
             l == Append(ha.learned, t[1])
  <2>1. r \in Seq(Lines)
    BY HomeIs, CountRemoved
  <2>2. l \in Seq(Nat)
    <3>1. t \in Lines
      BY HomeIs, LenProperties
    <3>2. t[1] \in Nat
      BY <3>1, Constants
    <3> QED
      BY <3>2, HomeIs, AppendProperties
  <2>3. ha' = [ha EXCEPT !.lines = r] \/ ha' = [ha EXCEPT !.lines = r, !.learned = l]
    OBVIOUS
  <2> HIDE DEF r, l
  <2>4. ha' \in Homes
    BY <2>1, <2>2, <2>3 DEF Types, Homes
  <2> QED
    BY <1>8, <2>4 DEF HandlesLine, brokerVars, gatewayVars, Types
<1>9. ASSUME GapEnds PROVE Types'
  <2>1. pacer' \in Pacers
    BY <1>9 DEF GapEnds, GapOver, Types, Pacers
  <2> QED
    BY <1>9, <2>1 DEF GapEnds, GapOver, brokerVars, Types
<1> QED
  BY <1>1, <1>2, <1>3, <1>4, <1>5, <1>6, <1>7, <1>8, <1>9 DEF HomeAssistant

LEMMA SaveIs ==
    ASSUME Types, NEW w \in Savers
    PROVE  /\ saving[w] \in Saves /\ Named(saving[w]) /\ DOMAIN saving = Savers
           /\ saving[w].todo \in Seq({"write", "publish"})
           /\ saving[w] = [at |-> saving[w].at, todo |-> saving[w].todo,
                           request |-> saving[w].request]
  BY DEF Types, Saves

LEMMA SaveContinues ==
    ASSUME Types, NEW w \in Savers, saving[w].todo # <<>>,
           saving' = [saving EXCEPT ![w] = Continues(w)]
    PROVE  saving' \in [Savers -> Saves] /\ \A v \in Savers : Named(saving'[v])
<1> DEFINE r == Tail(saving[w].todo)
           a == IF Len(saving[w].todo) = 1 THEN "idle" ELSE saving[w].at
<1>1. r \in Seq({"write", "publish"}) /\ Len(r) = Len(saving[w].todo) - 1
  BY SaveIs, HeadTailProperties
<1>2. r # <<>> => a # "idle"
  <2>1. saving[w].at # "idle"
    BY SaveIs DEF Named
  <2>2. r # <<>> => Len(r) # 0
    BY <1>1, EmptySeq
  <2> QED
    BY <1>1, <2>1, <2>2, SaveIs, LenProperties
<1>3. Continues(w) = [at |-> a, todo |-> r, request |-> saving[w].request]
  <2>1. Continues(w) = [saving[w] EXCEPT !.todo = r, !.at = a]
    BY SaveIs DEF Continues
  <2> HIDE DEF a, r
  <2> QED
    BY <2>1, SaveIs
<1>4. a \in {"idle", saving[w].at}
  OBVIOUS
<1> HIDE DEF a, r
<1>5. Continues(w) \in Saves /\ Named(Continues(w))
  <2>1. Continues(w) \in Saves
    <3>1. /\ a \in {"idle", "devices", "settings"}
          /\ saving[w].request \in Files \union Settings \union {"none"}
      BY <1>4, SaveIs DEF Saves
    <3> QED
      BY <1>1, <1>3, <3>1 DEF Saves
  <2>2. /\ Continues(w).at = a /\ Continues(w).todo = r
        /\ Continues(w).request = saving[w].request
    BY <1>3
  <2> QED
    BY <1>2, <1>4, <2>1, <2>2, SaveIs DEF Named
<1>6. saving' \in [Savers -> Saves]
  BY <1>5 DEF Types
<1>7. \A v \in Savers : Named(saving'[v])
  BY <1>5 DEF Types
<1> QED
  BY <1>6, <1>7

LEMMA WebKeepsTypes ==
    ASSUME Types, Web \/ CtlBreaks
    PROVE  Types'
<1>1. ASSUME NEW w \in Savers, Begins(w) PROVE Types'
  <2>1. PICK e \in Saves : Named(e) /\ saving' = [saving EXCEPT ![w] = e]
    <3>0. Steps \in Seq({"write", "publish"})
      BY DEF Steps
    <3>1. ASSUME NEW f \in Files,
                 saving' = [saving EXCEPT ![w] = [at |-> "devices", todo |-> Steps, request |-> f]]
          PROVE  \E e \in Saves : Named(e) /\ saving' = [saving EXCEPT ![w] = e]
      <4> DEFINE e == [at |-> "devices", todo |-> Steps, request |-> f]
      <4>1. e \in Saves /\ Named(e)
        BY <3>0 DEF Saves, Named
      <4> QED
        BY <3>1, <4>1
    <3>2. ASSUME NEW c \in Settings,
                 saving' = [saving EXCEPT ![w] = [at |-> "settings", todo |-> Steps, request |-> c]]
          PROVE  \E e \in Saves : Named(e) /\ saving' = [saving EXCEPT ![w] = e]
      <4> DEFINE e == [at |-> "settings", todo |-> Steps, request |-> c]
      <4>1. e \in Saves /\ Named(e)
        BY <3>0 DEF Saves, Named
      <4> QED
        BY <3>2, <4>1
    <3> QED
      BY <1>1, <3>1, <3>2 DEF Begins
  <2>2. saving' \in [Savers -> Saves] /\ \A v \in Savers : Named(saving'[v])
    BY <2>1 DEF Types
  <2>3. bus' = [left |-> bus'.left, standbys |-> bus.standbys, missed |-> bus.missed]
    BY <1>1 DEF Begins, Spend, Types
  <2>4. /\ bus'.standbys \in Nat
        /\ bus' = [left |-> bus'.left, standbys |-> bus'.standbys, missed |-> bus'.missed]
    BY <2>3 DEF Types
  <2> QED
    BY <1>1, <2>2, <2>4 DEF Begins, brokerVars, gatewayVars, Types
<1>2. ASSUME NEW w \in Savers, Writes(w) PROVE Types'
  <2>1. saving[w].todo # <<>>
    BY <1>2 DEF Writes, Doing
  <2>2. saving' \in [Savers -> Saves] /\ \A v \in Savers : Named(saving'[v])
    BY <1>2, <2>1, SaveContinues DEF Writes
  <2>3. file' \in Files /\ conf' \in Settings
    <3>1. /\ saving[w].at = "devices" => saving[w].request \in Files
          /\ saving[w].at # "devices" => saving[w].request \in Settings
      BY <2>1, SaveIs DEF Named, Saves
    <3> QED
      BY <1>2, <3>1 DEF Writes, Types
  <2> QED
    BY <1>2, <2>2, <2>3 DEF Writes, brokerVars, Types
<1>3. ASSUME NEW w \in Savers, Requests(w) PROVE Types'
  <2>1. saving[w].todo # <<>>
    BY <1>3 DEF Requests, Doing
  <2>2. saving' \in [Savers -> Saves] /\ \A v \in Savers : Named(saving'[v])
    BY <1>3, <2>1, SaveContinues DEF Requests
  <2>3. bus' = [left |-> bus.left, standbys |-> bus.standbys, missed |-> bus'.missed]
    BY <1>3 DEF Requests, Types
  <2>4. /\ bus'.standbys \in Nat
        /\ bus' = [left |-> bus'.left, standbys |-> bus'.standbys, missed |-> bus'.missed]
    BY <2>3 DEF Types
  <2> QED
    BY <1>3, <2>2, <2>4 DEF Requests, brokerVars, Types
<1>4. ASSUME CtlBreaks PROVE Types'
  <2>1. proc' \in Processes
    BY <1>4 DEF CtlBreaks, Types, Processes
  <2>2. bus' = [left |-> bus'.left, standbys |-> bus.standbys, missed |-> bus'.missed]
    BY <1>4 DEF CtlBreaks, Types
  <2>3. /\ bus'.standbys \in Nat
        /\ bus' = [left |-> bus'.left, standbys |-> bus'.standbys, missed |-> bus'.missed]
    BY <2>2 DEF Types
  <2> QED
    BY <1>4, <2>1, <2>3 DEF CtlBreaks, brokerVars, Types
<1> QED
  BY <1>1, <1>2, <1>3, <1>4 DEF Web

LEMMA NextTypes == Types /\ [Next]_vars => Types'
<1> SUFFICES ASSUME Types, [Next]_vars PROVE Types'
  OBVIOUS
<1>1. CASE UNCHANGED vars
  BY <1>1 DEF vars, brokerVars, gatewayVars, Types
<1>2. CASE Device \/ Bridge \/ Line \/ BrokerRuns
  BY <1>2, BusTypes
<1>3. CASE GatewayRuns
  BY <1>3, GatewayKeepsTypes
<1>4. CASE HomeAssistant \/ GapEnds
  BY <1>4, HomeKeepsTypes
<1>5. CASE Web \/ CtlBreaks
  BY <1>5, WebKeepsTypes
<1> QED
  BY <1>1, <1>2, <1>3, <1>4, <1>5 DEF Next

\* What a callback on the loop does to the sessions.
LEMMA LoopDoes ==
    ASSUME Types, LoopRuns
    PROVE  /\ loop \in Seq(Calls) /\ loop # <<>> /\ Head(loop) \in Calls /\ loop' = Tail(loop)
           /\ UNCHANGED <<uart, rx, pacer>>
           /\ \E m \in Seq(Events) :
                 /\ Broadcast(m)
                 /\ \/ \A i \in DOMAIN m : m[i] \notin StandbyEvents
                    \/ m = <<Event("all standby", 0, 0)>> /\ Head(loop) \in StandbyCalls
           /\ \/ /\ UNCHANGED logs /\ Head(loop) \notin CommandCalls
              \/ /\ Head(loop).t \in Lines
                 /\ ~OthersKey => (Head(loop) \in CommandCalls <=> Head(loop).t \in Answers)
                 /\ logs' = [s \in Sessions |->
                               IF logs[s].at = "online"
                               THEN [logs[s] EXCEPT !.lines = Append(@, Head(loop).t)]
                               ELSE logs[s]]
<1> DEFINE e == Head(loop)
<1>1. loop \in Seq(Calls) /\ loop # <<>> /\ e \in Calls /\ loop' = Tail(loop)
  BY HeadTailProperties DEF LoopRuns, Types
<1>2. UNCHANGED <<uart, rx, pacer>>
  BY DEF LoopRuns
<1>3. CASE e.call = "reload"
  <2> DEFINE x == Event("config changed", 0, 0)
             m == <<x>>
  <2>1. x \in Events \ StandbyEvents
    BY DEF Event, Events, EventTypes, StandbyEvents
  <2>2. Broadcast(m) \/ UNCHANGED api
    BY <1>3 DEF LoopRuns, Reload
  <2>5. UNCHANGED logs
    BY <1>3 DEF LoopRuns, Reload
  <2>3. e \notin CommandCalls
    BY <1>3 DEF CommandCalls, Call
  <2> HIDE DEF x
  <2>4. m \in Seq(Events) /\ \A i \in DOMAIN m : m[i] \notin StandbyEvents
    BY <2>1
  <2> DEFINE n == <<>>
  <2>6. n \in Seq(Events) /\ \A i \in DOMAIN n : n[i] \notin StandbyEvents
    OBVIOUS
  <2>7. UNCHANGED api => Broadcast(n)
    BY NothingBroadcast
  <2> HIDE DEF m, n
  <2> QED
    BY <1>1, <1>2, <2>2, <2>3, <2>4, <2>5, <2>6, <2>7
<1>4. CASE e.call # "reload"
  <2>1. FanOut(e)
    BY <1>4 DEF LoopRuns
  <2>2. /\ e.t \in Lines /\ e.own \in BOOLEAN
        /\ e \in CommandCalls <=> e.own /\ e.t \in Answers
        /\ (AllStandby(e.t) /\ ~e.own) => e \in StandbyCalls
    BY <1>1, <1>4, CallsAre
  <2>5. ~OthersKey => (e \in CommandCalls <=> e.t \in Answers)
    <3>1. ~OthersKey /\ e.t \in Answers => e.own
      BY <1>4 DEF OthersKey, Answers
    <3> QED
      BY <2>2, <3>1
  <2>3. logs' = [s \in Sessions |->
                   IF logs[s].at = "online" THEN [logs[s] EXCEPT !.lines = Append(@, e.t)]
                   ELSE logs[s]]
    BY <2>1 DEF FanOut
  <2>4. \E m \in Seq(Events) :
          /\ Broadcast(m)
          /\ \/ \A i \in DOMAIN m : m[i] \notin StandbyEvents
             \/ m = <<Event("all standby", 0, 0)>> /\ e \in StandbyCalls
    <3>1. CASE Len(e.t) = 4
      <4>1. Feed(e.t, e.own)
        BY <2>1, <3>1 DEF FanOut
      <4>2. PICK m : Says(m, e.t, e.own)
        BY <2>2, <3>1, <4>1, FeedSays
      <4> QED
        BY <2>2, <4>2 DEF Says
    <3>2. CASE Len(e.t) # 4
      <4>1. UNCHANGED api
        BY <2>1, <3>2 DEF FanOut
      <4> DEFINE m == <<>>
      <4>2. m \in Seq(Events) /\ Broadcast(m)
        BY <4>1, NothingBroadcast
      <4>3. \A i \in DOMAIN m : m[i] \notin StandbyEvents
        OBVIOUS
      <4> QED
        BY <4>2, <4>3
    <3> QED
      BY <3>1, <3>2
  <2> QED
    BY <1>1, <1>2, <2>2, <2>3, <2>4, <2>5
<1> QED
  BY <1>3, <1>4

-----------------------------------------------------------------------------
(* Sessions *)

LEMMA SessionsInit == Init => Current
  BY HomeIs, InitTypes DEF Init, Current, Off, Unconnected

LEMMA SessionsKept ==
    ASSUME Types, Current, [Next]_vars
    PROVE  Current'
<1>0. \A s \in Sessions : s \in Nat /\ ha.session \in Nat
  BY HomeIs
<1>1. CASE UNCHANGED <<logs, api, ha.session>>
  BY <1>1 DEF Current
<1>2. CASE GatewayRuns /\ LoopRuns
  <2>1. ha'.session = ha.session
    BY <1>2, HomeNotes
  <2>2. \A s \in Sessions : api[s] = Unconnected => api'[s] = Unconnected
    BY <1>2, LoopDoes, Broadcasts
  <2>3. ASSUME NEW s \in Sessions
        PROVE  /\ logs'[s].at = logs[s].at
               /\ logs[s].at # "online" => logs'[s] = logs[s]
    BY <1>2, LoopDoes DEF Types, LogSessions
  <2>4. Off.at # "online"
    BY DEF Off
  <2>5. ASSUME NEW s \in Sessions, s # ha'.session PROVE logs'[s] = Off
    <3>1. logs[s] = Off
      BY <2>1, <2>5 DEF Current
    <3>2. logs[s].at # "online"
      BY <2>4, <3>1
    <3> QED
      BY <2>3, <3>1, <3>2
  <2>6. ASSUME NEW s \in Sessions, s > ha'.session PROVE api'[s] = Unconnected
    BY <2>1, <2>2, <2>6 DEF Current
  <2>7. ASSUME NEW s \in Sessions, logs'[s].at # "online" PROVE logs'[s].lines = <<>>
    BY <2>3, <2>7 DEF Current
  <2> QED
    BY <2>5, <2>6, <2>7 DEF Current
<1>3. CASE GatewayRuns /\ CtlListener /\ Dies
  <2>1. ha'.session = ha.session
    BY <1>3, HomeNotes
  <2> QED
    BY <1>3, <2>1 DEF Dies, Current, Off
<1>4. ASSUME NEW s \in Sessions, SetsUp(s) PROVE Current'
  <2>1. ha'.session = s /\ s > ha.session
    BY <1>0, <1>4 DEF SetsUp, Fresh
  <2>2. logs' = [[o \in Sessions |-> Off] EXCEPT ![s].at = "in"] /\ UNCHANGED api
    BY <1>4 DEF SetsUp, TelnetLogin
  <2>3. \A o \in Sessions : o > ha'.session => o > ha.session
    BY <1>0, <2>1
  <2>4. \A o \in Sessions : o # s => logs'[o] = Off
    BY <2>2
  <2>5. \A o \in Sessions : logs'[o].lines = <<>>
    BY <2>2 DEF Off
  <2> QED
    BY <2>1, <2>2, <2>3, <2>4, <2>5 DEF Current
<1>5. ASSUME NEW s \in Sessions, OpensLog(s) PROVE Current'
  <2>1. s = ha.session /\ UNCHANGED <<ha, api>> /\ logs' = [logs EXCEPT ![s].at = "online"]
    BY <1>5 DEF OpensLog, MlLogOnline
  <2>2. logs'[s].at = "online" /\ \A o \in Sessions : o # s => logs'[o] = logs[o]
    BY <2>1 DEF Types, LogSessions
  <2> QED
    BY <2>1, <2>2 DEF Current
<1>6. ASSUME NEW s \in Sessions, Pings(s) PROVE Current'
  <2>1. s = ha.session /\ UNCHANGED <<ha, logs>> /\ \A o \in Sessions : o # s => api'[o] = api[o]
    BY <1>6, ApiSession DEF Pings, HandlePing
  <2> QED
    BY <1>0, <2>1 DEF Current
<1>7. ASSUME NEW s \in Sessions, LogsIn(s) \/ GetsEvent(s) PROVE Current'
  <2>1. /\ api[s] # Unconnected /\ ha'.session = ha.session /\ UNCHANGED logs
        /\ \A o \in Sessions : o # s => api'[o] = api[o]
    <3>1. api[s].out # <<>> /\ UNCHANGED logs /\ \A o \in Sessions : o # s => api'[o] = api[o]
      BY <1>7, ApiSession DEF LogsIn, HandleLogin, GetsEvent
    <3>2. ha'.session = ha.session
      BY <1>7, HomeIs DEF LogsIn, GetsEvent
    <3> QED
      BY <3>1, <3>2 DEF Unconnected
  <2>2. ~(s > ha.session)
    BY <2>1 DEF Current
  <2> QED
    BY <2>1, <2>2 DEF Current
<1>8. ASSUME NEW s \in Sessions, GetsLine(s) PROVE Current'
  <2>1. /\ logs[s].lines # <<>> /\ UNCHANGED api
        /\ logs' = [logs EXCEPT ![s].lines = Tail(@)]
    BY <1>8 DEF GetsLine
  <2>2. /\ logs[s].at = "online" /\ s = ha.session
    BY <2>1 DEF Current, Off
  <2>3. /\ logs'[s].at = "online" /\ \A o \in Sessions : o # s => logs'[o] = logs[o]
    BY <2>1, <2>2 DEF Types, LogSessions
  <2>4. ha'.session = ha.session
    BY <1>8, HomeIs DEF GetsLine
  <2> QED
    BY <2>1, <2>2, <2>3, <2>4 DEF Current
<1>9. CASE Device \/ Bridge \/ Line \/ BrokerRuns \/ GapEnds \/ Web \/ CtlBreaks \/ UNCHANGED vars
  <2>1. UNCHANGED <<logs, api, ha>>
    BY <1>9 DEF Device, Bridge, Line, BrokerRuns, GapEnds, GapOver, Web, Begins, Writes,
                Requests, CtlBreaks, vars, brokerVars, gatewayVars
  <2> QED
    BY <1>1, <2>1
<1>10. CASE GatewayRuns /\ ~LoopRuns /\ ~(CtlListener /\ Dies)
  <2>1. UNCHANGED <<logs, api, ha.session>>
    BY <1>10, HomeNotes DEF RedisReader, PacerRun, Boot, Subscribe, CtlListener
  <2> QED
    BY <1>1, <2>1
<1>11. ASSUME NEW s \in Sessions, NEW d \in DOMAIN proc.devices, AsksDevice(s, d) PROVE Current'
  <2>1. UNCHANGED <<logs, api>> /\ ha'.session = ha.session
    BY <1>11, HomeIs DEF AsksDevice, HandleBeo4
  <2> QED
    BY <1>1, <2>1
<1>12. ASSUME HandlesLine PROVE Current'
  <2>1. UNCHANGED <<logs, api>> /\ ha'.session = ha.session
    BY <1>12, HomeIs DEF HandlesLine, gatewayVars
  <2> QED
    BY <1>1, <2>1
<1> QED
  BY <1>2, <1>3, <1>4, <1>5, <1>6, <1>7, <1>8, <1>9, <1>10, <1>11, <1>12 DEF Next, HomeAssistant

-----------------------------------------------------------------------------
(* All-standbys *)

LEMMA StandbysCounted ==
    ASSUME Types
    PROVE  /\ uart \in Seq(Bytes) /\ rx \in Seq(Received) /\ loop \in Seq(Calls)
           /\ Out \in Seq(Events)
           /\ OnLine \in Nat /\ Published \in Nat /\ Scheduled \in Nat /\ Announced \in Nat
           /\ ha.standbys \in Nat /\ bus.standbys \in Nat
<1>1. uart \in Seq(Bytes) /\ rx \in Seq(Received) /\ loop \in Seq(Calls)
  BY DEF Types
<1>2. Out \in Seq(Events)
  <2>1. CASE ha.session \in Sessions
    BY <2>1, ApiSession DEF Out
  <2>2. CASE ha.session \notin Sessions
    BY <2>2 DEF Out
  <2> QED
    BY <2>1, <2>2
<1>3. OnLine \in Nat /\ Published \in Nat /\ Scheduled \in Nat /\ Announced \in Nat
  BY <1>1, <1>2, CountType DEF OnLine, Published, Scheduled, Announced
<1>4. ha.standbys \in Nat /\ bus.standbys \in Nat
  BY HomeIs DEF Types
<1> QED
  BY <1>1, <1>2, <1>3, <1>4

\* The byte that completes an all-standby.
LEMMA StandbyByte ==
  /\ \A t \in Telegrams : CrcHi(ChanMl, t \o <<7, 0>>) \in StandbyBytes <=> t \in Standbys
  /\ CrcHi(ChanGpio, << 1 >>) \notin StandbyBytes
  /\ \A n \in Nat : <<n>> \notin StandbyBytes
<1>1. ASSUME NEW b \in StandbyBytes
      PROVE  \E t \in Standbys : b = CrcHi(ChanMl, t \o <<7, 0>>)
  BY <1>1 DEF StandbyBytes
<1>2. ASSUME NEW t \in Standbys
      PROVE  t \in Telegrams /\ t \o <<7, 0>> \in Seq(Nat)
  BY <1>2, Payloads DEF Standbys
<1>3. ChanMl \in Nat /\ ChanGpio \in Nat /\ ChanMl # ChanGpio /\ << 1 >> \in Seq(Nat)
  BY DEF ChanMl, ChanGpio
<1>0. ASSUME NEW c \in Nat, NEW d \in Nat, NEW p \in Seq(Nat), NEW q \in Seq(Nat),
             CrcHi(c, p) = CrcHi(d, q)
      PROVE  c = d /\ p = q
  BY <1>0, Checksums
<1>4. ASSUME NEW t \in Telegrams, CrcHi(ChanMl, t \o <<7, 0>>) \in StandbyBytes
      PROVE  t \in Standbys
  <2>1. PICK u \in Standbys : CrcHi(ChanMl, t \o <<7, 0>>) = CrcHi(ChanMl, u \o <<7, 0>>)
    BY <1>1, <1>4
  <2>2. t \o <<7, 0>> \in Seq(Nat) /\ u \o <<7, 0>> \in Seq(Nat) /\ u \in Telegrams
    BY <1>2, Payloads
  <2> DEFINE x == t \o <<7, 0>>
             y == u \o <<7, 0>>
  <2>3. x \in Seq(Nat) /\ y \in Seq(Nat) /\ CrcHi(ChanMl, x) = CrcHi(ChanMl, y)
    BY <2>1, <2>2
  <2> HIDE DEF x, y
  <2>0. x = y
    BY <1>3, <2>3, <1>0
  <2>4. t = u
    BY <2>2, <2>0, Payloads DEF x, y
  <2> QED
    BY <2>4
<1>5. ASSUME NEW t \in Standbys PROVE CrcHi(ChanMl, t \o <<7, 0>>) \in StandbyBytes
  BY <1>5 DEF StandbyBytes
<1>6. ASSUME CrcHi(ChanGpio, << 1 >>) \in StandbyBytes PROVE FALSE
  <2>1. PICK u \in Standbys : CrcHi(ChanGpio, << 1 >>) = CrcHi(ChanMl, u \o <<7, 0>>)
    BY <1>1, <1>6
  <2> DEFINE y == u \o <<7, 0>>
             z == << 1 >>
  <2>2. y \in Seq(Nat) /\ z \in Seq(Nat) /\ CrcHi(ChanGpio, z) = CrcHi(ChanMl, y)
    BY <1>2, <2>1
  <2> HIDE DEF y, z
  <2> QED
    BY <1>3, <2>2, <1>0
<1>7. ASSUME NEW n \in Nat, <<n>> \in StandbyBytes PROVE FALSE
  <2>1. PICK u \in Standbys : <<n>> = CrcHi(ChanMl, u \o <<7, 0>>)
    BY <1>1, <1>7
  <2>2. u \o <<7, 0>> \in Seq(Nat)
    BY <1>2
  <2>3. Len(CrcHi(ChanMl, u \o <<7, 0>>)) > 1
    BY <1>3, <2>2, Checksums
  <2>4. Len(<<n>>) = 1
    OBVIOUS
  <2> QED
    BY <2>1, <2>3, <2>4
<1> QED
  BY <1>2, <1>4, <1>5, <1>6, <1>7

\* What one stage loses another one gains.
LEMMA OneMoves ==
  /\ \A a, b, c, d \in Nat : (a + b) + (c + d) \in Nat
  /\ \A a, b, c, d, n \in Nat : (a + b) + ((c + n) + d) <= (a + (b + n)) + (c + d)
  /\ \A a, b, c, d, n, e \in Nat :
        e <= d + n => (a + b) + (c + e) <= (a + b) + ((c + n) + d)
OBVIOUS

LEMMA CountedInit == Init => Counted
<1> SUFFICES ASSUME Init PROVE Counted
  OBVIOUS
<1>1. uart = <<>> /\ rx = <<>> /\ loop = <<>> /\ Out = <<>>
  BY DEF Init, BrokerInit, Out, Unconnected
<1>2. ha.standbys = 0 /\ bus.standbys = 0
  BY DEF Init, Fresh
<1> QED
  BY <1>1, <1>2, CountEmpty DEF Counted, UnderWay, OnLine, Published, Scheduled, Announced

\* The line and the broker.
LEMMA CountedOnBus ==
    ASSUME Types, Types', Counted, Device \/ Bridge \/ Line \/ BrokerRuns
    PROVE  Counted'
<1>1. /\ Out' = Out /\ Announced' = Announced /\ Scheduled' = Scheduled
      /\ ha'.standbys = ha.standbys
  BY DEF Device, Bridge, Line, BrokerRuns, gatewayVars, Out, Announced, Scheduled
<1>2. /\ OnLine \in Nat /\ Published \in Nat /\ Scheduled \in Nat /\ Announced \in Nat
      /\ ha.standbys \in Nat /\ bus.standbys \in Nat
  BY StandbysCounted
<1>0. OnLine' \in Nat /\ Published' \in Nat /\ bus'.standbys \in Nat
  <2>1. uart' \in Seq(Bytes) /\ rx' \in Seq(Received) /\ bus'.standbys \in Nat
    BY DEF Types
  <2> QED
    BY <2>1, CountType DEF OnLine, Published
<1>3. uart \in Seq(Bytes) /\ rx \in Seq(Received)
  BY StandbysCounted
<1> SUFFICES OnLine' + Published' + bus.standbys <= OnLine + Published + bus'.standbys
  BY <1>1, <1>2, <1>0 DEF Counted, UnderWay
<1>4. CASE Device
  <2> PICK t \in Telegrams :
         /\ DeviceSends(t)
         /\ bus' = [bus EXCEPT !.left.telegrams = @ - 1,
                               !.standbys = @ + IF AllStandby(t) THEN 1 ELSE 0]
    BY <1>4 DEF Device
  <2>1. t \o <<7, 0>> \in Carried
    BY DEF Carried
  <2>2. OnLine' = OnLine + IF t \in Standbys THEN 1 ELSE 0
    BY <1>3, <2>1, Frames, StandbyByte DEF DeviceSends, OnLine
  <2>3. Published' = Published
    BY DEF DeviceSends, Published
  <2>4. bus'.standbys = bus.standbys + IF AllStandby(t) THEN 1 ELSE 0
    BY DEF Types
  <2>5. t \in Standbys <=> AllStandby(t)
    BY DEF Standbys
  <2> QED
    BY <1>2, <1>0, <2>2, <2>3, <2>4, <2>5
<1>5. CASE Bridge
  <2>1. bus'.standbys = bus.standbys /\ OnLine' = OnLine
    BY <1>5 DEF Bridge, Spend, Types, OnLine
  <2>2. CASE UNCHANGED rx
    BY <1>2, <1>0, <2>1, <2>2 DEF Published
  <2>3. ASSUME NEW t \in PiSends, PublishMl(t) PROVE Published' = Published
    <3> DEFINE m == [t |-> t, own |-> TRUE]
    <3>1. rx' = Append(rx, m) /\ m \in Received /\ m \notin StandbyRx
      BY <2>3 DEF PublishMl, Received, FromPi, OwnSends, StandbyRx
    <3> HIDE DEF m
    <3>2. Count(rx', StandbyRx) = Count(rx, StandbyRx) + 0
      BY <1>3, <3>1, CountAppend
    <3> QED
      BY <1>2, <1>0, <3>2 DEF Published
  <2> QED
    BY <1>2, <1>0, <1>5, <2>1, <2>2, <2>3 DEF Bridge
<1>6. CASE Line
  <2>1. /\ UNCHANGED <<rx, bus>> /\ uart # <<>>
        /\ uart' \in {Tail(uart)} \union {<<b>> \o Tail(uart) : b \in Spoiled}
    BY <1>6 DEF Line, Noise
  <2>2. Published' = Published /\ bus'.standbys = bus.standbys
    BY <2>1 DEF Published
  <2>3. OnLine = Count(Tail(uart), StandbyBytes) + IF Head(uart) \in StandbyBytes THEN 1 ELSE 0
    BY <1>3, <2>1, CountTail DEF OnLine
  <2>4. Tail(uart) \in Seq(Bytes)
    BY <1>3, <2>1, HeadTailProperties
  <2>5. Count(Tail(uart), StandbyBytes) \in Nat
    BY <2>4, CountType
  <2>6. OnLine' = Count(Tail(uart), StandbyBytes)
    <3>1. CASE uart' = Tail(uart)
      BY <3>1 DEF OnLine
    <3>2. ASSUME NEW b \in Spoiled, uart' = <<b>> \o Tail(uart)
          PROVE  OnLine' = Count(Tail(uart), StandbyBytes)
      <4>1. PICK n \in 0 .. 255 : b = <<n>>
        BY GatewayAssumption
      <4>2. b \in Bytes /\ b \notin StandbyBytes
        BY <4>1, StandbyByte DEF Bytes
      <4>3. Count(<<b>> \o Tail(uart), StandbyBytes) = Count(Tail(uart), StandbyBytes) + 0
        BY <2>4, <4>2, CountPrepend
      <4> QED
        BY <2>5, <3>2, <4>3 DEF OnLine
    <3> QED
      BY <2>1, <3>1, <3>2
  <2> QED
    BY <1>2, <1>0, <2>2, <2>3, <2>5, <2>6
<1>7. CASE SerialReader /\ UNCHANGED bus
  <2> DEFINE b == Head(uart)
             m == [t |-> framer.payload, own |-> FALSE]
  <2>1. uart # <<>> /\ uart' = Tail(uart) /\ b \in Bytes
    BY <1>3, <1>7, HeadTailProperties DEF SerialReader
  <2>2. OnLine = OnLine' + IF b \in StandbyBytes THEN 1 ELSE 0
    BY <1>3, <2>1, CountTail DEF OnLine
  <2>3. CASE UNCHANGED rx
    BY <1>2, <1>0, <1>7, <2>2, <2>3 DEF Published
  <2>4. CASE rx' = Append(rx, m) /\ Complete(framer, b) /\ framer.chan = ChanMl
    <3>1. framer.payload \in Carried /\ b = CrcHi(ChanMl, framer.payload)
      BY <2>1, <2>4, Completes DEF Types
    <3>2. PICK t \in Telegrams : framer.payload = t \o <<7, 0>>
      BY <3>1 DEF Carried
    <3>3. m \in Received
      BY <3>1 DEF Received, FromBus
    <3>4. m \in StandbyRx => b \in StandbyBytes
      BY <3>1 DEF StandbyRx, StandbyBytes
    <3> HIDE DEF m, b
    <3>5. Count(rx', StandbyRx) = Count(rx, StandbyRx) + IF m \in StandbyRx THEN 1 ELSE 0
      BY <1>3, <2>4, <3>3, CountAppend
    <3>6. Published' = Published + IF m \in StandbyRx THEN 1 ELSE 0
      BY <3>5 DEF Published
    <3> QED
      BY <1>2, <1>0, <1>7, <2>2, <3>4, <3>6
  <2> QED
    BY <1>7, <2>3, <2>4 DEF SerialReader, OnWireFrame
<1>8. CASE RedisSubscriber /\ UNCHANGED bus
  <2>1. Published' = Published /\ bus'.standbys = bus.standbys
    BY <1>8 DEF RedisSubscriber, Published
  <2>2. CASE UNCHANGED uart
    BY <1>2, <1>0, <2>1, <2>2 DEF OnLine
  <2>3. CASE uart' = uart \o BuildFrame(ChanGpio, << 1 >>)
    <3>1. Count(uart', StandbyBytes) = Count(uart, StandbyBytes) + 0
      BY <1>3, <2>3, Frames, StandbyByte
    <3> QED
      BY <1>2, <1>0, <2>1, <3>1 DEF OnLine
  <2> QED
    BY <1>8, <2>2, <2>3 DEF RedisSubscriber, McuTakes
<1> QED
  BY <1>4, <1>5, <1>6, <1>7, <1>8 DEF BrokerRuns

\* The gateway.
LEMMA CountedInGateway ==
    ASSUME Types, Types', Counted, GatewayRuns
    PROVE  Counted'
<1>1. /\ UNCHANGED <<ha.session, bus>> /\ ha.standbys \in Nat /\ bus.standbys \in Nat
      /\ ha'.standbys = ha.standbys /\ bus'.standbys = bus.standbys
  BY StandbysCounted, HomeNotes
<1>2. OnLine \in Nat /\ Published \in Nat /\ Scheduled \in Nat /\ Announced \in Nat
  BY StandbysCounted
<1>3. uart \in Seq(Bytes) /\ rx \in Seq(Received) /\ loop \in Seq(Calls)
  BY StandbysCounted
<1>4. OnLine' \in Nat /\ Published' \in Nat /\ Scheduled' \in Nat /\ Announced' \in Nat
  <2>1. uart' \in Seq(Bytes) /\ rx' \in Seq(Received) /\ loop' \in Seq(Calls)
    BY DEF Types
  <2>2. Out' \in Seq(Events)
    <3>1. CASE ha'.session \in Sessions
      BY <3>1 DEF Out, Types, ApiSessions
    <3>2. CASE ha'.session \notin Sessions
      BY <3>2 DEF Out
    <3> QED
      BY <3>1, <3>2
  <2> QED
    BY <2>1, <2>2, CountType DEF OnLine, Published, Scheduled, Announced
<1>0. UnderWay \in Nat /\ UnderWay' \in Nat
  BY <1>2, <1>4, OneMoves DEF UnderWay
<1> SUFFICES UnderWay' <= UnderWay
  BY <1>1, <1>0 DEF Counted
<1>5. CASE RedisReader
  <2> DEFINE m == Head(rx)
             p == IF m.own \/ Len(m.t) <= 2 THEN m.t ELSE SubSeq(m.t, 1, Len(m.t) - 2)
             e == Call(p, m.own)
  <2>1. /\ rx # <<>> /\ rx' = Tail(rx) /\ loop' = Append(loop, e)
        /\ OnLine' = OnLine /\ Announced' = Announced
    BY <1>1, <1>5 DEF RedisReader, Call, OnLine, Announced, Out
  <2>2. m \in Received
    BY <1>3, <2>1, HeadTailProperties
  <2>3. e \in Calls /\ (m \in StandbyRx <=> e \in StandbyCalls)
    BY <2>2, Receives
  <2> HIDE DEF m, e
  <2>4. Published = Published' + IF m \in StandbyRx THEN 1 ELSE 0
    BY <1>3, <2>1, CountTail DEF Published, m
  <2>5. Scheduled' = Scheduled + IF e \in StandbyCalls THEN 1 ELSE 0
    BY <1>3, <2>1, <2>3, CountAppend DEF Scheduled
  <2>6. PICK n \in {0, 1} : Published = Published' + n /\ Scheduled' = Scheduled + n
    BY <2>3, <2>4, <2>5
  <2>7. UnderWay' = (OnLine + Published') + ((Scheduled + n) + Announced)
    BY <2>1, <2>6 DEF UnderWay
  <2>8. UnderWay = (OnLine + (Published' + n)) + (Scheduled + Announced)
    BY <2>6 DEF UnderWay
  <2> QED
    BY <1>2, <1>4, <2>7, <2>8, OneMoves
<1>6. CASE LoopRuns
  <2> DEFINE e == Head(loop)
  <2>1. loop # <<>> /\ loop' = Tail(loop) /\ OnLine' = OnLine /\ Published' = Published
    BY <1>6, LoopDoes DEF OnLine, Published
  <2>2. Scheduled = Scheduled' + IF e \in StandbyCalls THEN 1 ELSE 0
    BY <1>3, <2>1, CountTail DEF Scheduled
  <2>3. PICK m \in Seq(Events) :
          /\ Broadcast(m)
          /\ \/ \A i \in DOMAIN m : m[i] \notin StandbyEvents
             \/ m = <<Event("all standby", 0, 0)>> /\ e \in StandbyCalls
    BY <1>6, LoopDoes
  <2> HIDE DEF e
  <2>4. Announced' <= Announced + IF e \in StandbyCalls THEN 1 ELSE 0
    <3>1. CASE ha.session \notin Sessions
      BY <1>1, <1>2, <3>1 DEF Announced, Out
    <3>2. CASE ha.session \in Sessions
      <4>1. /\ Announced = Count(api[ha.session].out, StandbyEvents)
            /\ Announced' = Count(api'[ha.session].out, StandbyEvents)
        BY <1>1, <3>2 DEF Announced, Out
      <4>2. CASE \A i \in DOMAIN m : m[i] \notin StandbyEvents
        <5>1. \A s \in Sessions :
                 Count(api'[s].out, StandbyEvents) = Count(api[s].out, StandbyEvents)
          BY <2>3, <4>2, Broadcasts
        <5>2. Announced' = Announced
          BY <3>2, <4>1, <5>1
        <5> QED
          BY <1>2, <5>2
      <4>3. CASE m = <<Event("all standby", 0, 0)>> /\ e \in StandbyCalls
        BY <1>2, <2>3, <3>2, <4>1, <4>3, Broadcasts
      <4> QED
        BY <2>3, <4>2, <4>3
    <3> QED
      BY <3>1, <3>2
  <2>5. PICK n \in {0, 1} : Scheduled = Scheduled' + n /\ Announced' <= Announced + n
    BY <2>2, <2>4
  <2>6. UnderWay = (OnLine + Published) + ((Scheduled' + n) + Announced)
    BY <2>5 DEF UnderWay
  <2>7. UnderWay' = (OnLine + Published) + (Scheduled' + Announced')
    BY <2>1 DEF UnderWay
  <2> QED
    BY <1>2, <1>4, <2>5, <2>6, <2>7, OneMoves
<1>7. CASE PacerRun
  <2> DEFINE t == Head(pacer.queue)
             e == Call(t, TRUE)
             m == [t |-> t, own |-> TRUE]
  <2>1. OnLine' = OnLine /\ Announced' = Announced
    BY <1>1, <1>7 DEF PacerRun, OnLine, Announced, Out
  <2>2. t \in Commands
    BY <1>7, HeadTailProperties DEF PacerRun, Types, Pacers
  <2>3. /\ e \in Calls /\ e \notin StandbyCalls
        /\ m \in Received /\ m \notin StandbyRx
    BY <2>2 DEF Calls, Call, OwnSends, StandbyCalls, Received, FromPi, StandbyRx
  <2>4. \/ loop' = Append(loop, e) /\ UNCHANGED rx
        \/ rx' = Append(rx, m) /\ UNCHANGED loop
    BY <1>7 DEF PacerRun, PublishMl, Call
  <2> HIDE DEF e, m
  <2>5. CASE loop' = Append(loop, e) /\ UNCHANGED rx
    <3>1. Count(loop', StandbyCalls) = Count(loop, StandbyCalls) + 0
      BY <1>3, <2>3, <2>5, CountAppend
    <3> QED
      BY <1>2, <2>1, <2>5, <3>1 DEF UnderWay, Scheduled, Published
  <2>6. CASE rx' = Append(rx, m) /\ UNCHANGED loop
    <3>1. Count(rx', StandbyRx) = Count(rx, StandbyRx) + 0
      BY <1>3, <2>3, <2>6, CountAppend
    <3> QED
      BY <1>2, <2>1, <2>6, <3>1 DEF UnderWay, Scheduled, Published
  <2> QED
    BY <2>4, <2>5, <2>6
<1>8. CASE Boot \/ Subscribe
  <2>1. UnderWay' = UnderWay
    BY <1>1, <1>8 DEF Boot, Subscribe, brokerVars, UnderWay, OnLine, Published, Scheduled,
                      Announced, Out
  <2> QED
    BY <1>0, <2>1
<1>9. CASE CtlListener
  <2>1. OnLine' = OnLine
    BY <1>9 DEF CtlListener, OnLine
  <2>2. CASE Dies
    <3>1. Published' = 0 /\ Scheduled' = 0 /\ Announced' = 0
      <4>1. rx' = <<>> /\ loop' = <<>> /\ Out' = <<>>
        BY <2>2 DEF Dies, Out, Unconnected
      <4> QED
        BY <4>1, CountEmpty DEF Published, Scheduled, Announced
    <3> QED
      BY <1>2, <2>1, <3>1 DEF UnderWay
  <2>3. CASE loop' = Append(loop, [call |-> "reload"]) /\ UNCHANGED <<rx, api>>
    <3> DEFINE e == [call |-> "reload"]
    <3>1. e \in Calls /\ e \notin StandbyCalls
      BY DEF Calls, StandbyCalls, Call
    <3> HIDE DEF e
    <3>2. Count(loop', StandbyCalls) = Count(loop, StandbyCalls) + 0
      BY <1>3, <2>3, <3>1, CountAppend DEF e
    <3>3. Published' = Published /\ Announced' = Announced
      BY <1>1, <2>3 DEF Published, Announced, Out
    <3> QED
      BY <1>2, <2>1, <3>2, <3>3 DEF UnderWay, Scheduled
  <2> QED
    BY <1>9, <2>2, <2>3 DEF CtlListener
<1> QED
  BY <1>5, <1>6, <1>7, <1>8, <1>9 DEF GatewayRuns

\* Home Assistant.
LEMMA CountedAtHome ==
    ASSUME Types, Types', Current, Counted, NEW s \in Sessions,
           SetsUp(s) \/ Pings(s) \/ LogsIn(s) \/ GetsEvent(s)
    PROVE  Counted'
<1>1. OnLine' = OnLine /\ Published' = Published /\ Scheduled' = Scheduled
  BY DEF SetsUp, TelnetLogin, Pings, HandlePing, LogsIn, HandleLogin, GetsEvent, brokerVars,
         OnLine, Published, Scheduled
<1>2. OnLine \in Nat /\ Published \in Nat /\ Scheduled \in Nat /\ Announced \in Nat
  BY StandbysCounted
<1>3. /\ ha.standbys \in Nat /\ bus.standbys \in Nat /\ bus'.standbys = bus.standbys
      /\ ha.session \in Nat /\ \A o \in Sessions : o \in Nat
  BY StandbysCounted, HomeIs DEF SetsUp, Spend, Pings, LogsIn, GetsEvent, Types
<1>4. SUFFICES /\ ha'.standbys + Announced' <= ha.standbys + Announced
               /\ ha'.standbys \in Nat /\ Announced' \in Nat
  <2>1. \A h, h2, a, a2, b, c, o, p \in Nat :
           h2 + a2 <= h + a => h2 + ((o + p) + (c + a2)) <= h + ((o + p) + (c + a))
    OBVIOUS
  <2>2. UnderWay' = (OnLine + Published) + (Scheduled + Announced')
    BY <1>1 DEF UnderWay
  <2>3. ha'.standbys + UnderWay' <= ha.standbys + UnderWay
    BY <1>2, <1>3, <1>4, <2>1, <2>2 DEF UnderWay
  <2>4. UnderWay \in Nat /\ UnderWay' \in Nat
    BY <1>2, <1>4, <2>2, OneMoves DEF UnderWay
  <2> QED
    BY <1>3, <1>4, <2>3, <2>4 DEF Counted
<1>5. ASSUME ha'.session = ha.session, ha.session # s,
             ha'.standbys = ha.standbys, \A o \in Sessions : o # s => api'[o] = api[o]
      PROVE  /\ ha'.standbys + Announced' <= ha.standbys + Announced
             /\ ha'.standbys \in Nat /\ Announced' \in Nat
  <2>1. Out' = Out
    BY <1>5 DEF Out
  <2> QED
    BY <1>2, <1>3, <1>5, <2>1 DEF Announced
<1>6. CASE SetsUp(s)
  <2>1. /\ ha'.session = s /\ ha'.standbys = ha.standbys /\ s > ha.session /\ UNCHANGED api
    BY <1>3, <1>6 DEF SetsUp, Fresh, TelnetLogin
  <2>2. Out' = <<>>
    BY <2>1 DEF Current, Out, Unconnected
  <2>3. Announced' = 0
    BY <2>2, CountEmpty DEF Announced
  <2> QED
    BY <1>2, <1>3, <2>1, <2>3
<1>7. CASE Pings(s)
  <2> DEFINE e == Event("login fail", 0, 0)
  <2>1. e \in Events /\ e \notin StandbyEvents /\ s = ha.session /\ UNCHANGED ha
    BY <1>7 DEF Pings, Event, Events, EventTypes, StandbyEvents
  <2>2. Out' = <<e>>
    BY <1>7, <2>1, ApiSession DEF Pings, HandlePing, Out
  <2> HIDE DEF e
  <2>3. Out' \in Seq(Events) /\ \A i \in DOMAIN Out' : Out'[i] \notin StandbyEvents
    BY <2>1, <2>2
  <2>4. Announced' = 0
    BY <2>3, CountNone DEF Announced
  <2> QED
    BY <1>2, <1>3, <2>1, <2>4
<1>8. CASE LogsIn(s) \/ GetsEvent(s)
  <2> DEFINE o == api[s].out
             h == Head(o)
  <2>1. o \in Seq(Events) /\ o # <<>> /\ h \in Events /\ Tail(o) \in Seq(Events)
    BY <1>8, ApiSession, HeadTailProperties DEF LogsIn, GetsEvent
  <2>2. h \in StandbyEvents <=> h.type = "all standby"
    BY <2>1 DEF StandbyEvents
  <2>3. \A x \in Sessions : x # s => api'[x] = api[x]
    BY <1>8, ApiSession DEF LogsIn, HandleLogin, GetsEvent
  <2>4. ha'.session = ha.session
    BY <1>8, HomeIs DEF LogsIn, GetsEvent
  <2>5. CASE s # ha.session
    <3>1. ha'.standbys = ha.standbys
      BY <1>8, <2>5 DEF LogsIn, GetsEvent
    <3> QED
      BY <1>5, <2>3, <2>4, <2>5, <3>1
  <2>6. CASE s = ha.session
    <3>1. Out = o /\ Out' = api'[s].out
      BY <2>4, <2>6 DEF Out
    <3> HIDE DEF o, h
    <3>2. Announced = Count(Tail(o), StandbyEvents) + IF h \in StandbyEvents THEN 1 ELSE 0
      BY <2>1, <3>1, CountTail DEF Announced, h
    <3>3. Count(Tail(o), StandbyEvents) \in Nat
      BY <2>1, CountType
    <3>4. CASE LogsIn(s)
      <4> DEFINE e == Event("login ok", 0, 0)
      <4>1. e \in Events /\ e \notin StandbyEvents /\ UNCHANGED ha /\ h \notin StandbyEvents
        <5>1. h.type = "login fail" /\ UNCHANGED ha
          BY <3>4 DEF LogsIn, h, o
        <5> QED
          BY <2>2, <5>1 DEF Event, Events, EventTypes, StandbyEvents
      <4> HIDE DEF e
      <4>0. api' = [api EXCEPT ![s].authed = TRUE, ![s].out = Append(Tail(@), e)]
        BY <3>4 DEF LogsIn, HandleLogin, e
      <4>2. Out' = Append(Tail(o), e)
        <5>1. DOMAIN api = Sessions /\ DOMAIN api[s] = {"open", "authed", "out"}
          BY ApiSession
        <5>2. api'[s].out = Append(Tail(api[s].out), e)
          BY <4>0, <5>1
        <5> QED
          BY <3>1, <5>2 DEF o
      <4>3. Announced' = Count(Tail(o), StandbyEvents) + 0
        BY <2>1, <4>1, <4>2, CountAppend DEF Announced
      <4> QED
        BY <1>3, <3>2, <3>3, <4>1, <4>3
    <3>5. CASE GetsEvent(s)
      <4>1. Out' = Tail(o)
        <5>1. api' = [api EXCEPT ![s].out = Tail(@)]
          BY <3>5 DEF GetsEvent
        <5>2. DOMAIN api = Sessions /\ DOMAIN api[s] = {"open", "authed", "out"}
          BY ApiSession
        <5>3. api'[s].out = Tail(api[s].out)
          BY <5>1, <5>2
        <5> QED
          BY <3>1, <5>3 DEF o
      <4>2. ha'.standbys = ha.standbys + IF h \in StandbyEvents THEN 1 ELSE 0
        <5>1. ha' = IF h.type = "all standby" /\ s = ha.session
                    THEN [ha EXCEPT !.standbys = @ + 1] ELSE ha
          BY <3>5 DEF GetsEvent, h, o
        <5>2. CASE h \in StandbyEvents
          <6>1. ha' = [ha EXCEPT !.standbys = @ + 1]
            BY <2>2, <2>6, <5>1, <5>2
          <6>2. ha'.standbys = ha.standbys + 1
            BY <6>1, HomeIs
          <6> QED
            BY <5>2, <6>2
        <5>3. CASE h \notin StandbyEvents
          <6>1. UNCHANGED ha
            BY <2>2, <5>1, <5>3
          <6>2. ha'.standbys = ha.standbys
            BY <6>1
          <6> QED
            BY <1>3, <5>3, <6>2
        <5> QED
          BY <5>2, <5>3
      <4> QED
        BY <1>3, <3>2, <3>3, <4>1, <4>2 DEF Announced
    <3> QED
      BY <1>8, <3>4, <3>5
  <2> QED
    BY <2>5, <2>6
<1> QED
  BY <1>6, <1>7, <1>8

LEMMA CountedKept ==
    ASSUME Types, Types', Current, Counted, [Next]_vars
    PROVE  Counted'
<1>1. ASSUME UNCHANGED <<uart, rx, loop, api, ha.session, ha.standbys, bus.standbys>>
      PROVE  Counted'
  BY <1>1 DEF Counted, UnderWay, OnLine, Published, Scheduled, Announced, Out
<1>2. CASE Device \/ Bridge \/ Line \/ BrokerRuns
  BY <1>2, CountedOnBus
<1>3. CASE GatewayRuns
  BY <1>3, CountedInGateway
<1>4. ASSUME NEW s \in Sessions, SetsUp(s) \/ Pings(s) \/ LogsIn(s) \/ GetsEvent(s) PROVE Counted'
  BY <1>4, CountedAtHome
<1>5. ASSUME NEW s \in Sessions, OpensLog(s) PROVE Counted'
  BY <1>1, <1>5 DEF OpensLog, MlLogOnline, brokerVars
<1>6. ASSUME NEW s \in Sessions, GetsLine(s) PROVE Counted'
  BY <1>1, <1>6, HomeIs DEF GetsLine, brokerVars
<1>7. ASSUME NEW s \in Sessions, NEW d \in DOMAIN proc.devices, AsksDevice(s, d) PROVE Counted'
  BY <1>1, <1>7, HomeIs DEF AsksDevice, HandleBeo4, brokerVars
<1>8. ASSUME HandlesLine PROVE Counted'
  BY <1>1, <1>8, HomeIs DEF HandlesLine, brokerVars, gatewayVars
<1>9. CASE GapEnds \/ UNCHANGED vars
  BY <1>1, <1>9 DEF GapEnds, GapOver, vars, brokerVars, gatewayVars
<1>10. CASE Web \/ CtlBreaks
  <2>1. UNCHANGED <<uart, rx, loop, api, ha>> /\ bus'.standbys = bus.standbys
    BY <1>10 DEF Web, Begins, Writes, Requests, CtlBreaks, Spend, brokerVars, gatewayVars, Types
  <2> QED
    BY <1>1, <2>1
<1> QED
  BY <1>2, <1>3, <1>4, <1>5, <1>6, <1>7, <1>8, <1>9, <1>10 DEF Next, HomeAssistant

(* Home Assistant is told of an all-standby only when a device has sent one, and of each one *)
(* once: neither the Pi's own RELEASE to all nor a telegram the line spoiled passes for one  *)
(* (events.py:16), whatever is published, received or on its way at a restart.               *)
THEOREM StandbysAreReal == Spec => []StandbyIsReal
<1>1. Init => Types /\ Current /\ Counted
  BY InitTypes, SessionsInit, CountedInit
<1>2. Types /\ Current /\ Counted /\ [Next]_vars => (Types /\ Current /\ Counted)'
  BY NextTypes, SessionsKept, CountedKept
<1>3. Types /\ Counted => StandbyIsReal
  BY StandbysCounted, OneMoves DEF Counted, UnderWay, StandbyIsReal
<1> QED
  BY <1>1, <1>2, <1>3, PTL DEF Spec

-----------------------------------------------------------------------------
(* Commands *)

LEMMA Onlys ==
    ASSUME NEW T, NEW s \in Seq(T), NEW S, NEW x
    PROVE  /\ Only(s, S, x) => \A e \in T : (e \in S => e = x) => Only(Append(s, e), S, x)
           /\ Only(s, S, x) /\ s # <<>> => Only(Tail(s), S, x) /\ (Head(s) \in S => Head(s) = x)
           /\ Only(s, S, x) => \A k \in DOMAIN s : Only(RemoveAt(s, k), S, x)
           /\ Count(s, S) = 0 => Only(s, S, x)
<1>0. DOMAIN s = 1 .. Len(s) /\ Len(s) \in Nat
  BY LenProperties
<1>1. ASSUME Only(s, S, x), NEW e \in T, e \in S => e = x PROVE Only(Append(s, e), S, x)
  <2> DEFINE a == Append(s, e)
  <2>1. /\ a \in Seq(T) /\ Len(a) = Len(s) + 1 /\ DOMAIN a = 1 .. Len(a)
        /\ \A i \in 1 .. Len(s) : a[i] = s[i]
        /\ a[Len(s) + 1] = e
    BY AppendProperties, LenProperties
  <2> HIDE DEF a
  <2>2. ASSUME NEW i \in DOMAIN a, a[i] \in S PROVE a[i] = x
    BY <1>0, <1>1, <2>1, <2>2 DEF Only
  <2> QED
    BY <2>2 DEF Only, a
<1>2. ASSUME Only(s, S, x), s # <<>>
      PROVE  Only(Tail(s), S, x) /\ (Head(s) \in S => Head(s) = x)
  <2> DEFINE a == Tail(s)
  <2>1. /\ a \in Seq(T) /\ Len(a) = Len(s) - 1 /\ DOMAIN a = 1 .. Len(a)
        /\ \A i \in 1 .. Len(a) : a[i] = s[i + 1]
    BY <1>2, HeadTailProperties, LenProperties
  <2>2. 1 \in DOMAIN s /\ Head(s) = s[1]
    BY <1>0, <1>2, EmptySeq
  <2> HIDE DEF a
  <2>3. ASSUME NEW i \in DOMAIN a, a[i] \in S PROVE a[i] = x
    BY <1>0, <1>2, <2>1, <2>3 DEF Only
  <2>4. Head(s) \in S => Head(s) = x
    BY <1>2, <2>2 DEF Only
  <2> QED
    BY <2>3, <2>4 DEF Only, a
<1>3. ASSUME Only(s, S, x), NEW k \in DOMAIN s PROVE Only(RemoveAt(s, k), S, x)
  BY <1>3, CountRemoved DEF Only
<1>4. ASSUME Count(s, S) = 0 PROVE Only(s, S, x)
  BY <1>4, CountNone DEF Only
<1> QED
  BY <1>1, <1>2, <1>3, <1>4

LEMMA PrefixIs ==
    ASSUME NEW T, NEW s \in Seq(T), NEW t \in Seq(T)
    PROVE  IsPrefix(s, t) <=> Len(s) <= Len(t) /\ \A i \in 1 .. Len(s) : s[i] = t[i]
<1>0. Len(s) \in Nat /\ Len(t) \in Nat
  BY LenProperties
<1>1. SubSeq(s, 1, Len(s)) = s
  BY SubSeqFull
<1>2. ASSUME Len(s) <= Len(t)
      PROVE  /\ SubSeq(t, 1, Len(s)) \in Seq(T) /\ Len(SubSeq(t, 1, Len(s))) = Len(s)
             /\ \A i \in 1 .. Len(s) : SubSeq(t, 1, Len(s))[i] = t[i]
  <2>1. \A i \in 1 .. Len(s) : t[i] \in T
    BY <1>0, <1>2, ElementOfSeq
  <2>2. /\ SubSeq(t, 1, Len(s)) \in Seq(T)
        /\ Len(SubSeq(t, 1, Len(s))) = IF 1 <= Len(s) THEN Len(s) - 1 + 1 ELSE 0
        /\ \A i \in 1 .. Len(s) - 1 + 1 : SubSeq(t, 1, Len(s))[i] = t[1 + i - 1]
    BY <1>0, <2>1, SubSeqProperties
  <2> QED
    BY <1>0, <2>2
<1>3. ASSUME IsPrefix(s, t) PROVE Len(s) <= Len(t) /\ \A i \in 1 .. Len(s) : s[i] = t[i]
  <2>1. Len(s) <= Len(t) /\ s = SubSeq(t, 1, Len(s))
    BY <1>1, <1>3 DEF IsPrefix
  <2> QED
    BY <1>2, <2>1
<1>4. ASSUME Len(s) <= Len(t), \A i \in 1 .. Len(s) : s[i] = t[i] PROVE IsPrefix(s, t)
  <2> DEFINE u == SubSeq(t, 1, Len(s))
  <2>1. u \in Seq(T) /\ Len(u) = Len(s) /\ \A i \in 1 .. Len(s) : u[i] = s[i]
    BY <1>2, <1>4
  <2> HIDE DEF u
  <2>2. u = s
    BY <2>1, SeqEqual
  <2> QED
    BY <1>1, <1>4, <2>2 DEF IsPrefix, u
<1> QED
  BY <1>3, <1>4

LEMMA CommandsCounted ==
  Types => /\ rx \in Seq(Received) /\ loop \in Seq(Calls) /\ ha.lines \in Seq(Lines)
           /\ Log \in LogSessions /\ Log.lines \in Seq(Lines)
           /\ Sent \in Nat /\ Looped \in Nat /\ Logged \in Nat /\ Taken \in Nat
           /\ InFlight \in Nat
           /\ InFlight = 0 <=> Sent = 0 /\ Looped = 0 /\ Logged = 0 /\ Taken = 0
           /\ pacer.queue \in Seq(Commands) /\ pacer.gap \in BOOLEAN
           /\ Len(pacer.queue) \in Nat
           /\ ha.asked \in Seq(Addresses) /\ ha.asked \in Seq(Nat) /\ Len(ha.asked) \in Nat
           /\ ha.learned \in Seq(Nat) /\ Len(ha.learned) \in Nat
<1> SUFFICES ASSUME Types
             PROVE  /\ rx \in Seq(Received) /\ loop \in Seq(Calls) /\ ha.lines \in Seq(Lines)
                    /\ Log \in LogSessions /\ Log.lines \in Seq(Lines)
                    /\ Sent \in Nat /\ Looped \in Nat /\ Logged \in Nat /\ Taken \in Nat
                    /\ InFlight \in Nat
                    /\ InFlight = 0 <=> Sent = 0 /\ Looped = 0 /\ Logged = 0 /\ Taken = 0
                    /\ pacer.queue \in Seq(Commands) /\ pacer.gap \in BOOLEAN
                    /\ Len(pacer.queue) \in Nat
                    /\ ha.asked \in Seq(Addresses) /\ ha.asked \in Seq(Nat) /\ Len(ha.asked) \in Nat
                    /\ ha.learned \in Seq(Nat) /\ Len(ha.learned) \in Nat
  OBVIOUS
<1>1. rx \in Seq(Received) /\ loop \in Seq(Calls)
  BY DEF Types
<1>2. /\ ha.lines \in Seq(Lines) /\ ha.asked \in Seq(Addresses) /\ Len(ha.asked) \in Nat
      /\ ha.learned \in Seq(Nat) /\ Len(ha.learned) \in Nat
  BY HomeIs, LenProperties
<1>3. Log \in LogSessions /\ Log.lines \in Seq(Lines)
  <2>1. CASE ha.session \in Sessions
    BY <2>1 DEF Log, Types, LogSessions
  <2>2. CASE ha.session \notin Sessions
    BY <2>2 DEF Log, Off, LogSessions
  <2> QED
    BY <2>1, <2>2
<1>4. Sent \in Nat /\ Looped \in Nat /\ Logged \in Nat /\ Taken \in Nat
  BY <1>1, <1>2, <1>3, CountType DEF Sent, Looped, Logged, Taken
<1>5. /\ InFlight \in Nat
      /\ InFlight = 0 <=> Sent = 0 /\ Looped = 0 /\ Logged = 0 /\ Taken = 0
  <2>1. \A a, b, c, d \in Nat : /\ (a + b) + (c + d) \in Nat
                                /\ (a + b) + (c + d) = 0 <=> a = 0 /\ b = 0 /\ c = 0 /\ d = 0
    OBVIOUS
  <2> QED
    BY <1>4, <2>1 DEF InFlight
<1>6. /\ pacer.queue \in Seq(Commands) /\ pacer.gap \in BOOLEAN /\ Len(pacer.queue) \in Nat
  BY LenProperties DEF Types, Pacers
<1>7. ha.asked \in Seq(Nat)
  <2> DEFINE f == ha.asked
  <2>1. f \in Seq(Addresses) /\ Len(f) \in Nat /\ f \in [1 .. Len(f) -> Addresses]
    BY <1>2, LenProperties
  <2> HIDE DEF f
  <2>2. f \in [1 .. Len(f) -> Nat]
    BY <2>1, Constants
  <2>3. f \in Seq(Nat)
    BY <2>1, <2>2, SeqDef
  <2> QED
    BY <2>3 DEF f
<1> QED
  BY <1>1, <1>2, <1>3, <1>4, <1>5, <1>6, <1>7

\* When nothing is under way, nothing else is.
LEMMA NothingOnItsWay ==
  Types /\ InFlight = 0 =>
     \A a : /\ Only(rx, CommandRx, [t |-> a, own |-> TRUE])
            /\ Only(loop, CommandCalls, Call(a, TRUE))
            /\ Only(Log.lines, Answers, a)
            /\ Only(ha.lines, Answers, a)
<1> SUFFICES ASSUME Types, InFlight = 0, NEW a
             PROVE  /\ Only(rx, CommandRx, [t |-> a, own |-> TRUE])
                    /\ Only(loop, CommandCalls, Call(a, TRUE))
                    /\ Only(Log.lines, Answers, a)
                    /\ Only(ha.lines, Answers, a)
  OBVIOUS
<1>1. /\ Count(rx, CommandRx) = 0 /\ Count(loop, CommandCalls) = 0
      /\ Count(Log.lines, Answers) = 0 /\ Count(ha.lines, Answers) = 0
  BY CommandsCounted DEF Sent, Looped, Logged, Taken
<1>2. /\ rx \in Seq(Received) /\ loop \in Seq(Calls) /\ Log.lines \in Seq(Lines)
      /\ ha.lines \in Seq(Lines)
  BY CommandsCounted
<1> HIDE DEF CommandRx, CommandCalls, Answers
<1>3. Only(rx, CommandRx, [t |-> a, own |-> TRUE])
  BY <1>1, <1>2, Onlys
<1>4. Only(loop, CommandCalls, Call(a, TRUE))
  BY <1>1, <1>2, Onlys
<1>5. Only(Log.lines, Answers, a)
  BY <1>1, <1>2, Onlys
<1>6. Only(ha.lines, Answers, a)
  BY <1>1, <1>2, Onlys
<1> QED
  BY <1>3, <1>4, <1>5, <1>6

LEMMA NothingLeft ==
    ASSUME Types', InFlight' = 0
    PROVE  \A a : /\ Only(rx', CommandRx, [t |-> a, own |-> TRUE])
                  /\ Only(loop', CommandCalls, Call(a, TRUE))
                  /\ Only(Log'.lines, Answers, a)
                  /\ Only(ha'.lines, Answers, a)
<1>1. (Types /\ InFlight = 0 =>
         \A a : /\ Only(rx, CommandRx, [t |-> a, own |-> TRUE])
                /\ Only(loop, CommandCalls, Call(a, TRUE))
                /\ Only(Log.lines, Answers, a)
                /\ Only(ha.lines, Answers, a))'
  BY NothingOnItsWay, PTL
<1> QED
  BY <1>1

LEMMA OrderedInit == Init => Paced /\ Ordered
<1> SUFFICES ASSUME Init PROVE Paced /\ Ordered
  OBVIOUS
<1>1. /\ rx = <<>> /\ loop = <<>> /\ Log.lines = <<>> /\ ha.lines = <<>> /\ Log.at = "out"
      /\ pacer.queue = <<>> /\ ha.asked = <<>> /\ ha.learned = <<>>
  BY DEF Init, BrokerInit, Fresh, Log, Off
<1>2. Sent = 0 /\ Looped = 0 /\ InFlight = 0 /\ Types
  <2>1. Sent = 0 /\ Looped = 0 /\ Logged = 0 /\ Taken = 0
    BY <1>1, CountEmpty DEF Sent, Looped, Logged, Taken
  <2> QED
    BY <2>1, InitTypes DEF InFlight
<1>3. IsPrefix(ha.learned, ha.asked)
  BY <1>1 DEF IsPrefix
<1>4. /\ Only(rx, CommandRx, [t |-> Answer, own |-> TRUE])
      /\ Only(loop, CommandCalls, Call(Answer, TRUE))
      /\ Only(Log.lines, Answers, Answer)
      /\ Only(ha.lines, Answers, Answer)
  BY <1>2, NothingOnItsWay
<1>5. Paced
  <2>1. InFlight <= 1 /\ Log.at # "online"
    BY <1>1, <1>2
  <2> QED
    BY <1>1, <1>2, <1>4, <2>1, Zenon DEF Paced
<1>6. Ordered
  <2>1. Len(ha.learned) = 0 /\ Len(ha.asked) = 0 /\ Len(pacer.queue) = 0
    BY <1>1
  <2> QED
    BY <1>1, <1>2, <1>3, <2>1 DEF Ordered, InOrder
<1> QED
  BY <1>5, <1>6

\* A command goes from one place to the next.
LEMMA MovesOn ==
    ASSUME Types, Types', Paced, Ordered,
           ha'.asked = ha.asked, ha'.learned = ha.learned, UNCHANGED pacer, Log'.at = Log.at,
           InFlight' = InFlight,
           Sent = 0 /\ Looped = 0 => Sent' = 0 /\ Looped' = 0,
           Only(rx', CommandRx, [t |-> Answer, own |-> TRUE]),
           Only(loop', CommandCalls, Call(Answer, TRUE)),
           Only(Log'.lines, Answers, Answer),
           Only(ha'.lines, Answers, Answer)
    PROVE  Paced' /\ Ordered'
<1>1. Answer' = Answer
  BY DEF Answer
<1>2. InOrder' /\ Ordered'
  BY DEF Ordered, InOrder
<1>3. Paced'
  <2>1. /\ Log'.at # "online" => pacer'.queue = <<>> /\ Sent' = 0 /\ Looped' = 0
        /\ InFlight' <= 1
        /\ Log'.at = "online" /\ InFlight' = 1 => pacer'.gap
    <3>1. UNCHANGED <<pacer.queue, pacer.gap>>
      OBVIOUS
    <3> QED
      BY <3>1, Zenon DEF Paced
  <2> QED
    BY <1>1, <2>1, Zenon DEF Paced
<1> QED
  BY <1>2, <1>3

\* What is under way when a command moves.
LEMMA CommandMoves ==
  \A a, b, c, d, n \in Nat :
     /\ (a + (b + n)) + (c + d) = ((a + n) + b) + (c + d)
     /\ (a + b) + ((c + n) + d) = (a + (b + n)) + (c + d)
     /\ (a + b) + (c + (d + n)) = (a + b) + ((c + n) + d)
  OBVIOUS

\* The line and the broker: what the Pi sends itself is no answer to a command.
LEMMA OrderedOnBus ==
    ASSUME Types, Types', Paced, Ordered, Device \/ Bridge \/ Line \/ BrokerRuns
    PROVE  Paced' /\ Ordered'
<1>1. UNCHANGED <<loop, logs, pacer, ha>>
  BY DEF Device, Bridge, Line, BrokerRuns, gatewayVars
<1>2. Log' = Log
  BY <1>1 DEF Log
<1>3. \/ UNCHANGED rx
      \/ \E m \in Received \ CommandRx : rx' = Append(rx, m)
  <2>1. CASE Device
    BY <2>1 DEF Device, DeviceSends
  <2>2. CASE Line
    BY <2>2 DEF Line, Noise
  <2>3. CASE RedisSubscriber
    BY <2>3 DEF RedisSubscriber
  <2>4. CASE Bridge
    <3>1. ASSUME NEW t \in PiSends, PublishMl(t)
          PROVE  \E m \in Received \ CommandRx : rx' = Append(rx, m)
      <4> DEFINE m == [t |-> t, own |-> TRUE]
      <4>1. t \notin Commands
        BY Constants, GatewayAssumption
      <4>2. m \in Received /\ m \notin CommandRx
        BY <4>1 DEF Received, FromPi, OwnSends, CommandRx
      <4>3. rx' = Append(rx, m)
        BY <3>1 DEF PublishMl
      <4> QED
        BY <4>2, <4>3
    <3> QED
      BY <2>4, <3>1 DEF Bridge
  <2>5. CASE SerialReader
    <3> DEFINE m == [t |-> framer.payload, own |-> FALSE]
    <3>1. CASE UNCHANGED rx
      BY <3>1
    <3>2. CASE rx' = Append(rx, m) /\ Complete(framer, Head(uart)) /\ framer.chan = ChanMl
      <4>1. Head(uart) \in Bytes /\ framer \in Framers
        BY <2>5, HeadTailProperties DEF SerialReader, Types
      <4>2. framer.payload \in Carried
        BY <3>2, <4>1, Completes
      <4>3. m \in Received /\ m \notin CommandRx
        BY <4>2 DEF Received, FromBus, CommandRx
      <4> QED
        BY <3>2, <4>3
    <3> QED
      BY <2>5, <3>1, <3>2 DEF SerialReader, OnWireFrame
  <2> QED
    BY <2>1, <2>2, <2>3, <2>4, <2>5 DEF BrokerRuns
<1>4. Sent' = Sent /\ Only(rx', CommandRx, [t |-> Answer, own |-> TRUE])
  <2>1. rx \in Seq(Received) /\ Only(rx, CommandRx, [t |-> Answer, own |-> TRUE]) /\ Sent \in Nat
    BY CommandsCounted DEF Paced
  <2>2. CASE UNCHANGED rx
    BY <2>1, <2>2 DEF Sent
  <2>3. ASSUME NEW m \in Received \ CommandRx, rx' = Append(rx, m)
        PROVE  Sent' = Sent /\ Only(rx', CommandRx, [t |-> Answer, own |-> TRUE])
    <3>1. Count(rx', CommandRx) = Count(rx, CommandRx) + 0
      BY <2>1, <2>3, CountAppend
    <3>2. Only(rx', CommandRx, [t |-> Answer, own |-> TRUE])
      BY <2>1, <2>3, Onlys
    <3> QED
      BY <2>1, <3>1, <3>2 DEF Sent
  <2> QED
    BY <1>3, <2>2, <2>3
<1>5. Looped' = Looped /\ Logged' = Logged /\ Taken' = Taken
  BY <1>1, <1>2 DEF Looped, Logged, Taken
<1>6. InFlight' = InFlight
  BY <1>4, <1>5 DEF InFlight
<1> QED
  BY <1>1, <1>2, <1>4, <1>5, <1>6, MovesOn DEF Paced

LEMMA OrderedWhenRead ==
    ASSUME Types, Types', Paced, Ordered, RedisReader, UNCHANGED ha
    PROVE  Paced' /\ Ordered'
<1> DEFINE m == Head(rx)
           p == IF m.own \/ Len(m.t) <= 2 THEN m.t ELSE SubSeq(m.t, 1, Len(m.t) - 2)
           e == Call(p, m.own)
           x == [t |-> Answer, own |-> TRUE]
           y == Call(Answer, TRUE)
<1>1. /\ rx # <<>> /\ rx' = Tail(rx) /\ loop' = Append(loop, e)
      /\ UNCHANGED <<logs, pacer, ha>>
  BY DEF RedisReader, Call
<1>2. Log' = Log /\ Logged' = Logged /\ Taken' = Taken
  BY <1>1 DEF Log, Logged, Taken
<1>3. rx \in Seq(Received) /\ m \in Received /\ loop \in Seq(Calls)
  BY <1>1, CommandsCounted, HeadTailProperties
<1>4. e \in Calls /\ (m \in CommandRx <=> e \in CommandCalls) /\ (m \in CommandRx => m.t = p)
  BY <1>3, Receives
<1>5. \A r \in CommandRx : r = [t |-> r.t, own |-> TRUE]
  BY DEF CommandRx
<1>6. m = x => m.t = Answer /\ m.own
  OBVIOUS
<1>7. m \in CommandRx /\ m = x => e = y
  BY <1>4, <1>6 DEF Call
<1> HIDE DEF m, p, e, x, y
<1>8. Only(rx, CommandRx, x) /\ Only(loop, CommandCalls, y)
  BY DEF Paced, x, y
<1>9. Only(rx', CommandRx, x) /\ (m \in CommandRx => m = x)
  BY <1>1, <1>3, <1>8, Onlys DEF m
<1>10. Only(loop', CommandCalls, y)
  BY <1>1, <1>3, <1>4, <1>7, <1>8, <1>9, Onlys
<1>11. PICK n \in {0, 1} : Sent = Sent' + n /\ Looped' = Looped + n
  <2>1. Sent = Sent' + IF m \in CommandRx THEN 1 ELSE 0
    BY <1>1, <1>3, CountTail DEF Sent, m
  <2>2. Looped' = Looped + IF e \in CommandCalls THEN 1 ELSE 0
    BY <1>1, <1>3, <1>4, CountAppend DEF Looped
  <2> QED
    BY <1>4, <2>1, <2>2
<1>12. Sent \in Nat /\ Sent' \in Nat /\ Looped \in Nat /\ Logged \in Nat /\ Taken \in Nat
  <2>1. Sent' \in Nat
    BY <1>1, <1>3, HeadTailProperties, CountType DEF Sent
  <2> QED
    BY <2>1, CommandsCounted
<1>13. InFlight' = InFlight
  <2>1. InFlight = ((Sent' + n) + Looped) + (Logged + Taken)
    BY <1>11 DEF InFlight
  <2>2. InFlight' = (Sent' + (Looped + n)) + (Logged + Taken)
    BY <1>2, <1>11 DEF InFlight
  <2> QED
    BY <1>12, <2>1, <2>2, CommandMoves
<1>14. Sent = 0 /\ Looped = 0 => Sent' = 0 /\ Looped' = 0
  <2>1. \A b \in Nat : 0 = b + n => b = 0 /\ n = 0
    OBVIOUS
  <2>2. Sent = 0 => Sent' = 0 /\ n = 0
    BY <1>11, <1>12, <2>1
  <2> QED
    BY <1>11, <2>2
<1>15. Only(Log'.lines, Answers, Answer) /\ Only(ha'.lines, Answers, Answer)
  BY <1>1, <1>2 DEF Paced
<1> QED
  BY <1>1, <1>2, <1>9, <1>10, <1>13, <1>14, <1>15, MovesOn DEF x, y

\* A line of the log of the latest session.
LEMMA OrderedOnLoop ==
    ASSUME Types, Types', Paced, Ordered, LoopRuns, ~OthersKey, UNCHANGED ha
    PROVE  Paced' /\ Ordered'
<1> DEFINE e == Head(loop)
           y == Call(Answer, TRUE)
<1>1. /\ loop \in Seq(Calls) /\ loop # <<>> /\ e \in Calls /\ loop' = Tail(loop)
      /\ UNCHANGED <<rx, pacer, ha>>
  BY LoopDoes
<1>2. Sent' = Sent /\ Taken' = Taken
  BY <1>1 DEF Sent, Taken
<1>3. /\ Sent \in Nat /\ Looped \in Nat /\ Logged \in Nat /\ Taken \in Nat
      /\ Log \in LogSessions /\ Log.lines \in Seq(Lines)
  BY CommandsCounted
<1>4. Looped' \in Nat
  BY <1>1, HeadTailProperties, CountType DEF Looped
<1>5. Looped = Looped' + IF e \in CommandCalls THEN 1 ELSE 0
  BY <1>1, CountTail DEF Looped
<1>6. /\ Only(loop, CommandCalls, y) /\ Only(Log.lines, Answers, Answer)
      /\ Only(rx', CommandRx, [t |-> Answer, own |-> TRUE])
      /\ Only(ha'.lines, Answers, Answer)
  BY <1>1 DEF Paced
<1> HIDE DEF e, y
<1>7. Only(loop', CommandCalls, y) /\ (e \in CommandCalls => e = y)
  BY <1>1, <1>6, Onlys DEF e
<1>8. \/ Log' = Log /\ e \notin CommandCalls
      \/ /\ Log' = Log /\ Log.at # "online"
      \/ /\ Log.at = "online" /\ e.t \in Lines /\ (e \in CommandCalls <=> e.t \in Answers)
         /\ Log' = [Log EXCEPT !.lines = Append(@, e.t)]
  <2>1. CASE UNCHANGED logs /\ e \notin CommandCalls
    BY <1>1, <2>1 DEF Log
  <2>2. CASE /\ e.t \in Lines /\ (e \in CommandCalls <=> e.t \in Answers)
             /\ logs' = [s \in Sessions |->
                           IF logs[s].at = "online" THEN [logs[s] EXCEPT !.lines = Append(@, e.t)]
                           ELSE logs[s]]
    <3>1. CASE ha.session \notin Sessions
      BY <1>1, <3>1 DEF Log, Off
    <3>2. CASE ha.session \in Sessions
      <4>1. Log = logs[ha.session] /\ Log' = logs'[ha.session]
        BY <1>1, <3>2 DEF Log
      <4> QED
        BY <2>2, <3>2, <4>1
    <3> QED
      BY <3>1, <3>2
  <2> QED
    BY <2>1, <2>2, LoopDoes DEF e
<1>9. e \in CommandCalls => Log.at = "online"
  <2>1. ASSUME e \in CommandCalls PROVE Looped # 0
    <3>1. Looped = Looped' + 1
      BY <1>5, <2>1
    <3>2. \A b \in Nat : b + 1 # 0
      OBVIOUS
    <3> QED
      BY <1>4, <3>1, <3>2
  <2> QED
    BY <2>1 DEF Paced
<1>10. /\ Logged' = Logged + IF e \in CommandCalls THEN 1 ELSE 0
       /\ Log'.at = Log.at
       /\ Only(Log'.lines, Answers, Answer)
  <2>1. CASE Log' = Log /\ e \notin CommandCalls
    BY <1>3, <1>6, <2>1 DEF Logged
  <2>2. CASE /\ e.t \in Lines /\ (e \in CommandCalls <=> e.t \in Answers)
             /\ Log' = [Log EXCEPT !.lines = Append(@, e.t)]
    <3>1. Log'.at = Log.at /\ Log'.lines = Append(Log.lines, e.t)
      BY <1>3, <2>2 DEF LogSessions
    <3>2. e = y => e.t = Answer
      BY DEF y, Call
    <3>3. Only(Log'.lines, Answers, Answer)
      BY <1>3, <1>6, <1>7, <2>2, <3>1, <3>2, Onlys
    <3>4. Logged' = Logged + IF e.t \in Answers THEN 1 ELSE 0
      BY <1>3, <2>2, <3>1, CountAppend DEF Logged
    <3> QED
      BY <2>2, <3>1, <3>3, <3>4
  <2> QED
    BY <1>8, <1>9, <2>1, <2>2
<1>11. PICK n \in {0, 1} : Looped = Looped' + n /\ Logged' = Logged + n
  BY <1>5, <1>10
<1>12. InFlight' = InFlight
  <2>1. InFlight = (Sent + (Looped' + n)) + (Logged + Taken)
    BY <1>11 DEF InFlight
  <2>2. InFlight' = (Sent + Looped') + ((Logged + n) + Taken)
    BY <1>2, <1>11 DEF InFlight
  <2> QED
    BY <1>3, <1>4, <2>1, <2>2, CommandMoves
<1>13. Sent = 0 /\ Looped = 0 => Sent' = 0 /\ Looped' = 0
  <2>1. \A b \in Nat : 0 = b + n => b = 0
    OBVIOUS
  <2> QED
    BY <1>2, <1>4, <1>11, <2>1
<1> QED
  BY <1>1, <1>6, <1>7, <1>10, <1>12, <1>13, MovesOn DEF y

\* The next command, once the gap is over.
LEMMA OrderedByPacer ==
    ASSUME Types, Types', Paced, Ordered, PacerRun, UNCHANGED ha
    PROVE  Paced' /\ Ordered'
<1> DEFINE q == pacer.queue
           t == Head(q)
           m == [t |-> t, own |-> TRUE]
           e == Call(t, TRUE)
           l == Len(ha.learned)
<1>1. /\ q # <<>> /\ ~pacer.gap /\ pacer'.queue = Tail(q) /\ pacer'.gap = TRUE
      /\ UNCHANGED <<logs, ha>>
      /\ \/ loop' = Append(loop, e) /\ UNCHANGED rx
         \/ rx' = Append(rx, m) /\ UNCHANGED loop
  BY DEF PacerRun, PublishMl, Call
<1>2. /\ q \in Seq(Commands) /\ t \in Commands /\ q' \in Seq(Commands)
      /\ Len(q) \in Nat /\ Len(q) >= 1 /\ Len(q') = Len(q) - 1
      /\ t = q[1] /\ \A i \in 1 .. Len(q') : q'[i] = q[i + 1]
  BY <1>1, CommandsCounted, HeadTailProperties, EmptySeq, LenProperties
<1>3. /\ rx \in Seq(Received) /\ loop \in Seq(Calls)
      /\ Sent \in Nat /\ Looped \in Nat /\ Logged \in Nat /\ Taken \in Nat
      /\ InFlight \in Nat /\ l \in Nat
      /\ InFlight = 0 <=> Sent = 0 /\ Looped = 0 /\ Logged = 0 /\ Taken = 0
  BY CommandsCounted
<1>4. Log.at = "online" /\ InFlight = 0
  BY <1>1, <1>3 DEF Paced
<1>5. Log' = Log /\ Logged' = Logged /\ Taken' = Taken /\ Answer' = Answer
  BY <1>1 DEF Log, Logged, Taken, Answer
<1>6. t = Answer
  <2>1. q[1] = Beo4Telegram(ha.asked[l + 0 + 1])
    BY <1>2, <1>4 DEF Ordered
  <2> QED
    BY <1>2, <1>3, <2>1 DEF Answer
<1>7. m \in Received /\ m \in CommandRx /\ e \in Calls /\ e \in CommandCalls
  BY <1>2 DEF Received, FromPi, OwnSends, CommandRx, Calls, CommandCalls
<1>8. /\ Only(rx, CommandRx, m) /\ Only(loop, CommandCalls, e)
      /\ Only(Log'.lines, Answers, Answer') /\ Only(ha'.lines, Answers, Answer')
  BY <1>1, <1>5, <1>6 DEF Paced
<1>9. m = [t |-> Answer', own |-> TRUE] /\ e = Call(Answer', TRUE)
  BY <1>5, <1>6
<1> HIDE DEF t, m, e, l
<1>10. /\ Only(rx', CommandRx, m) /\ Only(loop', CommandCalls, e)
       /\ \/ Sent' = 1 /\ Looped' = 0
          \/ Sent' = 0 /\ Looped' = 1
  <2>1. CASE loop' = Append(loop, e) /\ UNCHANGED rx
    <3>1. Count(loop', CommandCalls) = Count(loop, CommandCalls) + 1
      BY <1>3, <1>7, <2>1, CountAppend
    <3>2. Only(loop', CommandCalls, e)
      BY <1>3, <1>7, <1>8, <2>1, Onlys
    <3> QED
      BY <1>3, <1>4, <1>8, <2>1, <3>1, <3>2 DEF Sent, Looped
  <2>2. CASE rx' = Append(rx, m) /\ UNCHANGED loop
    <3>1. Count(rx', CommandRx) = Count(rx, CommandRx) + 1
      BY <1>3, <1>7, <2>2, CountAppend
    <3>2. Only(rx', CommandRx, m)
      BY <1>3, <1>7, <1>8, <2>2, Onlys
    <3> QED
      BY <1>3, <1>4, <1>8, <2>2, <3>1, <3>2 DEF Sent, Looped
  <2> QED
    BY <1>1, <2>1, <2>2
<1>11. InFlight' = 1
  BY <1>3, <1>4, <1>5, <1>10 DEF InFlight
<1>12. Paced'
  <2>1. /\ Log'.at = "online" /\ InFlight' <= 1
    BY <1>4, <1>5, <1>11
  <2> QED
    BY <1>1, <1>8, <1>9, <1>10, <2>1, Zenon DEF Paced
<1>13. Ordered'
  <2>1. l' = l /\ ha'.asked = ha.asked /\ Log'.at = "online" /\ InOrder'
    BY <1>1, <1>4, <1>5 DEF l, Ordered, InOrder
  <2>2. l + 0 + Len(q) = Len(ha.asked)
    BY <1>4 DEF Ordered, l
  <2>0. l \in Nat
    BY <1>3 DEF l
  <2>3. l + 1 + Len(q') = Len(ha.asked)
    <3>1. \A a, b \in Nat : b >= 1 => a + 1 + (b - 1) = a + 0 + b
      OBVIOUS
    <3> QED
      BY <1>2, <2>2, <2>0, <3>1
  <2>4. ASSUME NEW i \in 1 .. Len(q') PROVE q'[i] = Beo4Telegram(ha.asked[l + 1 + i])
    <3>1. i + 1 \in 1 .. Len(q)
      BY <1>2
    <3>2. q[i + 1] = Beo4Telegram(ha.asked[l + 0 + (i + 1)])
      BY <1>4, <3>1 DEF Ordered, l
    <3>3. l + 0 + (i + 1) = l + 1 + i
      BY <2>0
    <3> QED
      BY <1>2, <3>2, <3>3
  <2>5. Len(ha.asked) \in Nat
    BY CommandsCounted
  <2>6. l' + InFlight' + Len(q') = Len(ha'.asked)
    BY <1>11, <2>1, <2>3
  <2>7. \A i \in 1 .. Len(q') : q'[i] = Beo4Telegram(ha'.asked[l' + InFlight' + i])
    BY <1>11, <2>1, <2>4
  <2>8. l' + InFlight' + Len(q') <= Len(ha'.asked)
    BY <2>1, <2>5, <2>6
  <2> QED
    BY <2>1, <2>6, <2>7, <2>8 DEF Ordered, l
<1> QED
  BY <1>12, <1>13

\* The rest of the gateway: a process that ends takes what is under way with it.
LEMMA OrderedInGateway ==
    ASSUME Types, Types', Paced, Ordered, Boot \/ Subscribe \/ CtlListener, UNCHANGED ha
    PROVE  Paced' /\ Ordered'
<1>1. UNCHANGED ha
  OBVIOUS
<1>2. /\ Sent \in Nat /\ Looped \in Nat /\ Logged \in Nat /\ Taken \in Nat
      /\ loop \in Seq(Calls)
  BY CommandsCounted
<1>3. /\ Only(rx, CommandRx, [t |-> Answer, own |-> TRUE])
      /\ Only(loop, CommandCalls, Call(Answer, TRUE))
      /\ Only(Log.lines, Answers, Answer)
      /\ Only(ha'.lines, Answers, Answer)
  BY <1>1 DEF Paced
<1>4. Taken' = Taken /\ Answer' = Answer
  BY <1>1 DEF Taken, Answer
<1>5. CASE /\ UNCHANGED <<rx, pacer, logs>>
           /\ loop' = Append(loop, [call |-> "reload"]) \/ UNCHANGED loop
  <2> DEFINE e == [call |-> "reload"]
  <2>1. e \in Calls /\ e \notin CommandCalls
    BY DEF Calls, CommandCalls, Call
  <2>2. Log' = Log /\ Sent' = Sent /\ Logged' = Logged
    BY <1>1, <1>5 DEF Log, Sent, Logged
  <2> HIDE DEF e
  <2>3. Looped' = Looped /\ Only(loop', CommandCalls, Call(Answer, TRUE))
    <3>1. CASE UNCHANGED loop
      BY <1>3, <3>1 DEF Looped
    <3>2. CASE loop' = Append(loop, e)
      <4>1. Count(loop', CommandCalls) = Count(loop, CommandCalls) + 0
        BY <1>2, <2>1, <3>2, CountAppend
      <4>2. Only(loop', CommandCalls, Call(Answer, TRUE))
        BY <1>2, <1>3, <2>1, <3>2, Onlys
      <4>3. Looped' = Looped + 0
        BY <4>1 DEF Looped
      <4>4. \A n \in Nat : n + 0 = n
        OBVIOUS
      <4>5. Looped' = Looped
        BY <1>2, <4>3, <4>4
      <4> QED
        BY <4>2, <4>5
    <3> QED
      BY <1>5, <3>1, <3>2 DEF e
  <2>4. InFlight' = InFlight
    BY <1>4, <2>2, <2>3 DEF InFlight
  <2> QED
    BY <1>1, <1>3, <1>5, <2>2, <2>3, <2>4, MovesOn
<1>6. CASE Dies
  <2>1. /\ rx' = <<>> /\ loop' = <<>> /\ Log'.lines = <<>> /\ Log'.at = "out"
        /\ pacer'.queue = <<>>
    BY <1>6 DEF Dies, Log, Off
  <2>2. Sent' = 0 /\ Looped' = 0 /\ Logged' = 0
    BY <2>1, CountEmpty DEF Sent, Looped, Logged
  <2>3. InFlight' <= InFlight /\ InFlight \in Nat /\ InFlight' \in Nat
    <3>1. \A a, b, c, d \in Nat :
              (0 + 0) + (0 + d) <= (a + b) + (c + d) /\ (0 + 0) + (0 + d) \in Nat
      OBVIOUS
    <3>2. InFlight' = (0 + 0) + (0 + Taken)
      BY <1>4, <2>2 DEF InFlight
    <3> QED
      BY <1>2, <3>1, <3>2, CommandsCounted DEF InFlight
  <2>4. Paced'
    <3>1. InFlight' <= 1
      BY <2>3 DEF Paced
    <3>2. /\ Only(rx', CommandRx, [t |-> Answer', own |-> TRUE])
          /\ Only(loop', CommandCalls, Call(Answer', TRUE))
          /\ Only(Log'.lines, Answers, Answer')
          /\ Only(ha'.lines, Answers, Answer')
      BY <1>3, <1>4, <2>1 DEF Only
    <3>3. Log'.at # "online"
      BY <2>1
    <3> QED
      BY <2>1, <2>2, <3>1, <3>2, <3>3, Zenon DEF Paced
  <2>5. Ordered'
    <3>1. Len(ha.learned) + InFlight + Len(pacer.queue) <= Len(ha.asked)
      BY DEF Ordered
    <3>2. Len(pacer'.queue) = 0
      BY <2>1
    <3>3. Len(ha'.learned) + InFlight' + Len(pacer'.queue) <= Len(ha'.asked)
      <4>1. \A a, i, j, q, n \in Nat : j <= i /\ a + i + q <= n => a + j + 0 <= n
        OBVIOUS
      <4> QED
        BY <1>1, <2>3, <3>1, <3>2, <4>1, CommandsCounted
    <3>4. InOrder'
      BY <1>1 DEF Ordered, InOrder
    <3>5. Log'.at # "in" /\ Log'.at # "online"
      BY <2>1
    <3> QED
      BY <3>3, <3>4, <3>5 DEF Ordered
  <2> QED
    BY <2>4, <2>5
<1> QED
  BY <1>5, <1>6 DEF Boot, Subscribe, CtlListener, brokerVars

\* The gap is over, and nothing is left of what was sent.
LEMMA OrderedAfterGap ==
    ASSUME Types, Types', Paced, Ordered, GapEnds
    PROVE  Paced' /\ Ordered'
<1>1. /\ UNCHANGED <<rx, loop, logs, ha>> /\ pacer'.queue = pacer.queue
  BY DEF GapEnds, GapOver, brokerVars, Types, Pacers
<1>2. Log' = Log /\ Answer' = Answer /\ InFlight' = InFlight
  BY <1>1 DEF Log, Answer, InFlight, Sent, Looped, Logged, Taken
<1>3. InFlight = 0 /\ Sent = 0 /\ Looped = 0
  <2>1. /\ rx = <<>> /\ loop = <<>> /\ ha.lines = <<>> /\ Log.lines = <<>>
    BY DEF GapEnds, Quiet, Log, Off
  <2>2. Sent = 0 /\ Looped = 0 /\ Logged = 0 /\ Taken = 0
    BY <2>1, CountEmpty DEF Sent, Looped, Logged, Taken
  <2> QED
    BY <2>2 DEF InFlight
<1>4. Paced'
  <2>1. InFlight' <= 1 /\ InFlight' # 1 /\ Sent' = 0 /\ Looped' = 0
    BY <1>1, <1>2, <1>3 DEF Sent, Looped
  <2> QED
    BY <1>1, <1>2, <2>1, Zenon DEF Paced
<1>5. Ordered'
  BY <1>1, <1>2 DEF Ordered, InOrder
<1> QED
  BY <1>4, <1>5

\* Nobody has been asked yet.
LEMMA OrderedBySetup ==
    ASSUME Types, Types', Current, NEW s \in Sessions,
           \/ SetsUp(s) /\ ~ha'.mixed
           \/ OpensLog(s) /\ Paced /\ Ordered
    PROVE  Paced' /\ Ordered'
<1>1. /\ UNCHANGED <<rx, loop>> /\ pacer' = pacer /\ pacer.queue = <<>>
      /\ ha'.asked = <<>> /\ ha'.learned = <<>> /\ Log'.at \in {"in", "online"}
      /\ Sent = 0 /\ Looped = 0 /\ Log'.lines = <<>> /\ Count(ha'.lines, Answers) = 0
  <2>1. CASE SetsUp(s) /\ ~ha'.mixed
    <3>1. /\ UNCHANGED <<rx, loop>> /\ pacer' = pacer /\ pacer.queue = <<>>
          /\ rx = <<>> /\ loop = <<>>
      BY <2>1 DEF SetsUp, TelnetLogin, brokerVars, Quiet, Fresh
    <3>2. /\ ha'.asked = <<>> /\ ha'.learned = <<>> /\ ha'.lines = <<>> /\ ha'.session = s
      BY <2>1 DEF SetsUp, Fresh
    <3>3. Log'.at = "in" /\ Log'.lines = <<>>
      BY <2>1, <3>2 DEF SetsUp, TelnetLogin, Log, Off
    <3> QED
      BY <3>1, <3>2, <3>3, CountEmpty DEF Sent, Looped
  <2>2. CASE OpensLog(s) /\ Paced /\ Ordered
    <3>1. /\ UNCHANGED <<rx, loop, ha>> /\ pacer' = pacer /\ s = ha.session /\ logs[s].at = "in"
          /\ logs' = [logs EXCEPT ![s].at = "online"]
      BY <2>2 DEF OpensLog, MlLogOnline, brokerVars
    <3>2. Log.at = "in" /\ logs[s].lines = <<>>
      BY <3>1 DEF Log, Current
    <3>3. Log'.at = "online" /\ Log'.lines = <<>>
      BY <3>1, <3>2 DEF Log, Types, LogSessions
    <3>4. ha.asked = <<>> /\ pacer.queue = <<>> /\ Sent = 0 /\ Looped = 0
      BY <2>2, <3>2 DEF Ordered, Paced
    <3>5. InFlight = 0 /\ ha.learned = <<>>
      <4>1. \A a, i \in Nat : a + i + 0 <= 0 => a = 0 /\ i = 0
        OBVIOUS
      <4>2. Len(ha.learned) = 0 /\ InFlight = 0
        <5>1. Len(ha.learned) + InFlight + 0 <= 0
          BY <2>2, <3>4 DEF Ordered
        <5> QED
          BY <4>1, <5>1, CommandsCounted
      <4> QED
        BY <4>2, EmptySeq, CommandsCounted
    <3>6. Taken = 0
      BY <3>5, CommandsCounted
    <3> QED
      BY <3>1, <3>3, <3>4, <3>5, <3>6 DEF Taken
  <2> QED
    BY <2>1, <2>2
<1>2. Sent' = 0 /\ Looped' = 0 /\ Logged' = 0 /\ Taken' = 0 /\ InFlight' = 0
  <2>1. Sent' = 0 /\ Looped' = 0 /\ Logged' = 0 /\ Taken' = 0
    BY <1>1, CountEmpty DEF Sent, Looped, Logged, Taken
  <2> QED
    BY <2>1 DEF InFlight
<1>3. Paced'
  <2>1. \A a : /\ Only(rx', CommandRx, [t |-> a, own |-> TRUE])
               /\ Only(loop', CommandCalls, Call(a, TRUE))
               /\ Only(Log'.lines, Answers, a)
               /\ Only(ha'.lines, Answers, a)
    BY <1>2, NothingLeft
  <2>2. InFlight' <= 1 /\ InFlight' # 1 /\ pacer'.queue = <<>>
    BY <1>1, <1>2
  <2> QED
    BY <1>2, <2>1, <2>2, Zenon DEF Paced
<1>4. Ordered'
  <2>1. InOrder'
    BY <1>1 DEF InOrder, IsPrefix
  <2>2. Len(ha'.learned) = 0 /\ Len(ha'.asked) = 0 /\ Len(pacer'.queue) = 0
    BY <1>1
  <2> QED
    BY <1>1, <1>2, <2>1, <2>2 DEF Ordered
<1> QED
  BY <1>3, <1>4

\* Another device is asked, after the others.
LEMMA OrderedWhenAsked ==
    ASSUME Types, Types', Paced, Ordered, ~ha'.mixed,
           NEW s \in Sessions, NEW device \in DOMAIN proc.devices, AsksDevice(s, device)
    PROVE  Paced' /\ Ordered'
<1> DEFINE a == ha.asked
           q == pacer.queue
           l == Len(ha.learned)
           x == proc.devices[device]
<1>0. /\ UNCHANGED <<rx, loop, logs>>
      /\ ha' = [ha EXCEPT !.asked = Append(@, x), !.mixed = @ \/ x = NoAddress]
      /\ pacer' = IF x = NoAddress THEN pacer
                  ELSE [pacer EXCEPT !.queue = Append(@, Beo4Telegram(x))]
      /\ s = ha.session /\ logs[s].at = "online"
  BY DEF AsksDevice, HandleBeo4, brokerVars
<1>15. x # NoAddress
  BY <1>0, HomeIs
<1>1. /\ UNCHANGED <<rx, loop, logs>>
      /\ ha' = [ha EXCEPT !.asked = Append(@, x), !.mixed = @ \/ x = NoAddress]
      /\ pacer' = [pacer EXCEPT !.queue = Append(@, Beo4Telegram(x))]
      /\ s = ha.session /\ logs[s].at = "online"
  BY <1>0, <1>15
<1>2. /\ a' = Append(a, x) /\ ha'.learned = ha.learned /\ ha'.lines = ha.lines
      /\ ha'.session = ha.session
      /\ q' = Append(q, Beo4Telegram(x)) /\ pacer'.gap = pacer.gap
  BY <1>1, HomeIs DEF Types, Pacers
<1>3. x \in Addresses
  <2> DEFINE f == proc.devices
  <2>1. f \in Files
    BY DEF Types, Processes
  <2> HIDE DEF f
  <2>2. f[device] \in Addresses
    BY <2>1 DEF Addresses, f
  <2> QED
    BY <2>2 DEF f
<1>4. /\ a \in Seq(Addresses) /\ Len(a) \in Nat /\ q \in Seq(Commands) /\ Len(q) \in Nat
      /\ l \in Nat /\ InFlight \in Nat
  BY CommandsCounted
<1>5. Log' = Log /\ Log.at = "online"
  BY <1>1, <1>2 DEF Log
<1>6. InFlight' = InFlight
  BY <1>1, <1>2, <1>5 DEF InFlight, Sent, Looped, Logged, Taken
<1>7. /\ Len(a') = Len(a) + 1 /\ a'[Len(a) + 1] = x
      /\ \A i \in 1 .. Len(a) : a'[i] = a[i]
  BY <1>2, <1>3, <1>4, AppendProperties
<1>8. /\ Len(q') = Len(q) + 1 /\ q'[Len(q) + 1] = Beo4Telegram(x)
      /\ \A i \in 1 .. Len(q) : q'[i] = q[i]
  <2>1. Beo4Telegram(x) \in Commands
    BY <1>3 DEF Commands
  <2> QED
    BY <1>2, <1>4, <2>1, AppendProperties
<1>9. l + InFlight + Len(q) = Len(a)
  BY <1>5 DEF Ordered
<1>10. InFlight <= 1 /\ (InFlight = 1 => pacer.gap)
  BY <1>5 DEF Paced
<1>11. ASSUME InFlight # 0 PROVE Answer' = Answer
  <2>1. \A i, k, n \in Nat : i <= 1 /\ i # 0 /\ l + i + k = n => l + 1 \in 1 .. n
    BY <1>4
  <2>2. l + 1 \in 1 .. Len(a)
    BY <1>4, <1>9, <1>10, <1>11, <2>1
  <2> QED
    BY <1>2, <1>7, <2>2 DEF Answer
<1>12. /\ Only(rx, CommandRx, [t |-> Answer', own |-> TRUE])
       /\ Only(loop, CommandCalls, Call(Answer', TRUE))
       /\ Only(Log.lines, Answers, Answer')
       /\ Only(ha.lines, Answers, Answer')
  <2>1. CASE InFlight = 0
    BY <2>1, NothingOnItsWay
  <2>2. CASE InFlight # 0
    BY <1>11, <2>2 DEF Paced
  <2> QED
    BY <2>1, <2>2
<1>13. Paced'
  <2>1. /\ InFlight' <= 1 /\ (InFlight' = 1 => pacer'.gap) /\ Log'.at = "online"
    BY <1>2, <1>5, <1>6, <1>10
  <2> QED
    BY <1>1, <1>2, <1>5, <1>12, <2>1, Zenon DEF Paced
<1>14. Ordered'
  <2> HIDE DEF l
  <2>1. l' = l
    BY <1>2 DEF l
  <2>2. l + InFlight + Len(q') = Len(a')
    <3>1. \A i, m, n \in Nat : i + m + (n + 1) = (i + m + n) + 1
      OBVIOUS
    <3>2. l \in Nat
      BY <1>4 DEF l
    <3>3. l + InFlight + (Len(q) + 1) = (l + InFlight + Len(q)) + 1
      BY <1>4, <3>1, <3>2
    <3> QED
      BY <1>7, <1>8, <1>9, <3>3 DEF l
  <2>3. ASSUME NEW i \in 1 .. Len(q') PROVE q'[i] = Beo4Telegram(a'[l + InFlight + i])
    <3>1. CASE i \in 1 .. Len(q)
      <4>1. \A j, m, n, k \in Nat : j + m + n = k => \A h \in 1 .. n : j + m + h \in 1 .. k
        OBVIOUS
      <4>2. l + InFlight + i \in 1 .. Len(a)
        BY <1>4, <1>9, <3>1, <4>1
      <4>3. q[i] = Beo4Telegram(a[l + InFlight + i])
        BY <1>5, <3>1 DEF Ordered, l
      <4> QED
        BY <1>7, <1>8, <3>1, <4>2, <4>3
    <3>2. CASE i = Len(q) + 1
      <4>1. l + InFlight + i = Len(a) + 1
        BY <1>7, <1>8, <2>2, <3>2
      <4> QED
        BY <1>7, <1>8, <3>2, <4>1
    <3>3. i \in 1 .. Len(q) + 1
      BY <1>8
    <3>4. i \in 1 .. Len(q) \/ i = Len(q) + 1
      BY <1>4, <3>3
    <3> QED
      BY <3>1, <3>2, <3>4
  <2>4. InOrder'
    <3>1. /\ ha.learned \in Seq(Nat) /\ a \in Seq(Nat)
          /\ ha'.learned \in Seq(Nat) /\ a' \in Seq(Nat)
      <4>1. (Types => ha.asked \in Seq(Nat) /\ ha.learned \in Seq(Nat))'
        <5>1. Types => ha.asked \in Seq(Nat) /\ ha.learned \in Seq(Nat)
          BY CommandsCounted
        <5> QED
          BY CommandsCounted, PTL
      <4> QED
        BY <4>1, CommandsCounted
    <3>2. Len(ha.learned) <= Len(a) /\ \A i \in 1 .. Len(ha.learned) : ha.learned[i] = a[i]
      BY <3>1, PrefixIs DEF Ordered, InOrder
    <3>3. /\ Len(ha.learned) <= Len(a')
          /\ \A i \in 1 .. Len(ha.learned) : ha.learned[i] = a'[i]
      BY <1>4, <1>7, <3>2 DEF l
    <3>4. IsPrefix(ha.learned, a')
      BY <1>2, <3>1, <3>3, PrefixIs
    <3> QED
      BY <1>2, <3>4 DEF InOrder
  <2>5. l' + InFlight' + Len(q') = Len(a')
    BY <1>6, <2>1, <2>2
  <2>6. \A i \in 1 .. Len(q') : q'[i] = Beo4Telegram(a'[l' + InFlight' + i])
    BY <1>6, <2>1, <2>3
  <2>7. Len(a') \in Nat
    BY <1>4, <1>7
  <2>8. l' + InFlight' + Len(q') <= Len(a')
    BY <2>5, <2>7
  <2>9. Log'.at = "online"
    BY <1>5
  <2> QED
    BY <2>4, <2>5, <2>6, <2>8, <2>9 DEF Ordered, l
<1> QED
  BY <1>13, <1>14

LEMMA OrderedWhenSeen ==
    ASSUME Types, Types', Current, Paced, Ordered, NEW s \in Sessions, GetsLine(s)
    PROVE  Paced' /\ Ordered'
<1> DEFINE t == Head(Log.lines)
<1>1. /\ UNCHANGED <<rx, loop, pacer>> /\ logs[s].lines # <<>>
      /\ logs' = [logs EXCEPT ![s].lines = Tail(@)]
      /\ ha' = [ha EXCEPT !.lines = Append(@, Head(logs[s].lines))]
  BY DEF GetsLine, brokerVars
<1>2. s = ha.session
  BY <1>1 DEF Current, Off
<1>3. /\ Log.lines = logs[s].lines /\ Log.lines # <<>>
      /\ ha'.asked = ha.asked /\ ha'.learned = ha.learned /\ ha'.session = s
      /\ ha'.lines = Append(ha.lines, t)
  BY <1>1, <1>2, HomeIs DEF Log
<1>4. Log'.at = Log.at /\ Log'.lines = Tail(Log.lines)
  BY <1>1, <1>2, <1>3 DEF Log, Types, LogSessions
<1>5. Log.lines \in Seq(Lines) /\ t \in Lines /\ ha.lines \in Seq(Lines)
  BY <1>3, CommandsCounted, HeadTailProperties
<1> HIDE DEF t
<1>6. Logged = Logged' + IF t \in Answers THEN 1 ELSE 0
  BY <1>3, <1>4, <1>5, CountTail DEF Logged, t
<1>7. Taken' = Taken + IF t \in Answers THEN 1 ELSE 0
  BY <1>3, <1>5, CountAppend DEF Taken
<1>8. Sent' = Sent /\ Looped' = Looped
  BY <1>1 DEF Sent, Looped
<1>9. InFlight' = InFlight
  <2>1. PICK n \in {0, 1} : Logged = Logged' + n /\ Taken' = Taken + n
    BY <1>6, <1>7
  <2>2. Logged' \in Nat /\ Sent \in Nat /\ Looped \in Nat /\ Taken \in Nat
    BY <1>3, <1>4, <1>5, HeadTailProperties, CountType, CommandsCounted DEF Logged
  <2>3. InFlight = (Sent + Looped) + ((Logged' + n) + Taken)
    BY <2>1 DEF InFlight
  <2>4. InFlight' = (Sent + Looped) + (Logged' + (Taken + n))
    BY <1>8, <2>1 DEF InFlight
  <2> QED
    BY <2>2, <2>3, <2>4, CommandMoves
<1>10. Only(Log'.lines, Answers, Answer) /\ (t \in Answers => t = Answer)
  <2>1. Only(Log.lines, Answers, Answer)
    BY DEF Paced
  <2> QED
    BY <1>3, <1>4, <1>5, <2>1, Onlys DEF t
<1>11. Only(ha'.lines, Answers, Answer)
  <2>1. Only(ha.lines, Answers, Answer)
    BY DEF Paced
  <2> QED
    BY <1>3, <1>5, <1>10, <2>1, Onlys
<1>12. /\ Only(rx', CommandRx, [t |-> Answer, own |-> TRUE])
       /\ Only(loop', CommandCalls, Call(Answer, TRUE))
  BY <1>1 DEF Paced
<1> QED
  BY <1>1, <1>3, <1>4, <1>8, <1>9, <1>10, <1>11, <1>12, MovesOn

\* A thread handles its line: only one of them has an answer to learn from.
LEMMA OrderedWhenLearned ==
    ASSUME Types, Types', Paced, Ordered, HandlesLine
    PROVE  Paced' /\ Ordered'
<1> PICK k \in DOMAIN ha.lines :
       LET t == ha.lines[k]
           rest == [ha EXCEPT !.lines = RemoveAt(@, k)]
       IN  ha' = IF IsAnswer(t)
                 THEN [rest EXCEPT !.learned = Append(@, t[1])] ELSE rest
  BY DEF HandlesLine
<1> DEFINE t == ha.lines[k]
           l == ha.learned
           x == ha.asked
           r == RemoveAt(ha.lines, k)
<1>1. UNCHANGED <<rx, loop, pacer, logs>>
  BY DEF HandlesLine, brokerVars, gatewayVars
<1>2. /\ ha.lines \in Seq(Lines) /\ l \in Seq(Nat) /\ x \in Seq(Nat) /\ x \in Seq(Addresses)
      /\ Len(l) \in Nat /\ Len(x) \in Nat /\ Len(pacer.queue) \in Nat /\ InFlight \in Nat
      /\ Sent \in Nat /\ Looped \in Nat /\ Logged \in Nat /\ Taken \in Nat
  BY CommandsCounted
<1>3. t \in Lines
  BY <1>2, ElementOfSeq, LenProperties
<1>4. t \in Answers <=> IsAnswer(t)
  BY <1>3 DEF Answers
<1>5. /\ ha'.lines = r /\ ha'.asked = x /\ ha'.session = ha.session
      /\ ha'.learned = IF t \in Answers THEN Append(l, t[1]) ELSE l
  BY <1>4, HomeIs
<1>6. Log' = Log /\ Sent' = Sent /\ Looped' = Looped /\ Logged' = Logged
  BY <1>1, <1>5 DEF Log, Sent, Looped, Logged
<1>7. /\ r \in Seq(Lines)
      /\ Taken = Count(r, Answers) + IF t \in Answers THEN 1 ELSE 0
  BY <1>2, CountRemoved DEF Taken
<1>8. Taken' = Count(r, Answers)
  BY <1>5 DEF Taken
<1>9. Taken' \in Nat
  BY <1>7, <1>8, CountType
<1>10. Only(ha.lines, Answers, Answer) /\ Only(r, Answers, Answer)
  <2>1. Only(ha.lines, Answers, Answer)
    BY DEF Paced
  <2> QED
    BY <1>2, <2>1, Onlys
<1> HIDE DEF r
<1>11. CASE t \notin Answers
  <2>1. Taken' = Taken /\ ha'.learned = ha.learned
    <3>1. Taken = Taken' + 0
      BY <1>7, <1>8, <1>11
    <3> QED
      BY <1>5, <1>9, <1>11, <3>1
  <2>2. InFlight' = InFlight
    BY <1>6, <2>1 DEF InFlight
  <2>3. /\ Only(rx', CommandRx, [t |-> Answer, own |-> TRUE])
        /\ Only(loop', CommandCalls, Call(Answer, TRUE))
        /\ Only(Log'.lines, Answers, Answer)
    BY <1>1, <1>6 DEF Paced
  <2> QED
    BY <1>1, <1>5, <1>6, <1>10, <2>1, <2>2, <2>3, MovesOn
<1>12. CASE t \in Answers
  <2>1. Taken = Taken' + 1
    BY <1>7, <1>8, <1>12
  <2>2. InFlight = 1 /\ Sent = 0 /\ Looped = 0 /\ Logged = 0 /\ Taken' = 0
    <3>1. \A b, c, d, e \in Nat :
             (b + c) + (d + (e + 1)) <= 1 => b = 0 /\ c = 0 /\ d = 0 /\ e = 0
      OBVIOUS
    <3>2. (Sent + Looped) + (Logged + (Taken' + 1)) <= 1
      BY <2>1 DEF InFlight, Paced
    <3>3. Sent = 0 /\ Looped = 0 /\ Logged = 0 /\ Taken' = 0
      BY <1>2, <1>9, <3>1, <3>2
    <3> QED
      BY <2>1, <3>3 DEF InFlight
  <2>3. InFlight' = 0
    BY <1>6, <2>2 DEF InFlight
  <2>4. t = Answer
    BY <1>10, <1>12 DEF Only
  <2>5. /\ t[1] = x[Len(l) + 1] /\ t[1] \in Nat
    <3>1. t[1] \in Nat
      BY <1>3, Constants
    <3> QED
      BY <2>4, <3>1 DEF Answer, Beo4Telegram
  <2>6. /\ ha'.learned \in Seq(Nat) /\ Len(ha'.learned) = Len(l) + 1
        /\ \A i \in 1 .. Len(l) : ha'.learned[i] = l[i]
        /\ ha'.learned[Len(l) + 1] = x[Len(l) + 1]
    BY <1>2, <1>5, <1>12, <2>5, AppendProperties
  <2>7. Len(l) + 1 + Len(pacer.queue) <= Len(x)
    BY <2>2 DEF Ordered
  <2>8. InOrder'
    <3>1. Len(l) <= Len(x) /\ \A i \in 1 .. Len(l) : l[i] = x[i]
      <4>1. IsPrefix(l, x)
        BY DEF Ordered, InOrder
      <4>2. l \in Seq(Nat) /\ x \in Seq(Nat)
        BY <1>2
      <4> HIDE DEF l, x
      <4> QED
        BY <4>1, <4>2, PrefixIs
    <3>2. Len(ha'.learned) <= Len(x)
      <4>1. \A i, q, n \in Nat : i + 1 + q <= n => i + 1 <= n
        OBVIOUS
      <4> QED
        BY <1>2, <2>6, <2>7, <4>1
    <3>3. ASSUME NEW i \in 1 .. Len(ha'.learned) PROVE ha'.learned[i] = x[i]
      <4>1. i \in 1 .. Len(l) + 1
        BY <2>6
      <4>2. i \in 1 .. Len(l) \/ i = Len(l) + 1
        BY <1>2, <4>1
      <4> QED
        BY <2>6, <3>1, <4>2
    <3>4. IsPrefix(ha'.learned, x)
      BY <1>2, <2>6, <3>2, <3>3, PrefixIs
    <3> QED
      BY <1>5, <3>4 DEF InOrder
  <2>9. Paced'
    <3>1. \A a : /\ Only(rx', CommandRx, [t |-> a, own |-> TRUE])
                 /\ Only(loop', CommandCalls, Call(a, TRUE))
                 /\ Only(Log'.lines, Answers, a)
                 /\ Only(ha'.lines, Answers, a)
      BY <2>3, NothingLeft
    <3>2. /\ InFlight' <= 1 /\ InFlight' # 1 /\ Sent' = 0 /\ Looped' = 0
          /\ (Log'.at # "online" => pacer'.queue = <<>>)
      BY <1>1, <1>6, <2>2, <2>3 DEF Paced
    <3> QED
      BY <2>3, <3>1, <3>2, Zenon DEF Paced
  <2>10. Ordered'
    <3>1. Len(ha'.learned) + InFlight' + Len(pacer'.queue) = Len(l) + InFlight + Len(pacer.queue)
      <4>1. (Len(l) + 1) + 0 + Len(pacer.queue) = Len(l) + 1 + Len(pacer.queue)
        BY <1>2
      <4> QED
        BY <1>1, <2>2, <2>3, <2>6, <4>1
    <3>2. ASSUME NEW i \in 1 .. Len(pacer.queue)
          PROVE  Len(ha'.learned) + InFlight' + i = Len(l) + InFlight + i
      <4>1. \A j \in Nat : (j + 1) + 0 + i = j + 1 + i
        BY <1>2
      <4> QED
        BY <1>2, <2>2, <2>3, <2>6, <4>1
    <3>3. UNCHANGED <<pacer, ha.asked>> /\ Log' = Log
      BY <1>1, <1>5, <1>6
    <3> QED
      BY <2>8, <3>1, <3>2, <3>3 DEF Ordered
  <2> QED
    BY <2>9, <2>10
<1> QED
  BY <1>11, <1>12

\* But for a set-up, what is mixed up remains so.
LEMMA OrderedKept ==
    ASSUME Types, Types', Current, Paced, Ordered, [Next]_vars, ~ha'.mixed
    PROVE  Paced' /\ Ordered'
<1>1. ASSUME UNCHANGED <<rx, loop, logs, pacer, ha.session, ha.lines, ha.asked, ha.learned>>
      PROVE  Paced' /\ Ordered'
  <2>1. Log' = Log /\ Answer' = Answer /\ InFlight' = InFlight /\ Sent' = Sent /\ Looped' = Looped
    BY <1>1 DEF Log, Answer, InFlight, Sent, Looped, Logged, Taken
  <2>2. /\ Only(rx', CommandRx, [t |-> Answer, own |-> TRUE])
        /\ Only(loop', CommandCalls, Call(Answer, TRUE))
        /\ Only(Log'.lines, Answers, Answer)
        /\ Only(ha'.lines, Answers, Answer)
    BY <1>1, <2>1 DEF Paced
  <2> QED
    BY <1>1, <2>1, <2>2, MovesOn
<1>2. CASE Device \/ Bridge \/ Line \/ BrokerRuns
  BY <1>2, OrderedOnBus
<1>3. CASE GatewayRuns
  BY <1>3, HomeNotes, OrderedWhenRead, OrderedOnLoop, OrderedByPacer, OrderedInGateway
<1>4. CASE GapEnds
  BY <1>4, OrderedAfterGap
<1>5. ASSUME NEW s \in Sessions, SetsUp(s) \/ OpensLog(s) PROVE Paced' /\ Ordered'
  BY <1>5, OrderedBySetup
<1>6. ASSUME NEW s \in Sessions, Pings(s) \/ LogsIn(s) \/ GetsEvent(s) PROVE Paced' /\ Ordered'
  <2>1. UNCHANGED <<rx, loop, logs, pacer>>
    BY <1>6 DEF Pings, HandlePing, LogsIn, HandleLogin, GetsEvent, brokerVars
  <2>2. UNCHANGED <<ha.session, ha.lines, ha.asked, ha.learned>>
    BY <1>6, HomeIs DEF Pings, LogsIn, GetsEvent
  <2> QED
    BY <1>1, <2>1, <2>2
<1>7. ASSUME NEW s \in Sessions, GetsLine(s) PROVE Paced' /\ Ordered'
  BY <1>7, OrderedWhenSeen
<1>8. ASSUME NEW s \in Sessions, NEW d \in DOMAIN proc.devices, AsksDevice(s, d)
      PROVE  Paced' /\ Ordered'
  BY <1>8, OrderedWhenAsked
<1>9. CASE HandlesLine
  BY <1>9, OrderedWhenLearned
<1>10. CASE Web \/ CtlBreaks \/ UNCHANGED vars
  <2>1. UNCHANGED <<rx, loop, logs, pacer, ha>>
    BY <1>10 DEF Web, Begins, Writes, Requests, CtlBreaks, vars, brokerVars, gatewayVars
  <2> QED
    BY <1>1, <2>1
<1> QED
  BY <1>2, <1>3, <1>4, <1>5, <1>6, <1>7, <1>8, <1>9, <1>10 DEF Next, HomeAssistant

\* Home Assistant's answers are mixed up, or they are in order.
Answered == ha.mixed \/ (Paced /\ Ordered)

LEMMA MixedStays ==
    ASSUME Types, [Next]_vars, ha.mixed, ~ha'.mixed
    PROVE  \E s \in Sessions : SetsUp(s)
<1>1. ha' # ha
  OBVIOUS
<1>2. ~(Device \/ Bridge \/ Line \/ BrokerRuns \/ GapEnds \/ Web \/ CtlBreaks \/ UNCHANGED vars)
  BY <1>1 DEF Device, Bridge, Line, BrokerRuns, GapEnds, Web, Begins, Writes, Requests, CtlBreaks,
              vars
<1>3. ~GatewayRuns
  BY <1>1, HomeNotes
<1>4. ~HandlesLine
  BY HomeIs DEF HandlesLine
<1>5. ASSUME NEW s \in Sessions
      PROVE  ~(OpensLog(s) \/ Pings(s) \/ LogsIn(s) \/ GetsEvent(s) \/ GetsLine(s))
  BY HomeIs DEF OpensLog, Pings, LogsIn, GetsEvent, GetsLine
<1>6. ASSUME NEW s \in Sessions, NEW d \in DOMAIN proc.devices PROVE ~AsksDevice(s, d)
  BY HomeIs DEF AsksDevice
<1> QED
  BY <1>2, <1>3, <1>4, <1>5, <1>6 DEF Next, HomeAssistant

LEMMA AnsweredKept ==
    ASSUME Types, Types', Current, Answered, [Next]_vars
    PROVE  Answered'
<1> SUFFICES ASSUME ~ha'.mixed PROVE Paced' /\ Ordered'
  BY DEF Answered
<1>1. CASE ha.mixed
  BY <1>1, MixedStays, OrderedBySetup
<1>2. CASE ~ha.mixed
  BY <1>2, OrderedKept DEF Answered
<1> QED
  BY <1>1, <1>2

(* What Home Assistant learns from the ML log are the answers to its commands, in the order  *)
(* of its commands, on however many threads it handles the lines (mlgw_emu.py:211), and also *)
(* when it is set up again (mlgw_emu.py:410): the pacer leaves one command at a time on its  *)
(* way, and a login closes the older sessions.  Until the next set-up this ends with a       *)
(* command to a device without an address, and with a key a real MLGW sends; and it does not *)
(* hold of a set-up that finds commands in the pacer.                                        *)
THEOREM LearnsInOrder == Spec => []LearnsRight
<1>1. Init => Types /\ Current /\ Answered
  BY InitTypes, SessionsInit, OrderedInit DEF Answered
<1>2. Types /\ Current /\ Answered /\ [Next]_vars => (Types /\ Current /\ Answered)'
  BY NextTypes, SessionsKept, AnsweredKept
<1>3. Answered => LearnsRight
  BY DEF Answered, Ordered, InOrder, LearnsRight
<1> QED
  BY <1>1, <1>2, <1>3, PTL DEF Spec

=============================================================================
