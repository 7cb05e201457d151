---------------------------- MODULE MultiSource ----------------------------
(***************************************************************************)
(* Several providers behind one source byte (providers/multi.py).          *)
(* is_playing asks them one after the other, takes the one that was not    *)
(* active for the new one and pauses the others.  Its own thread calls it  *)
(* once a second, the stream watcher of the bridge does the same, and so   *)
(* does a skip that finds nothing active: there is no lock, so a sweep     *)
(* works on answers, and on an active sub, that another one has changed.   *)
(***************************************************************************)
EXTENDS Players, Sequences

CONSTANTS
    Order,      \* the subs, as configured
    Default,    \* the sub that gets a play while nothing is active
    NoSub,
    Sweepers,   \* the threads that call is_playing by themselves
    Bus         \* the thread that brings the commands of the bus

ASSUME OrderAssumption ==
    /\ Order \in Seq(Subs)
    /\ \A p \in Subs : \E i \in DOMAIN Order : Order[i] = p
    /\ \A i, j \in DOMAIN Order : i # j => Order[i] # Order[j]
    /\ Default \in Subs
    /\ NoSub \notin Subs
    /\ Bus \notin Sweepers

VARIABLES
    active,     \* _active_idx
    last,       \* _last_idx
    sweep,      \* what each thread does: step, answers, what is still to do
    newest,     \* the last start, if it was that of a new sub while another was active
    people,     \* bound: actions of people left
    losses      \* bound: calls left that may fail

multiVars == <<playerVars, active, last, sweep, newest, people, losses>>

Callers == Sweepers \union {Bus}
Idle == [step |-> "idle", seen |-> {}, next |-> 1, rest |-> <<>>, then |-> "none"]
Steps == {"idle", "reading", "decide", "pausing", "skip", "fanout"}

MultiTypeOK ==
    /\ PlayersTypeOK
    /\ active \in Subs \union {NoSub}
    /\ last \in Subs \union {NoSub}
    /\ \A c \in Callers : /\ sweep[c].step \in Steps
                          /\ sweep[c].seen \subseteq Subs
                          /\ sweep[c].next \in 1..(Len(Order) + 1)
                          /\ sweep[c].then \in {"none", "skip"}
    /\ newest \in Subs \union {NoSub}

MultiInit ==
    /\ PlayersInit
    /\ active = NoSub
    /\ last = NoSub
    /\ sweep = [c \in Callers |-> Idle]
    /\ newest = NoSub

\* A call that fails counts against the bound.
MayLose(lost) == losses' = IF lost THEN losses - 1 ELSE losses
Losing == IF losses > 0 THEN BOOLEAN ELSE {FALSE}

\* current_sub: the one that plays, else the one that did.
CurrentSub == IF active # NoSub THEN active ELSE last

-----------------------------------------------------------------------------
(* is_playing *)

\* The poll loop, or the stream watcher, begins a sweep.
Begin(c) ==
    /\ c \in Sweepers
    /\ sweep[c].step = "idle"
    /\ sweep' = [sweep EXCEPT ![c] = [Idle EXCEPT !.step = "reading"]]
    /\ UNCHANGED <<playerVars, active, last, newest, people, losses>>

\* The next sub answers.
Read(c) ==
    /\ sweep[c].step = "reading"
    /\ \E lost \in Losing :
          LET p == Order[sweep[c].next] IN
          /\ MayLose(lost)
          /\ sweep' = [sweep EXCEPT
                ![c].seen = IF Playing(p, lost) THEN @ \union {p} ELSE @,
                ![c].next = @ + 1,
                ![c].step = IF sweep[c].next = Len(Order) THEN "decide" ELSE "reading"]
          /\ dest' = IF lost THEN dest ELSE Latched(p)
    /\ UNCHANGED <<session, cooling, name, active, last, newest, people>>

\* The sweep is over; a skip that asked for it goes on.
Done(c) == sweep' = [sweep EXCEPT ![c] = IF @.then = "skip" THEN [Idle EXCEPT !.step = "skip"] ELSE Idle]

New(c, p) == p \in sweep[c].seen /\ p # active

\* Those of them among the first n subs, as configured.
Newcomers(c) ==
    LET among[n \in 0 .. Len(Order)] ==
            IF n = 0 THEN <<>>
            ELSE IF New(c, Order[n]) THEN Append(among[n - 1], Order[n]) ELSE among[n - 1]
    IN  among[Len(Order)]

\* Nothing plays, or nobody new does, or a newcomer takes over: the active sub and the other
\* newcomers are to be paused, in this order.
Decide(c) ==
    /\ sweep[c].step = "decide"
    /\ active' = IF sweep[c].seen = {} THEN NoSub ELSE active
    /\ IF Newcomers(c) = <<>>
       THEN Done(c)
       ELSE sweep' = [sweep EXCEPT ![c] =
                [Idle EXCEPT !.step = "pausing",
                             !.then = sweep[c].then,
                             !.rest = <<Head(Newcomers(c))>>
                                      \o (IF active = NoSub THEN <<>> ELSE <<active>>)
                                      \o Tail(Newcomers(c))]]
    /\ UNCHANGED <<playerVars, last, newest, people, losses>>

\* One of them is paused; after the last one the newcomer is the active sub.
PauseOne(c) ==
    /\ sweep[c].step = "pausing"
    /\ Len(sweep[c].rest) > 1
    /\ \E lost \in Losing : /\ MayLose(lost)
                            /\ Call(sweep[c].rest[2], "pause", lost)
    /\ sweep' = [sweep EXCEPT ![c].rest = <<Head(@)>> \o Tail(Tail(@))]
    /\ UNCHANGED <<active, last, newest, people>>

\* Mutant: the newcomer is remembered, but does not become the active sub.
TakeLastOnly(c) ==
    /\ sweep[c].step = "pausing"
    /\ Len(sweep[c].rest) = 1
    /\ last' = Head(sweep[c].rest)
    /\ Done(c)
    /\ UNCHANGED <<playerVars, active, newest, people, losses>>

TakeOver(c) ==
    /\ sweep[c].step = "pausing"
    /\ Len(sweep[c].rest) = 1
    /\ active' = Head(sweep[c].rest)
    /\ last' = Head(sweep[c].rest)
    /\ Done(c)
    /\ UNCHANGED <<playerVars, newest, people, losses>>

Sweeping(c) == Begin(c) \/ Read(c) \/ Decide(c) \/ PauseOne(c) \/ TakeOver(c)

-----------------------------------------------------------------------------
(* The commands of the bus *)

BusCommand == people > 0 /\ people' = people - 1 /\ sweep[Bus].step = "idle"

\* play: the active sub, or the default one.
Play ==
    /\ BusCommand
    /\ \E lost \in Losing : /\ MayLose(lost)
                            /\ Call(IF active = NoSub THEN Default ELSE active, "play", lost)
    /\ UNCHANGED <<active, last, sweep, newest>>

\* pause: every sub, one after the other.
Pause ==
    /\ BusCommand
    /\ sweep' = [sweep EXCEPT ![Bus] = [Idle EXCEPT !.step = "fanout", !.rest = Order]]
    /\ UNCHANGED <<playerVars, active, last, newest, losses>>

FanOut ==
    /\ sweep[Bus].step = "fanout"
    /\ \E lost \in Losing : MayLose(lost) /\ Call(Head(sweep[Bus].rest), "pause", lost)
    /\ sweep' = [sweep EXCEPT ![Bus].rest = Tail(@),
                              ![Bus].step = IF Len(sweep[Bus].rest) = 1 THEN "idle" ELSE "fanout"]
    /\ UNCHANGED <<active, last, newest, people>>

\* next, prev: a sweep first if nothing is active.
SkipBegins ==
    /\ BusCommand
    /\ sweep' = [sweep EXCEPT ![Bus] = IF active # NoSub
                                       THEN [Idle EXCEPT !.step = "skip"]
                                       ELSE [Idle EXCEPT !.step = "reading", !.then = "skip"]]
    /\ UNCHANGED <<playerVars, active, last, newest, losses>>

Skip ==
    /\ sweep[Bus].step = "skip"
    /\ \/ active = NoSub /\ UNCHANGED <<playerVars, losses>>
       \/ /\ active # NoSub
          /\ \E lost \in Losing : MayLose(lost) /\ Call(active, "skip", lost)
    /\ sweep' = [sweep EXCEPT ![Bus] = Idle]
    /\ UNCHANGED <<active, last, newest, people>>

BusCalls == Play \/ Pause \/ FanOut \/ SkipBegins \/ Skip

-----------------------------------------------------------------------------
(* The people at the players *)

Person ==
    /\ people > 0
    /\ people' = people - 1
    /\ \E p \in Subs : \/ Starts(p) /\ newest' = IF active \in {NoSub, p} THEN NoSub ELSE p
                       \/ (Holds(p) \/ Ends(p)) /\ UNCHANGED newest
    /\ UNCHANGED <<active, last, sweep, losses>>

Background == Cools /\ UNCHANGED <<active, last, sweep, newest, people, losses>>

MultiNext == (\E c \in Callers : Sweeping(c)) \/ BusCalls \/ Person \/ Background

MultiFairness ==
    /\ \A c \in Callers : WF_multiVars(Sweeping(c))
    /\ WF_multiVars(FanOut \/ Skip)
    /\ WF_multiVars(Background)

-----------------------------------------------------------------------------
(* The only-one-path rule survives everything: in the end at most one sub  *)
(* plays and it is the active one, so the display, the now-playing state   *)
(* and the keys follow the one that is heard.                              *)
SettlesOnOne ==
    <>[](\A p \in Subs : session[p] = "playing" => active = p /\ CurrentSub = p)

(* multi.py:186, "If a NEW sub is playing while another was already        *)
(* active, the new one becomes active and the old one is paused": when the *)
(* old one is paused, no sweep pauses the new one as well.                 *)
KeepsTheNewOne ==
    [][\A c \in Callers :
          PauseOne(c) /\ newest # NoSub /\ session'[newest] # session[newest] =>
              \E p \in Subs : session'[p] = "playing"]_multiVars

================================================================================
