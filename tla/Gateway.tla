------------------------------ MODULE Gateway ------------------------------
(***************************************************************************)
(* The MLGW emulation (mlgw-emu/): one event loop, and threads that follow *)
(* redis and put callbacks on it.  Every telegram of the bus, the Pi's own *)
(* ones included, goes into the ML log of the telnet sessions and to the   *)
(* synthesizer of the events Home Assistant gets (events.py).  Commands go *)
(* through the pacer.  The devices come from a file (store.py) that the    *)
(* web interface writes; it asks for a reload or a restart on redis.       *)
(***************************************************************************)
EXTENDS Broker

CONSTANTS
    Sessions,   \* Home Assistant's connections: a telnet and a protocol session each
    Extended    \* [mlgw] extended_status

VARIABLES
    proc,       \* the process: [at, settings, devices] as it loaded them; kept: the devices are
                \* those from before a reload that failed
    loop,       \* callbacks on the event loop: telegrams and reloads
    pacer,      \* the pacer: [queue, gap]
    logs,       \* telnet sessions: [at, lines]
    api,        \* protocol sessions: [open, authed, out]
    onSource,   \* the synthesizer: device -> source it was last seen on
    ctl,        \* requests on their way to the listener of link:ctl:restart
    file,       \* the device file: device -> bus address, or NoAddress
    conf        \* the [mlgw] settings in the config file

gatewayVars == <<proc, loop, pacer, logs, api, onSource, ctl, file, conf>>

NoAddress == 256
AddrAll == 128
AddrMlgw == 240
Masters == {192, 193}
KeyRelease == 17
KeyStandby == 16
GotoSource == 69
SourceStatus == 135
PictSound == 152
VirtualBeo4 == 32

\* A telegram: to, from, payload type and its argument, a source or a key; each a byte.
Beo4Telegram(to) == <<to, AddrMlgw, VirtualBeo4, 88>>

Off == [at |-> "out", lines |-> <<>>]
Unconnected == [open |-> FALSE, authed |-> FALSE, out |-> <<>>]

\* by_address: the device at the address of a telegram, as a set.
ByAddress(addr) == {d \in DOMAIN proc.devices : proc.devices[d] = addr}

-----------------------------------------------------------------------------
(* Events *)

\* broadcast, to every session that has logged in: several messages in their order.
Broadcast(messages) ==
    api' = [s \in Sessions |->
              IF api[s].authed THEN [api[s] EXCEPT !.out = @ \o messages] ELSE api[s]]

Event(type, device, source) == [type |-> type, device |-> device, source |-> source]
StatusOf(device, source) == Event("status", device, source)

Tells(sources, messages) == onSource' = sources /\ Broadcast(messages)

\* Everyone who is on a source, in some order.
OnIt(sources, source) == {d \in DOMAIN sources : sources[d] = source}
StatusOfAll(sources, source) ==
    LET order == SetToSeq(OnIt(sources, source)) IN
    [i \in DOMAIN order |-> StatusOf(order[i], source)]

Without(sources, device) == [d \in DOMAIN sources \ {device} |-> sources[d]]
With(sources, device, source) ==
    [d \in DOMAIN sources \union {device} |-> IF d = device THEN source ELSE sources[d]]

\* _status: a master about its own source; for link rooms only when extended.
Status(to, from, source) ==
    LET devs == ByAddress(from)
        learns == devs # {} /\ (to = AddrMlgw \/ from \in Masters)
        sources == IF learns THEN With(onSource, CHOOSE d \in devs : TRUE, source) ELSE onSource
        own == IF devs # {} /\ to = AddrMlgw
               THEN <<StatusOf(CHOOSE d \in devs : TRUE, source)>> ELSE <<>>
    IN  Tells(sources, own \o IF Extended THEN StatusOfAll(sources, source) ELSE <<>>)

\* EventSynth.feed
Feed(t, own) ==
    LET to == t[1]  from == t[2]  type == t[3]  source == t[4]
        devs == ByAddress(from)
        dev == CHOOSE d \in devs : TRUE
    IN
    CASE type = VirtualBeo4 /\ to = AddrMlgw ->
           Tells(onSource, <<Event("light", 0, source)>>)
      [] type \in {KeyRelease, KeyStandby} /\ to = AddrAll /\ ~own ->
           Tells(<<>>, <<Event("all standby", 0, 0)>>)
      [] type = KeyRelease /\ (to # AddrAll \/ own) /\ Extended /\ devs # {} ->
           IF dev \in DOMAIN onSource
           THEN Tells(Without(onSource, dev), <<StatusOf(dev, 0)>>)
           ELSE UNCHANGED <<onSource, api>>
      [] type = GotoSource /\ Extended /\ devs # {} ->
           Tells(With(onSource, dev, source), <<StatusOf(dev, source)>>)
      [] type = SourceStatus /\ (to = AddrMlgw \/ Extended) -> Status(to, from, source)
      [] type = PictSound /\ (to = AddrMlgw \/ Extended) /\ devs # {} ->
           Tells(onSource, <<Event("picture", dev, source)>>)
      [] OTHER -> UNCHANGED <<onSource, api>>

-----------------------------------------------------------------------------
(* The feed *)

Alive == proc.at = "on"

\* redis_reader: what was received loses its checksum and end marker.
RedisReader ==
    /\ Alive /\ rx # <<>>
    /\ rx' = Tail(rx)
    /\ LET m == Head(rx)
           t == IF m.own \/ Len(m.t) <= 2 THEN m.t ELSE SubSeq(m.t, 1, Len(m.t) - 2)
       IN  loop' = Append(loop, [call |-> "telegram", t |-> t, own |-> m.own])
    /\ UNCHANGED <<uart, framer, lastSent, tx, faults, proc, pacer, logs, api, onSource, ctl,
                   file, conf>>

\* _fan_out; a telegram too short to be one reaches the log only.
FanOut(m) ==
    /\ logs' = [s \in Sessions |->
                  IF logs[s].at = "online" THEN [logs[s] EXCEPT !.lines = Append(@, m.t)]
                  ELSE logs[s]]
    /\ IF Len(m.t) = 4 THEN Feed(m.t, m.own) ELSE UNCHANGED <<onSource, api>>
    /\ UNCHANGED <<proc, faults>>

\* reload: the devices in force, and Home Assistant is told; a file that cannot be read
\* leaves the old ones, and nobody is told.
Reload ==
    /\ \/ /\ proc' = [proc EXCEPT !.devices = file, !.kept = FALSE]
          /\ Broadcast(<<Event("config changed", 0, 0)>>)
          /\ UNCHANGED faults
       \/ /\ faults > 0 /\ faults' = faults - 1
          /\ proc' = [proc EXCEPT !.kept = TRUE]
          /\ UNCHANGED api
    /\ UNCHANGED <<logs, onSource>>

LoopRuns ==
    /\ Alive /\ loop # <<>>
    /\ loop' = Tail(loop)
    /\ IF Head(loop).call = "reload" THEN Reload ELSE FanOut(Head(loop))
    /\ UNCHANGED <<uart, framer, lastSent, tx, rx, pacer, ctl, file, conf>>

-----------------------------------------------------------------------------
(* The pacer *)

\* Mutant: one telegram right after the other.
PacerRunAtOnce ==
    /\ Alive /\ ~pacer.gap /\ pacer.queue # <<>>
    /\ pacer' = [pacer EXCEPT !.queue = Tail(@)]
    /\ IF proc.settings = "listen only"
       THEN /\ loop' = Append(loop, [call |-> "telegram", t |-> Head(pacer.queue), own |-> TRUE])
            /\ UNCHANGED <<tx, rx>>
       ELSE PublishMl(Head(pacer.queue)) /\ UNCHANGED loop
    /\ UNCHANGED <<uart, framer, lastSent, faults, proc, logs, api, onSource, ctl, file, conf>>

\* run: into the log as if sent, or onto the bus; then the gap.
PacerRun ==
    /\ Alive /\ ~pacer.gap /\ pacer.queue # <<>>
    /\ pacer' = [queue |-> Tail(pacer.queue), gap |-> TRUE]
    /\ IF proc.settings = "listen only"
       THEN /\ loop' = Append(loop, [call |-> "telegram", t |-> Head(pacer.queue), own |-> TRUE])
            /\ UNCHANGED <<tx, rx>>
       ELSE PublishMl(Head(pacer.queue)) /\ UNCHANGED loop
    /\ UNCHANGED <<uart, framer, lastSent, faults, proc, logs, api, onSource, ctl, file, conf>>

GapOver ==
    /\ pacer.gap
    /\ pacer' = [pacer EXCEPT !.gap = FALSE]
    /\ UNCHANGED <<brokerVars, proc, loop, logs, api, onSource, ctl, file, conf>>

-----------------------------------------------------------------------------
(* Sessions *)

\* handle: a ping before the login is answered with a refusal, which makes HA log in.
HandlePing(s) ==
    /\ Alive /\ ~api[s].open
    /\ api' = [api EXCEPT ![s] = [open |-> TRUE, authed |-> FALSE,
                                  out |-> <<Event("login fail", 0, 0)>>]]
    /\ UNCHANGED <<brokerVars, proc, loop, pacer, logs, onSource, ctl, file, conf>>

HandleLogin(s) ==
    /\ api' = [api EXCEPT ![s].authed = TRUE, ![s].out = Append(Tail(@), Event("login ok", 0, 0))]
    /\ UNCHANGED <<brokerVars, proc, loop, pacer, logs, onSource, ctl, file, conf>>

\* A Beo4 command to a device: the address is looked up now; without one it is dropped.
HandleBeo4(s, device) ==
    /\ Alive /\ api[s].authed
    /\ device \in DOMAIN proc.devices
    /\ LET addr == proc.devices[device] IN
       pacer' = IF addr = NoAddress THEN pacer
                ELSE [pacer EXCEPT !.queue = Append(@, Beo4Telegram(addr))]
    /\ UNCHANGED <<brokerVars, proc, loop, logs, onSource, ctl, file, conf>>

\* Mutant: older sessions of the same host stay.
TelnetLoginBeside(s) ==
    /\ Alive /\ logs[s].at = "out"
    /\ logs' = [logs EXCEPT ![s].at = "in"]
    /\ UNCHANGED <<brokerVars, proc, loop, pacer, api, onSource, ctl, file, conf>>

\* handle_telnet: a login closes the older sessions of the same host.
TelnetLogin(s) ==
    /\ Alive /\ logs[s].at = "out"
    /\ logs' = [[o \in Sessions |-> Off] EXCEPT ![s].at = "in"]
    /\ UNCHANGED <<brokerVars, proc, loop, pacer, api, onSource, ctl, file, conf>>

MlLogOnline(s) ==
    /\ Alive /\ logs[s].at = "in"
    /\ logs' = [logs EXCEPT ![s].at = "online"]
    /\ UNCHANGED <<brokerVars, proc, loop, pacer, api, onSource, ctl, file, conf>>

-----------------------------------------------------------------------------
(* Configuration *)

\* Main: nothing runs before the settings are read; the requests come in afterwards only.
Boot ==
    /\ proc.at = "down"
    /\ proc' = [at |-> IF conf = "off" THEN "deaf idle" ELSE "deaf", settings |-> conf,
                devices |-> file, kept |-> FALSE]
    /\ UNCHANGED <<brokerVars, loop, pacer, logs, api, onSource, ctl, file, conf>>

\* ctl_listener and wait_for_restart subscribe, also after a lost connection.
Subscribe ==
    /\ proc.at \in {"deaf", "deaf idle"}
    /\ proc' = [proc EXCEPT !.at = IF @ = "deaf" THEN "on" ELSE "idle"]
    /\ UNCHANGED <<brokerVars, loop, pacer, logs, api, onSource, ctl, file, conf>>

\* Exit: systemd starts it again.
Dies ==
    /\ proc' = [proc EXCEPT !.at = "down"]
    /\ ctl' = <<>> /\ loop' = <<>> /\ rx' = <<>>
    /\ pacer' = [queue |-> <<>>, gap |-> FALSE]
    /\ logs' = [s \in Sessions |-> Off] /\ api' = [s \in Sessions |-> Unconnected]
    /\ onSource' = <<>>

\* ctl_listener: a reload on the loop, or the end; an idle process ends on either.
CtlListener ==
    /\ proc.at \in {"on", "idle"} /\ ctl # <<>>
    /\ IF proc.at = "on" /\ Head(ctl) = "reload"
       THEN /\ ctl' = Tail(ctl)
            /\ loop' = Append(loop, [call |-> "reload"])
            /\ UNCHANGED <<proc, rx, pacer, logs, api, onSource>>
       ELSE Dies
    /\ UNCHANGED <<uart, framer, lastSent, tx, faults, file, conf>>

================================================================================
