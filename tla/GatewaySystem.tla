--------------------------- MODULE GatewaySystem ---------------------------
(***************************************************************************)
(* The gateway among its neighbours: devices and the Pi itself on the bus, *)
(* behind the broker and a line that spoils bytes; Home Assistant, whose   *)
(* mlgw integration learns the addresses of the devices by matching the    *)
(* answers in the ML log with its commands, in order, on several threads;  *)
(* the web interface (web/mdt_web.py), whose requests run side by side.    *)
(***************************************************************************)
EXTENDS Gateway, FiniteSets

CONSTANTS
    Savers,     \* requests of the web interface that save
    Telegrams,  \* what devices send, and a real MLGW: [to, from, type, source] as sequences
    PiSends,    \* what the bridge sends
    Spoiled,    \* what a byte on the line may turn into
    Files,      \* device files
    Settings,   \* [mlgw] settings: "off", "listen only", "full"
    Scenarios   \* bounds: telegrams, saves, logins, spoiled bytes; whether HA learns

\* Sessions are numbered as they come; the bridge does not send virtual keys from the
\* gateway's address; the line only knows bytes.
ASSUME GatewayAssumption ==
    /\ Sessions \subseteq Nat
    /\ Files # {} /\ Files \subseteq Seq(Nat)
    /\ \A t \in Telegrams \union PiSends : t \in Seq(Nat) /\ Len(t) >= 3
    /\ \A t \in PiSends : ~(t[2] = AddrMlgw /\ t[3] = VirtualBeo4)
    /\ Spoiled \subseteq {<<b>> : b \in 0 .. 255}
    /\ \A s \in Scenarios : s.settings \subseteq Settings

VARIABLES
    ha,         \* Home Assistant: what it was told, asked and learned, and (history) mixed: its
                \* answers in the log are not those to its commands alone, or not to all of them
    saving,     \* the savers: what they save and the steps left
    bus         \* what the devices have sent, what went astray, and the budget left

vars == <<brokerVars, gatewayVars, ha, saving, bus>>

Fresh(s) == [session |-> s, lines |-> <<>>, asked |-> <<>>, learned |-> <<>>, standbys |-> 0,
             mixed |-> FALSE]

Init ==
    /\ BrokerInit
    /\ \E s \in Scenarios :
          /\ faults = s.faults
          /\ bus = [left |-> s, standbys |-> 0, missed |-> FALSE]
          /\ conf \in s.settings
    /\ file = CHOOSE f \in Files : TRUE
    /\ proc = [at |-> "on", settings |-> conf, devices |-> file, kept |-> FALSE]
    /\ conf # "off"
    /\ loop = <<>> /\ ctl = <<>> /\ onSource = <<>>
    /\ pacer = [queue |-> <<>>, gap |-> FALSE]
    /\ logs = [s \in Sessions |-> Off]
    /\ api = [s \in Sessions |-> Unconnected]
    /\ ha = Fresh(0)
    /\ saving = [w \in Savers |-> [at |-> "idle", todo |-> <<>>, request |-> "none"]]

Spend(what) == bus.left[what] > 0 /\ bus' = [bus EXCEPT !.left[what] = @ - 1]

-----------------------------------------------------------------------------
(* The bus *)

AllStandby(t) == t[3] \in {KeyRelease, KeyStandby} /\ t[1] = AddrAll

\* Bounds: one telegram of a device at a time, and nothing before Home Assistant listens.
Told == \E s \in Sessions : api[s].authed

Device ==
    /\ uart = <<>> /\ Told /\ bus.left.telegrams > 0
    /\ \E t \in Telegrams :
          /\ DeviceSends(t)
          /\ bus' = [bus EXCEPT !.left.telegrams = @ - 1,
                                !.standbys = @ + IF AllStandby(t) THEN 1 ELSE 0]
    /\ UNCHANGED <<faults, gatewayVars, ha, saving>>

Bridge ==
    /\ Told /\ Spend("own")
    /\ \/ \E t \in PiSends : PublishMl(t)
       \/ \E m \in [chan : {ChanDl86, ChanDl80, ChanGpio}, body : {<<>>, <<1>>, <<1, 1>>}] :
             tx' = Append(tx, m) /\ UNCHANGED rx
    /\ UNCHANGED <<uart, framer, lastSent, faults, gatewayVars, ha, saving>>

Line == Noise(Spoiled) /\ UNCHANGED <<gatewayVars, ha, saving, bus>>

BrokerRuns ==
    (SerialReader \/ RedisSubscriber) /\ UNCHANGED <<gatewayVars, ha, saving, bus>>

-----------------------------------------------------------------------------
(* Home Assistant *)

Quiet == /\ rx = <<>> /\ tx = <<>> /\ loop = <<>> /\ ha.lines = <<>>
         /\ \A s \in Sessions : logs[s].lines = <<>>

\* Timing: a line of the log is handled within the pacer's gap.
GapEnds == Quiet /\ GapOver /\ UNCHANGED <<ha, saving, bus>>

\* The integration is set up, or set up again while an old session lingers and commands of
\* the old one may wait in the pacer.  Timing: that takes longer than a line of the log.
SetsUp(s) ==
    /\ s = ha.session + 1
    /\ Quiet
    /\ TelnetLogin(s)
    /\ Spend("logins")
    /\ ha' = [Fresh(s) EXCEPT !.standbys = ha.standbys, !.mixed = pacer.queue # <<>>]
    /\ UNCHANGED saving

OpensLog(s) ==
    /\ s = ha.session /\ bus.left.learns
    /\ MlLogOnline(s)
    /\ UNCHANGED <<ha, saving, bus>>

Pings(s) ==
    /\ s = ha.session /\ logs[s].at = IF bus.left.learns THEN "online" ELSE "in"
    /\ HandlePing(s)
    /\ UNCHANGED <<ha, saving, bus>>

LogsIn(s) ==
    /\ api[s].out # <<>> /\ Head(api[s].out).type = "login fail"
    /\ HandleLogin(s)
    /\ UNCHANGED <<ha, saving, bus>>

\* Every device is asked, one after the other, whether it has an address or not.
AsksDevice(s, device) ==
    /\ s = ha.session /\ logs[s].at = "online" /\ device = Len(ha.asked) + 1
    /\ HandleBeo4(s, device)
    /\ ha' = [ha EXCEPT !.asked = Append(@, proc.devices[device]),
                         !.mixed = @ \/ proc.devices[device] = NoAddress]
    /\ UNCHANGED <<api, saving, bus>>

\* An event of the gateway.
GetsEvent(s) ==
    /\ api[s].out # <<>> /\ Head(api[s].out).type # "login fail"
    /\ api' = [api EXCEPT ![s].out = Tail(@)]
    /\ LET e == Head(api[s].out) IN
       ha' = IF e.type = "all standby" /\ s = ha.session THEN [ha EXCEPT !.standbys = @ + 1] ELSE ha
    /\ UNCHANGED <<brokerVars, proc, loop, pacer, logs, onSource, ctl, file, conf, saving, bus>>

\* A line of the log reaches one of HA's threads, and one of them gets to handle its line.
GetsLine(s) ==
    /\ logs[s].lines # <<>>
    /\ logs' = [logs EXCEPT ![s].lines = Tail(@)]
    /\ ha' = [ha EXCEPT !.lines = Append(@, Head(logs[s].lines))]
    /\ UNCHANGED <<brokerVars, proc, loop, pacer, api, onSource, ctl, file, conf, saving, bus>>

\* How the integration tells an answer: a virtual key from the gateway's address.
IsAnswer(t) == Len(t) >= 3 /\ t[2] = AddrMlgw /\ t[3] = VirtualBeo4

HandlesLine ==
    /\ \E i \in DOMAIN ha.lines :
          LET t == ha.lines[i]
              rest == [ha EXCEPT !.lines = RemoveAt(@, i)]
          IN  ha' = IF IsAnswer(t) THEN [rest EXCEPT !.learned = Append(@, t[1])] ELSE rest
    /\ UNCHANGED <<brokerVars, gatewayVars, saving, bus>>

-----------------------------------------------------------------------------
(* The web interface *)

\* Mutant: the request goes out before the file is written.
StepsTurned == <<"publish", "write">>

\* A save: the file first, then the request; the settings under a lock.
Steps == <<"write", "publish">>

Locked == \E w \in Savers : saving[w].at = "settings"

Begins(w) ==
    /\ saving[w].at = "idle"
    /\ Spend("saves")
    /\ \/ \E f \in Files :
             /\ conf # "off"
             /\ saving' = [saving EXCEPT ![w] = [at |-> "devices", todo |-> Steps, request |-> f]]
       \/ \E c \in Settings \ {conf} :
             /\ ~Locked
             /\ saving' = [saving EXCEPT ![w] = [at |-> "settings", todo |-> Steps, request |-> c]]
    /\ UNCHANGED <<brokerVars, gatewayVars, ha>>

Continues(w) == [saving[w] EXCEPT !.todo = Tail(@), !.at = IF Len(saving[w].todo) = 1 THEN "idle" ELSE @]

Doing(w, step) == saving[w].todo # <<>> /\ Head(saving[w].todo) = step

Writes(w) ==
    /\ Doing(w, "write")
    /\ saving' = [saving EXCEPT ![w] = Continues(w)]
    /\ IF saving[w].at = "devices"
       THEN file' = saving[w].request /\ UNCHANGED conf
       ELSE conf' = saving[w].request /\ UNCHANGED file
    /\ UNCHANGED <<brokerVars, proc, loop, pacer, logs, api, onSource, ctl, ha, bus>>

\* affected_services: new devices are reloaded in place, new settings take a restart.
Service(w) == IF saving[w].at = "devices" THEN "reload" ELSE "restart"

\* publish_restart: heard by who is subscribed.
Requests(w) ==
    /\ Doing(w, "publish")
    /\ saving' = [saving EXCEPT ![w] = Continues(w)]
    /\ IF proc.at \in {"on", "idle"}
       THEN /\ ctl' = Append(ctl, Service(w))
            /\ UNCHANGED bus
       ELSE bus' = [bus EXCEPT !.missed = TRUE] /\ UNCHANGED ctl
    /\ UNCHANGED <<brokerVars, proc, loop, pacer, logs, api, onSource, file, conf, ha>>

\* The listener's connection breaks.
CtlBreaks ==
    /\ proc.at = "on" \/ proc.at = "idle"
    /\ bus.left.drops > 0
    /\ bus' = [bus EXCEPT !.left.drops = @ - 1, !.missed = @ \/ ctl # <<>>]
    /\ ctl' = <<>>
    /\ proc' = [proc EXCEPT !.at = IF @ = "on" THEN "deaf" ELSE "deaf idle"]
    /\ UNCHANGED <<brokerVars, loop, pacer, logs, api, onSource, file, conf, ha, saving>>

-----------------------------------------------------------------------------

\* A virtual key of a real MLGW, about to go into the log.
OthersKey ==
    LET e == Head(loop) IN e.call # "reload" /\ ~e.own /\ IsAnswer(e.t)

GatewayRuns ==
    /\ \/ LoopRuns /\ ha' = [ha EXCEPT !.mixed = @ \/ OthersKey]
       \/ /\ RedisReader \/ PacerRun \/ Boot \/ Subscribe \/ CtlListener
          /\ UNCHANGED ha
    /\ UNCHANGED <<saving, bus>>

HomeAssistant ==
    \/ \E s \in Sessions :
          \/ SetsUp(s) \/ OpensLog(s) \/ Pings(s) \/ LogsIn(s) \/ GetsEvent(s) \/ GetsLine(s)
          \/ \E d \in DOMAIN proc.devices : AsksDevice(s, d)
    \/ HandlesLine

Web == \E w \in Savers : Begins(w) \/ Writes(w) \/ Requests(w)

Next ==
    \/ Device \/ Bridge \/ Line \/ BrokerRuns \/ GatewayRuns \/ GapEnds
    \/ HomeAssistant \/ Web \/ CtlBreaks

(* The threads and the loop run, saves come to their end, systemd restarts.                 *)
Fairness ==
    /\ WF_vars(GatewayRuns) /\ WF_vars(BrokerRuns) /\ WF_vars(GapEnds)
    /\ \A w \in Savers : WF_vars(Writes(w) \/ Requests(w))

Spec == Init /\ [][Next]_vars /\ Fairness

-----------------------------------------------------------------------------
(* Properties *)

(* Home Assistant is told of an all-standby only when a device has sent one: neither the    *)
(* Pi's own RELEASE to all (events.py:16, it "must not switch every player off") nor a      *)
(* telegram spoiled on the line counts as one.                                              *)
StandbyIsReal == ha.standbys <= bus.standbys

(* The answers Home Assistant finds in the ML log are those to its commands, in their order *)
(* (mlgw_emu.py:211, the integration "learns device addresses by matching the ML log's      *)
(* answers to its commands IN ORDER"), also when it is set up again (mlgw_emu.py:410), but  *)
(* for the answers to what was queued before, for those to a device without an address,     *)
(* which never come, and for keys that a real MLGW has sent into the log meanwhile.         *)
LearnsRight == ha.mixed \/ IsPrefix(ha.learned, ha.asked)

(* In the end the gateway uses the saved devices and settings, unless a request found       *)
(* nobody subscribed, or the file could not be read and the old devices stay                *)
(* (mlgw_emu.py:20; mdt_web.py:408-411 and :500-503 write first and ask then).              *)
ConfigFollows ==
    <>[]\/ bus.missed
        \/ proc.settings = conf /\ (conf # "off" => proc.devices = file \/ proc.kept)

================================================================================
