----------------------------- MODULE LightHandler -----------------------------
(***************************************************************************)
(* The LIGHT channel of ml-source-bridge (core/light_handler.py): LIGHT    *)
(* opens it, every key in it starts the safety timer anew, LIGHT_TIMEOUT   *)
(* from the bus or the timer closes it.  The main thread handles the keys, *)
(* every timer is a thread of its own; both hold the lock for a whole      *)
(* step.  Timer.cancel does not stop a timer that has already fired and    *)
(* waits for the lock.                                                     *)
(***************************************************************************)
CONSTANTS Timers, NoTimer

LOCAL Light == "light"
LOCAL LightTimeout == "light_timeout"
Keys == {Light, LightTimeout, "other"}

ASSUME TimersAssumption == NoTimer \notin Timers

VARIABLES
    channel,   \* _state = "channel"
    timer,     \* _timer
    timers     \* timer threads: "off", "running" or "due" (fired)

lightVars == <<channel, timer, timers>>

LightInit ==
    /\ channel = FALSE
    /\ timer = NoTimer
    /\ timers = [t \in Timers |-> "off"]

\* _timer.cancel()
Cancelled == [t \in Timers |-> IF t = timer /\ timers[t] = "running" THEN "off" ELSE timers[t]]

\* Mutant: the old timer is stopped, and a new one started only if there was none.
ResetTimerOnce ==
    \E t \in Timers :
        /\ timers[t] = "off"
        /\ timers' = IF timer = NoTimer THEN [timers EXCEPT ![t] = "running"] ELSE Cancelled
        /\ timer' = IF timer = NoTimer THEN t ELSE timer

\* _reset_timer
ResetTimer ==
    \E t \in Timers :
        /\ timers[t] = "off"
        /\ timers' = [Cancelled EXCEPT ![t] = "running"]
        /\ timer' = t

\* _arm
Arm == channel' = TRUE /\ ResetTimer

\* _disarm
Disarm == channel' = FALSE /\ timers' = Cancelled /\ timer' = NoTimer

\* _on_key, from observe: a key forwarded to the gateway address.
OnKey(key) ==
    \/ key = Light /\ Arm
    \/ key = LightTimeout /\ IF channel THEN Disarm ELSE UNCHANGED lightVars
    \/ /\ key \notin {Light, LightTimeout}
       /\ IF channel THEN ResetTimer /\ UNCHANGED channel ELSE UNCHANGED lightVars

Expires(t) ==
    /\ timers[t] = "running"
    /\ timers' = [timers EXCEPT ![t] = "due"]
    /\ UNCHANGED <<channel, timer>>

\* _on_local_timeout: also that of a timer cancelled after it fired.
OnLocalTimeout(t) ==
    /\ timers[t] = "due"
    /\ timers' = [timers EXCEPT ![t] = "off"]
    /\ IF channel
       THEN channel' = FALSE /\ timer' = NoTimer
       ELSE UNCHANGED <<channel, timer>>

TimerStep(t) == Expires(t) \/ OnLocalTimeout(t)
================================================================================
