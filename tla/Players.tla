---------------------------- MODULE Players ----------------------------
(***************************************************************************)
(* The providers of ml-source-bridge that drive a player on the same       *)
(* machine: AirPlay and sendspin over D-Bus, MPD over TCP                  *)
(* (providers/airplay.py, sendspin.py, mpd.py).  A command is a process or *)
(* a connection of its own and may fail; it is dropped when the same       *)
(* command went out less than _TRANSPORT_DEBOUNCE_S ago.  sendspin's name  *)
(* on the bus ends in its process id: the provider caches the name and     *)
(* looks it up again when the cached one is gone.                          *)
(***************************************************************************)
EXTENDS Naturals, FiniteSets

CONSTANTS
    Subs,       \* the providers
    Sendspin,   \* the ones whose name on the bus changes
    NoName,     \* no name cached, or none registered
    MaxName     \* bound: process ids of a sendspin daemon

ASSUME KindsAssumption == /\ Sendspin \subseteq Subs
                          /\ NoName \notin Nat
                          /\ MaxName \in Nat

VARIABLES
    session,    \* what the player does: "idle", "paused", "playing"
    cooling,    \* _last_call: commands that went out just now
    name,       \* the name the player has on the bus
    dest        \* _dest: the cached name

playerVars == <<session, cooling, name, dest>>

Methods == {"play", "pause", "skip"}
Names == 0..MaxName

PlayersTypeOK ==
    /\ session \in [Subs -> {"idle", "paused", "playing"}]
    /\ cooling \subseteq Subs \X Methods
    /\ name \in [Subs -> Names \union {NoName}]
    /\ dest \in [Subs -> Names \union {NoName}]

PlayersInit ==
    /\ session = [p \in Subs |-> "idle"]
    /\ cooling = {}
    /\ name = [p \in Subs |-> IF p \in Sendspin THEN NoName ELSE 0]
    /\ dest = [p \in Subs |-> NoName]

\* _discover_dest and the second attempt of _dbus_call: whatever name is cached, the call
\* ends at the registered one, if there is one.
Reaches(p) == p \in Sendspin => name[p] # NoName
Latched(p) == IF p \in Sendspin THEN [dest EXCEPT ![p] = name[p]] ELSE dest

\* Mutant: the player's own word for its state, not one of ours.
ObeyedRaw(p, method) ==
    CASE method = "play" /\ session[p] = "paused" -> "playing"
      [] method = "pause" /\ session[p] = "playing" -> "stopped"
      [] OTHER -> session[p]

\* What the player does with a command that reaches it.
Obeyed(p, method) ==
    CASE method = "play" /\ session[p] = "paused" -> "playing"
      [] method = "pause" /\ session[p] = "playing" -> "paused"
      [] OTHER -> session[p]

\* _debounce
Debounced(p, method) == <<p, method>> \in cooling

\* play, pause, next, prev of a provider: debounced, sent, perhaps lost.
Call(p, method, lost) ==
    IF Debounced(p, method)
    THEN UNCHANGED playerVars
    ELSE /\ cooling' = cooling \union {<<p, method>>}
         /\ session' = IF lost \/ ~Reaches(p) THEN session
                       ELSE [session EXCEPT ![p] = Obeyed(p, method)]
         /\ dest' = IF lost THEN dest ELSE Latched(p)
         /\ UNCHANGED name

\* is_playing: TRUE is only reported by a player that is reached.
Playing(p, lost) == ~lost /\ Reaches(p) /\ session[p] = "playing"

-----------------------------------------------------------------------------
\* The debounce time of a command is over.
Cools ==
    /\ \E c \in cooling : cooling' = cooling \ {c}
    /\ UNCHANGED <<session, name, dest>>

\* A person starts, holds or ends a session; sendspin has a name while it streams.
Starts(p) ==
    /\ session[p] # "playing"
    /\ session' = [session EXCEPT ![p] = "playing"]
    /\ \/ name[p] # NoName /\ UNCHANGED name
       \/ name[p] = NoName /\ \E n \in Names : name' = [name EXCEPT ![p] = n]
    /\ UNCHANGED <<cooling, dest>>

Holds(p) ==
    /\ session[p] = "playing"
    /\ session' = [session EXCEPT ![p] = "paused"]
    /\ UNCHANGED <<cooling, name, dest>>

Ends(p) ==
    /\ session[p] # "idle"
    /\ session' = [session EXCEPT ![p] = "idle"]
    /\ name' = IF p \in Sendspin THEN [name EXCEPT ![p] = NoName] ELSE name
    /\ UNCHANGED <<cooling, dest>>

================================================================================
