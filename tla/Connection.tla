----------------------------- MODULE Connection -----------------------------
(***************************************************************************)
(* The connection of one rspace instance to its daemon: the health shown   *)
(* by ui/src/daemon.rs (DaemonStatus), the client and the daemon mutex of  *)
(* rclone_rc/src/service.rs (Service), and Daemon::restart.                *)
(*                                                                         *)
(* The ping loop, Reconnect and Restart each call the service and apply    *)
(* the result on the UI thread later.  A restart runs on the tokio         *)
(* runtime: it takes the daemon mutex, stops the old rcd, spawns a new one *)
(* on a new endpoint, releases the mutex, and only then swaps the client.  *)
(* Endpoints are numbered in the order their daemons are spawned.          *)
(*                                                                         *)
(* Bounds: MaxEps daemons, MaxRestarts restarts and one Reconnect at a time. *)
(*                                                                         *)
(* Operators named Mut... are mutants, bugs the next definition could have; *)
(* nothing uses them but the check that the properties notice them.        *)
(***************************************************************************)
EXTENDS Naturals, FiniteSets

CONSTANTS
    MaxEps,
    MaxRestarts,  \* restarts in flight at a time
    None

ASSUME ConnectionAssumption ==
    /\ MaxEps \in Nat \ {0}
    /\ MaxRestarts \in Nat
    /\ None \notin Nat

Eps == 1 .. MaxEps
Slots == 1 .. MaxRestarts
Pingers == {"loop", "reconnect"}

VARIABLES
    health,    \* DaemonStatus.health
    client,    \* Service.client: the endpoint new calls go to
    daemon,    \* Daemon.client, under the mutex: the last endpoint spawned healthy
    lock,      \* who holds the daemon mutex: a restart or None
    restarts,  \* slot -> where a restart_daemon task is, and the endpoint it spawned
    pings,     \* the pings of the loop and of Reconnect: [at, ep]
    alive,     \* external: the endpoints whose rcd runs
    spawned    \* how many rcds were spawned

vars == <<health, client, daemon, lock, restarts, pings, alive, spawned>>

Health == {"Unknown", "Up", "Down", "Restarting"}
Steps == {"free", "queued", "stopped", "spawned", "swapped", "failed"}

NoRestart == [at |-> "free", ep |-> None]
NoPing == [at |-> "idle", ep |-> None]

TypeOK ==
    /\ health \in Health
    /\ client \in Eps
    /\ daemon \in Eps
    /\ lock \in Slots \cup {None}
    /\ restarts \in [Slots -> [at : Steps, ep : Eps \cup {None}]]
    /\ pings \in [Pingers -> [at : {"idle", "sent", "ok", "err"}, ep : Eps \cup {None}]]
    /\ alive \subseteq 1 .. spawned
    /\ spawned \in Eps

\* main has started the daemon before there is a window.
Init ==
    /\ health = "Unknown"
    /\ client = 1 /\ daemon = 1 /\ alive = {1} /\ spawned = 1
    /\ lock = None
    /\ restarts = [r \in Slots |-> NoRestart]
    /\ pings = [p \in Pingers |-> NoPing]

-----------------------------------------------------------------------------
(* Pinging *)

\* Every call captures the client when it starts.
Ping(p) ==
    /\ pings[p].at = "idle"
    /\ pings' = [pings EXCEPT ![p] = [at |-> "sent", ep |-> client]]
    /\ UNCHANGED <<health, client, daemon, lock, restarts, alive, spawned>>

\* A daemon that runs answers.
Pong(p) ==
    /\ pings[p].at = "sent"
    /\ pings' = [pings EXCEPT ![p].at = IF pings[p].ep \in alive THEN "ok" ELSE "err"]
    /\ UNCHANGED <<health, client, daemon, lock, restarts, alive, spawned>>

Verdict(p) == IF pings[p].at = "ok" THEN "Up" ELSE "Down"

MutLoopSettleSticky ==
    /\ pings["loop"].at \in {"ok", "err"}
    /\ health' = IF health \in {"Restarting", "Down"} THEN health ELSE Verdict("loop")
    /\ pings' = [pings EXCEPT !["loop"] = NoPing]
    /\ UNCHANGED <<client, daemon, lock, restarts, alive, spawned>>

\* The loop leaves the state of a restart alone, then sleeps three seconds.
LoopSettle ==
    /\ pings["loop"].at \in {"ok", "err"}
    /\ health' = IF health = "Restarting" THEN health ELSE Verdict("loop")
    /\ pings' = [pings EXCEPT !["loop"] = NoPing]
    /\ UNCHANGED <<client, daemon, lock, restarts, alive, spawned>>

\* Reconnect does not.  (on_daemon_up then reloads the views with the client.)
ReconnectSettle ==
    /\ pings["reconnect"].at \in {"ok", "err"}
    /\ health' = Verdict("reconnect")
    /\ pings' = [pings EXCEPT !["reconnect"] = NoPing]
    /\ UNCHANGED <<client, daemon, lock, restarts, alive, spawned>>

-----------------------------------------------------------------------------
(* Restarting *)

\* The palette's Restart Daemon action is always there.
Restart(r) ==
    /\ restarts[r].at = "free"
    /\ health' = "Restarting"
    /\ restarts' = [restarts EXCEPT ![r].at = "queued"]
    /\ UNCHANGED <<client, daemon, lock, pings, alive, spawned>>

MutStopUnlocked(r) ==
    /\ restarts[r].at = "queued"
    /\ lock' = r
    /\ alive' = alive \ {daemon}
    /\ restarts' = [restarts EXCEPT ![r].at = "stopped"]
    /\ UNCHANGED <<health, client, daemon, pings, spawned>>

\* Take the mutex; quit and kill the old daemon.
Stop(r) ==
    /\ restarts[r].at = "queued"
    /\ lock = None
    /\ lock' = r
    /\ alive' = alive \ {daemon}
    /\ restarts' = [restarts EXCEPT ![r].at = "stopped"]
    /\ UNCHANGED <<health, client, daemon, pings, spawned>>

\* spawn_healthy succeeds; the mutex is released with the statement.
SpawnHealthy(r) ==
    /\ restarts[r].at = "stopped"
    /\ spawned < MaxEps
    /\ spawned' = spawned + 1
    /\ alive' = alive \cup {spawned + 1}
    /\ daemon' = spawned + 1
    /\ lock' = None
    /\ restarts' = [restarts EXCEPT ![r] = [at |-> "spawned", ep |-> spawned + 1]]
    /\ UNCHANGED <<health, client, pings>>

\* Or it fails: the new child is dropped and killed, the old client stays.
SpawnFails(r) ==
    /\ restarts[r].at = "stopped"
    /\ lock' = None
    /\ restarts' = [restarts EXCEPT ![r].at = "failed"]
    /\ UNCHANGED <<health, client, daemon, pings, alive, spawned>>

\* The runtime may run something else between the two.
Swap(r) ==
    /\ restarts[r].at = "spawned"
    /\ client' = restarts[r].ep
    /\ restarts' = [restarts EXCEPT ![r].at = "swapped"]
    /\ UNCHANGED <<health, daemon, lock, pings, alive, spawned>>

RestartSettle(r) ==
    /\ restarts[r].at \in {"swapped", "failed"}
    /\ health' = IF restarts[r].at = "swapped" THEN "Up" ELSE "Down"
    /\ restarts' = [restarts EXCEPT ![r] = NoRestart]
    /\ UNCHANGED <<client, daemon, lock, pings, alive, spawned>>

-----------------------------------------------------------------------------
(* The daemon's own end *)

Die ==
    /\ alive # {}
    /\ alive' = {}
    /\ UNCHANGED <<health, client, daemon, lock, restarts, pings, spawned>>

Next ==
    \/ \E p \in Pingers : Ping(p) \/ Pong(p)
    \/ LoopSettle \/ ReconnectSettle
    \/ \E r \in Slots :
          \/ Restart(r) \/ Stop(r) \/ SpawnHealthy(r) \/ SpawnFails(r)
          \/ Swap(r) \/ RestartSettle(r)
    \/ Die

Spec == Init /\ [][Next]_vars

\* The ping loop runs for ever, the executors run every task that can go on,
\* and a tokio mutex is fair.
Fairness ==
    /\ \A p \in Pingers : WF_vars(Pong(p))
    /\ WF_vars(Ping("loop")) /\ WF_vars(LoopSettle) /\ WF_vars(ReconnectSettle)
    /\ \A r \in Slots :
          /\ SF_vars(Stop(r))
          /\ WF_vars(SpawnHealthy(r) \/ SpawnFails(r))
          /\ WF_vars(Swap(r)) /\ WF_vars(RestartSettle(r))

FairSpec == Spec /\ Fairness

-----------------------------------------------------------------------------
(* Properties *)

Restarting == \E r \in Slots : restarts[r].at # "free"

\* However many restarts are asked for, the mutex keeps them apart: the
\* instance never runs two daemons, and one it forgot about never survives.
OneDaemon ==
    /\ TypeOK
    /\ Cardinality(alive) <= 1
    /\ lock = None => alive \subseteq {daemon}

\* "Don't fight an in-flight restart" (ui/src/daemon.rs:56): while one is in flight
\* the status says so.
RestartIsShown == Restarting => health = "Restarting"

\* The status dot comes to show the truth: a daemon that stays reachable is Up
\* for good, one that stays dead is Down for good, although pings that were sent
\* to the previous endpoint are still answered.
HealthConverges ==
    /\ <>[](client \in alive /\ ~Restarting) => <>[](health = "Up")
    /\ <>[](client \notin alive /\ ~Restarting) => <>[](health = "Down")

\* "swap in the new client so all service clones use the new endpoint"
\* (service.rs:119-120): a daemon that was restarted is the one that is called.
EveryRestartIsSwappedIn == ~Restarting => client = daemon
=============================================================================
