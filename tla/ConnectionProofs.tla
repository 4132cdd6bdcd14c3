-------------------------- MODULE ConnectionProofs --------------------------
(***************************************************************************)
(* Proofs about Connection, for any number of endpoints and of restarts in *)
(* flight.                                                                 *)
(***************************************************************************)
EXTENDS Connection, FiniteSetTheorems, TLAPS

USE ConnectionAssumption

(* The inductive invariant.  The mutex is held by the restart that has stopped  *)
(* the daemon and not spawned the next one, so that nothing runs under it; when *)
(* it is free nothing but the daemon on record runs.                            *)

HolderHasStopped == \A r \in Slots : restarts[r].at = "stopped" <=> lock = r

NoneRunsUnderTheLock == lock # None => alive = {}

OnlyTheRecordedRuns == lock = None => alive \subseteq {daemon}

SpawnedHasEndpoint ==
    \A r \in Slots : restarts[r].at \in {"spawned", "swapped"} => restarts[r].ep \in Eps

IInv ==
    /\ TypeOK
    /\ HolderHasStopped
    /\ NoneRunsUnderTheLock
    /\ OnlyTheRecordedRuns
    /\ SpawnedHasEndpoint

\* What is alive when only one daemon can be.
LEMMA AtMostOne ==
    ASSUME IInv
    PROVE  Cardinality(alive) <= 1
<1>1. alive = {} \/ alive = {daemon}
  BY DEF IInv, NoneRunsUnderTheLock, OnlyTheRecordedRuns
<1>2. Cardinality({}) = 0 /\ Cardinality({daemon}) = 1
  BY FS_EmptySet, FS_Singleton
<1>3. QED
  BY <1>1, <1>2

\* main has one daemon running and no restart.
LEMMA InitIInv == Init => IInv
BY DEF Init, IInv, TypeOK, HolderHasStopped, NoneRunsUnderTheLock, OnlyTheRecordedRuns,
       SpawnedHasEndpoint, NoRestart, NoPing, Slots, Eps, Health, Steps

\* Pings only read what runs.
LEMMA PingStep ==
    ASSUME IInv,
           \/ \E p \in Pingers : Ping(p) \/ Pong(p)
           \/ LoopSettle \/ ReconnectSettle
    PROVE  IInv'
<1>1. UNCHANGED <<client, daemon, lock, restarts, alive, spawned>>
  BY DEF Ping, Pong, LoopSettle, ReconnectSettle
<1>2. health' \in Health
  BY DEF Ping, Pong, LoopSettle, ReconnectSettle, IInv, TypeOK, Health, Verdict
<1>3. pings' \in [Pingers -> [at : {"idle", "sent", "ok", "err"}, ep : Eps \cup {None}]]
  BY DEF Ping, Pong, LoopSettle, ReconnectSettle, IInv, TypeOK, NoPing, Pingers
<1>4. QED
  BY <1>1, <1>2, <1>3
     DEF IInv, TypeOK, HolderHasStopped, NoneRunsUnderTheLock, OnlyTheRecordedRuns,
         SpawnedHasEndpoint

\* A restart takes the mutex, stops the daemon under it and leaves it with the
\* daemon it spawned or with none.
LEMMA RestartStep ==
    ASSUME IInv, NEW r \in Slots,
           \/ Restart(r) \/ Stop(r) \/ SpawnHealthy(r) \/ SpawnFails(r)
           \/ Swap(r) \/ RestartSettle(r)
    PROVE  IInv'
<1> USE DEF IInv, TypeOK, HolderHasStopped, NoneRunsUnderTheLock,
            OnlyTheRecordedRuns, SpawnedHasEndpoint
<1>1. r # None /\ \A s \in Slots : s # None
  BY DEF Slots
<1>2. CASE Restart(r)
  BY <1>2, <1>1 DEF Restart, Health, Steps
<1>3. CASE Stop(r)
  BY <1>3, <1>1 DEF Stop, Steps
<1>4. CASE SpawnHealthy(r)
  <2>1. lock = r /\ alive = {} /\ spawned + 1 \in Eps
    BY <1>4, <1>1 DEF SpawnHealthy, Eps
  <2>2. /\ lock' = None
        /\ daemon' = spawned + 1 /\ spawned' = spawned + 1 /\ alive' = {spawned + 1}
        /\ UNCHANGED <<health, client, pings>>
    BY <1>4, <2>1 DEF SpawnHealthy
  <2>3. /\ restarts' \in [Slots -> [at : Steps, ep : Eps \cup {None}]]
        /\ \A s \in Slots : restarts'[s].at = "stopped" <=> restarts[s].at = "stopped" /\ s # r
    BY <1>4, <2>1 DEF SpawnHealthy, Steps
  <2>4. TypeOK'
    BY <2>1, <2>2, <2>3 DEF Eps
  <2>5. HolderHasStopped'
    BY <1>1, <2>1, <2>2, <2>3
  <2>6. SpawnedHasEndpoint'
    BY <1>4, <2>1 DEF SpawnHealthy
  <2>7. NoneRunsUnderTheLock' /\ OnlyTheRecordedRuns'
    BY <2>2
  <2> HIDE DEF TypeOK, HolderHasStopped, NoneRunsUnderTheLock, OnlyTheRecordedRuns,
               SpawnedHasEndpoint
  <2>8. QED
    BY <2>4, <2>5, <2>6, <2>7
<1>5. CASE SpawnFails(r)
  BY <1>5, <1>1 DEF SpawnFails, Steps
<1>6. CASE Swap(r)
  BY <1>6, <1>1 DEF Swap, Steps
<1>7. CASE RestartSettle(r)
  BY <1>7, <1>1 DEF RestartSettle, Health, Steps, NoRestart
<1>8. QED
  BY <1>2, <1>3, <1>4, <1>5, <1>6, <1>7

\* Every step of the connection preserves the inductive invariant.
LEMMA NextIInv == IInv /\ [Next]_vars => IInv'
<1> SUFFICES ASSUME IInv, [Next]_vars
             PROVE  IInv'
  OBVIOUS
<1>1. CASE Die
  BY <1>1 DEF Die, IInv, TypeOK, HolderHasStopped, NoneRunsUnderTheLock, OnlyTheRecordedRuns,
         SpawnedHasEndpoint
<1>2. CASE UNCHANGED vars
  BY <1>2
     DEF vars, IInv, TypeOK, HolderHasStopped, NoneRunsUnderTheLock, OnlyTheRecordedRuns,
         SpawnedHasEndpoint
<1>3. QED
  BY <1>1, <1>2, PingStep, RestartStep DEF Next

\* However many restarts are asked for and whenever the daemon dies, one instance
\* never runs two daemons, and what runs while the mutex is free is the daemon on
\* record (Service::restart_daemon, Daemon::restart).
THEOREM OneDaemonAlways == Spec => []OneDaemon
<1>1. IInv => OneDaemon
  BY AtMostOne DEF IInv, OneDaemon, OnlyTheRecordedRuns
<1>2. QED
  BY InitIInv, NextIInv, <1>1, PTL DEF Spec

=============================================================================
