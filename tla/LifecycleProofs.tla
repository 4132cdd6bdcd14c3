-------------------------- MODULE LifecycleProofs ---------------------------
(***************************************************************************)
(* Proofs about Lifecycle, for any number of pids.  Where a pid file is    *)
(* trusted, the theorems assume that the operating system does not give    *)
(* the pid of a process that ended to another one (Recycle = FALSE).       *)
(***************************************************************************)
EXTENDS Lifecycle, TLAPS

USE LifecycleAssumption

(* The inductive invariant of OneDaemonEach, whatever becomes of pids: an       *)
(* instance that has yet to spawn has no child, and every owner is an instance. *)

ChildIsTheDaemon ==
    \A c \in Pids : (Is(c, "rcd") /\ proc[c].owner # None) => child[proc[c].owner] = c

NoChildBeforeSpawn == \A p \in Pids : at[p] \in {"off", "reap", "spawn"} => child[p] = None

AppsAreOn == \A p \in Pids : (at[p] # "off") <=> (proc[p] # None /\ proc[p].kind = "app")

IInv == TypeOK /\ ChildIsTheDaemon /\ NoChildBeforeSpawn

(* Without recycling: every pid on record was given out; a file and a child     *)
(* name the daemon of one instance only; an orphan on record is the daemon of   *)
(* an instance that ended, and a reaping instance that doomed it still has its  *)
(* file to handle.                                                              *)

PidsInUse ==
    /\ \A p \in Pids : Running(p) => p \in used
    /\ \A p \in Pids : pidfile[p] # None => p \in used /\ pidfile[p] \in used
    /\ \A p \in Pids : child[p] # None => child[p] \in used
    /\ \A p \in Pids : doomed[p] \subseteq used

ChildIsOwned == \A p, c \in Pids : (child[p] = c /\ Is(c, "rcd")) => proc[c].owner = p

FileNamesOwnDaemon ==
    \A o, c \in Pids : (pidfile[o] = c /\ Is(c, "rcd") /\ proc[c].owner # None) => proc[c].owner = o

OrphansOwnerEnded == \A o \in Pids : \A c \in Orphans : pidfile[o] = c => ~Running(o)

DoomedStayOrphans == \A p \in Pids : \A c \in doomed[p] : Running(c) => c \in Orphans

DoomedAreListed ==
    \A p \in Pids : at[p] = "reap" =>
        \A c \in doomed[p] \cap Orphans : \E o \in todo[p] : pidfile[o] = c

ReapInv ==
    /\ PidsInUse
    /\ ChildIsOwned
    /\ FileNamesOwnDaemon
    /\ OrphansOwnerEnded
    /\ DoomedStayOrphans
    /\ DoomedAreListed
    /\ OrphansReaped

-----------------------------------------------------------------------------
(* What the model's operators on the process table return *)

\* Killing rcds and the instance that ends leaves every other process as it was.
LEMMA KilledEffect ==
    ASSUME TypeOK, NEW S
    PROVE  /\ Killed(S) \in [Pids -> Process \cup {None}]
           /\ \A q \in Pids : Killed(S)[q] = IF q \in S THEN None ELSE proc[q]
BY DEF Killed, TypeOK

\* A crash ends the instance and leaves its daemons, and only those, as orphans.
LEMMA AbandonedEffect ==
    ASSUME TypeOK, NEW p \in Pids
    PROVE  /\ Abandoned(p) \in [Pids -> Process \cup {None}]
           /\ Abandoned(p)[p] = None
           /\ \A q \in Pids \ {p} :
                 Abandoned(p)[q] = IF Is(q, "rcd") /\ proc[q].owner = p
                                   THEN [kind |-> "rcd", owner |-> None]
                                   ELSE proc[q]
<1>1. \A q \in Pids : Is(q, "rcd") =>
         [proc[q] EXCEPT !.owner = None] = [kind |-> "rcd", owner |-> None]
  BY DEF Is, Running, TypeOK, Process
<1>2. [kind |-> "rcd", owner |-> None] \in Process
  BY DEF Process, Kinds
<1>3. QED
  BY <1>1, <1>2 DEF Abandoned, TypeOK

\* The model forgets an instance that ended, and nothing of the others.
LEMMA ForgetEffect ==
    ASSUME TypeOK, NEW p \in Pids, Forget(p)
    PROVE  /\ used' = used
           /\ at' \in [Pids -> Places] /\ at'[p] = "off"
           /\ child' \in [Pids -> Pids \cup {None}] /\ child'[p] = None
           /\ todo' \in [Pids -> SUBSET Pids]
           /\ doomed' \in [Pids -> SUBSET Pids] /\ doomed'[p] = {}
           /\ launched' \in [Pids -> BOOLEAN]
           /\ \A q \in Pids \ {p} : /\ at'[q] = at[q] /\ child'[q] = child[q]
                                    /\ todo'[q] = todo[q] /\ doomed'[q] = doomed[q]
<1>1. at' \in [Pids -> Places] /\ child' \in [Pids -> Pids \cup {None}]
  BY DEF Forget, TypeOK, Places
<1>2. todo' \in [Pids -> SUBSET Pids] /\ doomed' \in [Pids -> SUBSET Pids]
  BY DEF Forget, TypeOK
<1>3. QED
  BY <1>1, <1>2 DEF Forget, TypeOK

\* Handling a file changes at most one process, and ends only an rcd the file names,
\* when the instance of the file is not running.
LEMMA ReapFileEffect ==
    ASSUME TypeOK, NEW p \in Pids, NEW o \in Pids, ReapFile(p, o)
    PROVE  /\ proc' \in [Pids -> Process \cup {None}]
           /\ \A q \in Pids :
                 proc'[q] # proc[q] => /\ Is(q, "rcd") /\ proc'[q] = None
                                       /\ q = pidfile[o] /\ ~Running(o) /\ o # p
           /\ \A q \in Pids :
                 (q = pidfile[o] /\ o # p /\ ~Running(o)) => ~Is(q, "rcd")'
           /\ \A q \in Pids :
                 pidfile'[q] # pidfile[q] => q = o /\ ~Running(o) /\ pidfile'[o] = None
<1>1. CASE (o = p \/ Running(o)) /\ UNCHANGED <<proc, pidfile>>
  BY <1>1 DEF TypeOK
<1>2. CASE /\ o # p /\ ~Running(o)
           /\ proc' = IF pidfile[o] # None /\ Is(pidfile[o], "rcd")
                      THEN Killed({pidfile[o]}) ELSE proc
           /\ pidfile' = [pidfile EXCEPT ![o] = None]
  <2>1. CASE pidfile[o] # None /\ Is(pidfile[o], "rcd")
    <3>1. proc' = Killed({pidfile[o]})
      BY <1>2, <2>1
    <3>2. /\ proc' \in [Pids -> Process \cup {None}]
          /\ \A q \in Pids : proc'[q] = IF q = pidfile[o] THEN None ELSE proc[q]
      BY <3>1, KilledEffect
    <3>3. QED
      BY <1>2, <2>1, <3>2 DEF TypeOK, Is, Running
  <2>2. CASE ~(pidfile[o] # None /\ Is(pidfile[o], "rcd"))
    BY <1>2, <2>2 DEF TypeOK, Is, Running
  <2>3. QED
    BY <2>1, <2>2
<1>3. QED
  BY <1>1, <1>2 DEF ReapFile

-----------------------------------------------------------------------------
(* One daemon for each instance *)

\* No process, no instance.
LEMMA InitIInv == Init => IInv
BY DEF Init, IInv, TypeOK, ChildIsTheDaemon, NoChildBeforeSpawn, Is, Running, Places

\* A launching instance has no daemon and kills none that has an owner but by its file.
LEMMA LaunchStep ==
    ASSUME IInv, NEW p \in Pids, NEW o \in Pids, Launch(p) \/ ReapFile(p, o) \/ Reaped(p)
    PROVE  IInv'
<1> USE DEF IInv, TypeOK, ChildIsTheDaemon, NoChildBeforeSpawn, Is, Running
<1>1. CASE Launch(p)
  <2>1. [kind |-> "app", owner |-> None] \in Process
    BY DEF Process, Kinds
  <2>2. /\ proc' = [proc EXCEPT ![p] = [kind |-> "app", owner |-> None]]
        /\ at' = [at EXCEPT ![p] = "reap"]
        /\ proc[p] = None
        /\ UNCHANGED <<pidfile, child, launched>>
    BY <1>1 DEF Launch, Free
  <2>3. TypeOK'
    <3>1. todo' \in [Pids -> SUBSET Pids] /\ doomed' \in [Pids -> SUBSET Pids]
      BY <1>1 DEF Launch, Files, Orphans
    <3>2. used' \subseteq Pids
      BY <1>1 DEF Launch
    <3>3. proc' \in [Pids -> Process \cup {None}] /\ at' \in [Pids -> Places]
      BY <2>1, <2>2 DEF Places
    <3>4. AppsAreOn'
      BY <2>1, <2>2 DEF AppsAreOn
    <3>5. QED
      BY <2>2, <3>1, <3>2, <3>3, <3>4 DEF AppsAreOn
  <2>4. ChildIsTheDaemon' /\ NoChildBeforeSpawn'
    BY <2>2
  <2>5. QED
    BY <2>3, <2>4
<1>2. CASE ReapFile(p, o)
  <2>1. /\ UNCHANGED <<used, at, child, doomed, launched>>
        /\ todo' = [todo EXCEPT ![p] = @ \ {o}]
        /\ pidfile' = pidfile \/ pidfile' = [pidfile EXCEPT ![o] = None]
    BY <1>2 DEF ReapFile
  <2>2. /\ proc' \in [Pids -> Process \cup {None}]
        /\ \A q \in Pids : proc'[q] = proc[q] \/ (Is(q, "rcd") /\ proc'[q] = None)
    BY <1>2, ReapFileEffect
  <2>3. TypeOK'
    BY <2>1, <2>2, ZenonT(60)
  <2>4. ChildIsTheDaemon' /\ NoChildBeforeSpawn'
    BY <2>1, <2>2
  <2>5. QED
    BY <2>3, <2>4
<1>3. CASE Reaped(p)
  BY <1>3 DEF Reaped, Places
<1>4. QED
  BY <1>1, <1>2, <1>3

\* An instance spawns when it has no child, so that the spawned one is its only daemon.
LEMMA SpawnStep ==
    ASSUME IInv, NEW p \in Pids, NEW c \in Pids,
           Spawn(p, c) \/ WritePidfile(p) \/ Healthy(p)
    PROVE  IInv'
<1> USE DEF IInv, TypeOK, ChildIsTheDaemon, NoChildBeforeSpawn, Is, Running
<1>1. CASE Spawn(p, c)
  <2>1. [kind |-> "rcd", owner |-> p] \in Process
    BY DEF Process, Kinds
  <2>2. \A q \in Pids : (Is(q, "rcd") /\ proc[q].owner # None) => proc[q].owner # p
    BY <1>1 DEF Spawn
  <2>3. QED
    BY <1>1, <2>1, <2>2 DEF Spawn, Free, Places
<1>2. CASE WritePidfile(p)
  BY <1>2 DEF WritePidfile, Places
<1>3. CASE Healthy(p)
  BY <1>3 DEF Healthy, Places
<1>4. QED
  BY <1>1, <1>2, <1>3

\* Dropping the child kills the only daemon the instance owns; so does quitting.
LEMMA StopStep ==
    ASSUME IInv, NEW p \in Pids,
           SpawnFails(p) \/ Restart(p) \/ Quit(p) \/ QuitWithout(p)
    PROVE  IInv'
<1> USE DEF IInv, TypeOK, ChildIsTheDaemon, NoChildBeforeSpawn
<1>1. \A q \in Owned(p) : Is(q, "rcd")
  BY DEF Owned
<1>2. \A q \in Pids : (Is(q, "rcd") /\ proc[q].owner = p) => q \in Owned(p)
  BY DEF Owned
<1>3. CASE SpawnFails(p) \/ Restart(p)
  <2>1. proc' = Killed(Owned(p)) /\ child' = [child EXCEPT ![p] = None]
    BY <1>3 DEF SpawnFails, Restart
  <2>2. /\ proc' \in [Pids -> Process \cup {None}]
        /\ \A q \in Pids : proc'[q] = IF q \in Owned(p) THEN None ELSE proc[q]
    BY <2>1, KilledEffect
  <2>3. /\ at' \in [Pids -> Places]
        /\ \A q \in Pids \ {p} : at'[q] = at[q]
        /\ at[p] # "off" /\ at'[p] \in {"up", "bare", "spawn"}
        /\ UNCHANGED <<used, pidfile, todo, doomed, launched>>
    BY <1>3 DEF SpawnFails, Restart, Places
  <2>4. TypeOK'
    BY <1>1, <2>1, <2>2, <2>3, ZenonT(60) DEF Is, Running
  <2>5. ChildIsTheDaemon'
    BY <1>2, <2>1, <2>2 DEF Is, Running, Process
  <2>6. NoChildBeforeSpawn'
    BY <2>1, <2>3
  <2>7. QED
    BY <2>4, <2>5, <2>6
<1>4. CASE Quit(p) \/ QuitWithout(p)
  <2>1. proc' = Killed(Owned(p) \cup {p}) /\ Forget(p)
    BY <1>4 DEF Quit, QuitWithout
  <2>2. /\ proc' \in [Pids -> Process \cup {None}]
        /\ \A q \in Pids : proc'[q] = IF q \in Owned(p) \cup {p} THEN None ELSE proc[q]
    BY <2>1, KilledEffect
  <2>3. pidfile' \in [Pids -> Pids \cup {None}]
    BY <1>4 DEF Quit, QuitWithout
  <2>4. AppsAreOn'
    <3>1. at'[p] = "off" /\ \A q \in Pids \ {p} : at'[q] = at[q]
      BY <2>1, ForgetEffect
    <3>2. \A q \in Pids \ {p} : proc'[q] = proc[q] \/ (Is(q, "rcd") /\ proc'[q] = None)
      BY <1>1, <2>2
    <3>3. QED
      BY <2>2, <3>1, <3>2 DEF AppsAreOn, Is, Running
  <2> HIDE DEF ChildIsTheDaemon, NoChildBeforeSpawn
  <2>5. TypeOK'
    BY <2>1, <2>2, <2>3, <2>4, ForgetEffect DEF AppsAreOn
  <2> USE DEF ChildIsTheDaemon, NoChildBeforeSpawn
  <2>6. ChildIsTheDaemon'
    <3>1. \A q \in Pids \ {p} : child'[q] = child[q]
      BY <2>1, ForgetEffect
    <3>2. \A q \in Pids : (Is(q, "rcd")' /\ proc'[q].owner # None)
                             => /\ proc'[q] = proc[q] /\ proc[q].owner # p
                                /\ proc[q].owner \in Pids
      BY <1>2, <2>2 DEF Is, Running, Process
    <3>3. QED
      BY <3>1, <3>2 DEF Is, Running
  <2>7. NoChildBeforeSpawn'
    BY <2>1 DEF Forget
  <2>8. QED
    BY <2>5, <2>6, <2>7
<1>5. QED
  BY <1>3, <1>4

\* A crash leaves no daemon with the instance as its owner.
LEMMA CrashStep ==
    ASSUME IInv, NEW p \in Pids, Crash(p)
    PROVE  IInv'
<1>1. proc' = Abandoned(p) /\ Forget(p) /\ UNCHANGED pidfile /\ Is(p, "app")
  BY DEF Crash
<1>2. TypeOK'
  <2>1. AppsAreOn'
    BY <1>1, AbandonedEffect, ForgetEffect, SMTT(30) DEF IInv, TypeOK, AppsAreOn, Is, Running
  <2>2. QED
    BY <1>1, <2>1, AbandonedEffect, ForgetEffect DEF IInv, TypeOK, AppsAreOn
<1>3. ChildIsTheDaemon'
  <2>1. \A q \in Pids : (Is(q, "rcd")' /\ proc'[q].owner # None)
                           => /\ q # p /\ proc'[q] = proc[q] /\ proc[q].owner # p
                              /\ proc[q].owner \in Pids
    BY <1>1, AbandonedEffect DEF IInv, TypeOK, Is, Running, Process
  <2>2. \A q \in Pids \ {p} : child'[q] = child[q]
    BY <1>1, ForgetEffect DEF IInv
  <2>3. QED
    BY <2>1, <2>2 DEF IInv, ChildIsTheDaemon, Is, Running
<1>4. NoChildBeforeSpawn'
  BY <1>1 DEF IInv, TypeOK, NoChildBeforeSpawn, Forget
<1>5. QED
  BY <1>2, <1>3, <1>4 DEF IInv

\* Other processes, and rcds that end by themselves, give no instance a daemon.
LEMMA SystemStep ==
    ASSUME IInv, NEW p \in Pids, RcdExits(p) \/ OtherStarts(p) \/ OtherEnds(p)
    PROVE  IInv'
<1> USE DEF IInv, TypeOK, ChildIsTheDaemon, NoChildBeforeSpawn, Is, Running
<1>1. CASE RcdExits(p) \/ OtherEnds(p)
  BY <1>1, KilledEffect DEF RcdExits, OtherEnds
<1>2. CASE OtherStarts(p)
  <2>1. [kind |-> "other", owner |-> None] \in Process
    BY DEF Process, Kinds
  <2>2. QED
    BY <1>2, <2>1 DEF OtherStarts, Free
<1>3. QED
  BY <1>1, <1>2

\* Every step preserves the inductive invariant of OneDaemonEach.
LEMMA NextIInv == IInv /\ [Next]_vars => IInv'
<1> SUFFICES ASSUME IInv, [Next]_vars
             PROVE  IInv'
  OBVIOUS
<1>1. CASE UNCHANGED vars
  BY <1>1 DEF vars, IInv, TypeOK, ChildIsTheDaemon, NoChildBeforeSpawn, Is, Running
<1>2. CASE Next
  BY <1>2, LaunchStep, SpawnStep, StopStep, CrashStep, SystemStep DEF Next
<1>3. QED
  BY <1>1, <1>2

\* Whatever is restarted, fails, crashes or is quit, an instance never has two
\* daemons, and the one it has is the one it would stop (Daemon::restart, Drop).
THEOREM OneDaemonForEach == Spec => []OneDaemonEach
<1>1. IInv => OneDaemonEach
  BY DEF IInv, OneDaemonEach, ChildIsTheDaemon
<1>2. QED
  BY InitIInv, NextIInv, <1>1, PTL DEF Spec

-----------------------------------------------------------------------------
(* Reaping, when no pid is given out twice *)

Reaping == {"spawn", "write", "health", "up", "bare"}

\* A step in which processes only end, and files and children are only removed,
\* keeps ReapInv if it takes no file of a surviving orphan from a reaping instance.
LEMMA EndingKeeps ==
    ASSUME IInv, ReapInv,
           used' = used,
           \A q \in Pids : /\ proc'[q] = proc[q] \/ proc'[q] = None
                           /\ pidfile'[q] = pidfile[q] \/ pidfile'[q] = None
                           /\ child'[q] = child[q] \/ child'[q] = None
                           /\ doomed'[q] = doomed[q] \/ doomed'[q] = {}
                           /\ at'[q] = "reap" => at[q] = "reap"
                           /\ at'[q] \in Reaping => \/ at[q] \in Reaping
                                                    \/ at[q] = "reap" /\ todo[q] = {},
           \A q, o \in Pids : \A c \in Orphans' :
                (at'[q] = "reap" /\ o \in todo[q] /\ pidfile[o] = c)
                    => o \in todo'[q] /\ pidfile'[o] = c
    PROVE  ReapInv'
<1>1. \A c \in Pids : c \in Orphans' => c \in Orphans /\ proc'[c] = proc[c]
  BY DEF Orphans, Is, Running
<1>2. \A c \in Pids : Is(c, "rcd")' => Is(c, "rcd") /\ proc'[c] = proc[c]
  BY DEF Is, Running
<1>3. Orphans' \subseteq Pids
  BY DEF Orphans
<1>4. PidsInUse'
  BY DEF ReapInv, PidsInUse, Running
<1>5. ChildIsOwned' /\ FileNamesOwnDaemon'
  BY <1>2 DEF ReapInv, ChildIsOwned, FileNamesOwnDaemon, IInv, TypeOK
<1>6. OrphansOwnerEnded'
  <2> SUFFICES ASSUME NEW o \in Pids, NEW c \in Orphans', pidfile'[o] = c
               PROVE  ~Running(o)'
    BY DEF OrphansOwnerEnded
  <2>1. c \in Orphans /\ c # None
    BY <1>1, <1>3
  <2>2. pidfile[o] = c
    BY <2>1
  <2>3. QED
    BY <2>1, <2>2 DEF ReapInv, OrphansOwnerEnded, Running
<1>7. DoomedStayOrphans'
  BY <1>2 DEF ReapInv, DoomedStayOrphans, Running, Orphans, Is, IInv, TypeOK
<1>8. DoomedAreListed'
  <2> SUFFICES ASSUME NEW p \in Pids, at'[p] = "reap", NEW c \in doomed'[p] \cap Orphans'
               PROVE  \E o \in todo'[p] : pidfile'[o] = c
    BY DEF DoomedAreListed
  <2>1. c \in doomed[p] \cap Orphans /\ at[p] = "reap"
    BY <1>1, <1>3
  <2>2. PICK o \in todo[p] : pidfile[o] = c
    BY <2>1 DEF ReapInv, DoomedAreListed
  <2>3. o \in Pids
    BY DEF IInv, TypeOK
  <2>4. QED
    BY <2>2, <2>3
<1>9. OrphansReaped'
  <2> SUFFICES ASSUME NEW p \in Pids, at'[p] \in Reaping, NEW c \in doomed'[p] \cap Orphans'
               PROVE  FALSE
    BY DEF OrphansReaped, Reaping
  <2>1. c \in doomed[p] \cap Orphans
    BY <1>1, <1>3
  <2>2. CASE at[p] \in Reaping
    BY <2>1, <2>2 DEF ReapInv, OrphansReaped, Reaping
  <2>3. CASE at[p] = "reap" /\ todo[p] = {}
    BY <2>1, <2>3 DEF ReapInv, DoomedAreListed
  <2>4. QED
    BY <2>2, <2>3
<1>10. QED
  BY <1>4, <1>5, <1>6, <1>7, <1>8, <1>9 DEF ReapInv

\* A fresh pid that starts, and is no orphan, is on no record yet.
LEMMA StartingKeeps ==
    ASSUME IInv, ReapInv,
           NEW c \in Pids, c \notin used, c \notin Orphans',
           used' = used \cup {c},
           UNCHANGED pidfile,
           \A q \in Pids \ {c} : proc'[q] = proc[q]
    PROVE  /\ \A q \in Pids : Running(q)' => q \in used'
           /\ \A p \in Pids : pidfile[p] # None => p \in used /\ pidfile[p] \in used /\ p # c
                                                   /\ pidfile[p] # c
           /\ FileNamesOwnDaemon'
           /\ OrphansOwnerEnded'
           /\ \A q \in Pids : q \in Orphans' <=> q \in Orphans
<1>1. \A q \in Pids : Running(q)' => q \in used'
  BY DEF ReapInv, PidsInUse, Running
<1>2. \A p \in Pids : pidfile[p] # None => p \in used /\ pidfile[p] \in used /\ p # c
                                           /\ pidfile[p] # c
  BY DEF ReapInv, PidsInUse
<1>3. ~Running(c)
  BY DEF ReapInv, PidsInUse
<1>4. \A q \in Pids : q \in Orphans' <=> q \in Orphans
  BY <1>3 DEF Orphans, Is, Running
<1>5. FileNamesOwnDaemon'
  BY <1>2 DEF ReapInv, FileNamesOwnDaemon, Is, Running
<1>6. OrphansOwnerEnded'
  <2> SUFFICES ASSUME NEW o \in Pids, NEW d \in Orphans', pidfile[o] = d
               PROVE  ~Running(o)'
    BY DEF OrphansOwnerEnded
  <2>1. d \in Pids /\ d \in Orphans /\ d # None
    BY <1>4 DEF Orphans
  <2>2. o # c
    BY <1>2, <2>1
  <2>3. QED
    BY <2>1, <2>2 DEF ReapInv, OrphansOwnerEnded, Running
<1>7. QED
  BY <1>1, <1>2, <1>4, <1>5, <1>6

\* A launch dooms the orphans on record and lists every file there is.
LEMMA LaunchReaps ==
    ASSUME Recycle = FALSE, IInv, ReapInv, NEW p \in Pids, Launch(p)
    PROVE  ReapInv'
<1>1. /\ p \in Pids /\ p \notin used /\ proc[p] = None
      /\ used' = used \cup {p}
      /\ UNCHANGED <<pidfile, child, launched>>
      /\ proc' = [proc EXCEPT ![p] = [kind |-> "app", owner |-> None]]
      /\ at' = [at EXCEPT ![p] = "reap"]
      /\ todo' = [todo EXCEPT ![p] = Files]
      /\ doomed' = [doomed EXCEPT ![p] = {c \in Orphans : \E o \in Files : pidfile[o] = c}]
  BY DEF Launch, Free, Running
<1>2. /\ proc'[p] = [kind |-> "app", owner |-> None]
      /\ \A q \in Pids \ {p} : /\ proc'[q] = proc[q] /\ at'[q] = at[q]
                               /\ todo'[q] = todo[q] /\ doomed'[q] = doomed[q]
      /\ at'[p] = "reap" /\ todo'[p] = Files
      /\ doomed'[p] = {c \in Orphans : \E o \in Files : pidfile[o] = c}
  BY <1>1 DEF IInv, TypeOK
<1>3. p \notin Orphans' /\ ~Is(p, "rcd")'
  BY <1>2 DEF Orphans, Is
<1>4. /\ \A q \in Pids : Running(q)' => q \in used'
      /\ \A q \in Pids : pidfile[q] # None => q \in used /\ pidfile[q] \in used /\ q # p
                                              /\ pidfile[q] # p
      /\ FileNamesOwnDaemon' /\ OrphansOwnerEnded'
      /\ \A q \in Pids : q \in Orphans' <=> q \in Orphans
  BY <1>1, <1>2, <1>3, StartingKeeps
<1>5. \A q \in Pids : q \in Orphans => q \in used
  BY DEF Orphans, Is, ReapInv, PidsInUse
<1>6. PidsInUse'
  BY <1>1, <1>2, <1>4, <1>5 DEF ReapInv, PidsInUse, Orphans
<1>7. ChildIsOwned'
  BY <1>1, <1>2, <1>3 DEF ReapInv, ChildIsOwned, Is, Running
<1>8. DoomedStayOrphans'
  <2> SUFFICES ASSUME NEW q \in Pids, NEW c \in doomed'[q], Running(c)'
               PROVE  c \in Orphans'
    BY DEF DoomedStayOrphans
  <2>1. c \in Pids /\ c \in used
    BY <1>2, <1>5 DEF ReapInv, PidsInUse, IInv, TypeOK, Orphans
  <2>2. Running(c)
    BY <1>1, <1>2, <2>1 DEF Running
  <2>3. QED
    BY <1>2, <1>4, <2>1, <2>2 DEF ReapInv, DoomedStayOrphans
<1>9. DoomedAreListed'
  <2> SUFFICES ASSUME NEW q \in Pids, at'[q] = "reap", NEW c \in doomed'[q] \cap Orphans'
               PROVE  \E o \in todo'[q] : pidfile[o] = c
    BY <1>1 DEF DoomedAreListed
  <2>1. c \in Orphans
    BY <1>4 DEF Orphans
  <2>2. QED
    BY <1>2, <2>1 DEF ReapInv, DoomedAreListed
<1>10. OrphansReaped'
  <2> SUFFICES ASSUME NEW q \in Pids, at'[q] \in Reaping, NEW c \in doomed'[q] \cap Orphans'
               PROVE  FALSE
    BY DEF OrphansReaped, Reaping
  <2>1. c \in Orphans /\ q # p
    BY <1>2, <1>4 DEF Orphans, Reaping
  <2>2. QED
    BY <1>2, <2>1 DEF ReapInv, OrphansReaped, Reaping
<1>11. QED
  BY <1>4, <1>6, <1>7, <1>8, <1>9, <1>10 DEF ReapInv

\* Another process that takes a pid, or a daemon that is spawned, is no orphan and
\* has a pid no file names.
LEMMA StartReaps ==
    ASSUME Recycle = FALSE, IInv, ReapInv, NEW p \in Pids, NEW c \in Pids,
           Spawn(p, c) \/ OtherStarts(c)
    PROVE  ReapInv'
<1>1. /\ c \notin used /\ proc[c] = None
      /\ used' = used \cup {c}
      /\ UNCHANGED <<pidfile, todo, doomed>>
      /\ \E d \in Process : /\ proc' = [proc EXCEPT ![c] = d]
                            /\ d.kind = "rcd" => d.owner = p
  <2>1. [kind |-> "rcd", owner |-> p] \in Process /\ [kind |-> "other", owner |-> None] \in Process
    BY DEF Process, Kinds
  <2>2. CASE Spawn(p, c)
    BY <2>1, <2>2 DEF Spawn, Free, Running
  <2>3. CASE OtherStarts(c)
    BY <2>1, <2>3 DEF OtherStarts, Free, Running
  <2>4. QED
    BY <2>2, <2>3
<1>2. /\ \A q \in Pids \ {c} : proc'[q] = proc[q]
      /\ proc'[c].kind = "rcd" => proc'[c].owner = p
  BY <1>1 DEF IInv, TypeOK
<1>3. c \notin Orphans'
  BY <1>2 DEF Orphans, Is
<1>4. /\ \A q \in Pids : Running(q)' => q \in used'
      /\ \A q \in Pids : pidfile[q] # None => q \in used /\ pidfile[q] \in used /\ q # c
                                              /\ pidfile[q] # c
      /\ FileNamesOwnDaemon' /\ OrphansOwnerEnded'
      /\ \A q \in Pids : q \in Orphans' <=> q \in Orphans
  BY <1>1, <1>2, <1>3, StartingKeeps
<1>5. /\ \A q \in Pids : child'[q] = child[q] \/ (q = p /\ child'[q] = c /\ proc'[c].owner = p)
      /\ \A q \in Pids : at'[q] = "reap" => at[q] = "reap"
      /\ \A q \in Pids : at'[q] \in Reaping => at[q] \in Reaping
  <2>1. CASE Spawn(p, c)
    BY <2>1 DEF Spawn, IInv, TypeOK, Reaping
  <2>2. CASE OtherStarts(c)
    BY <2>2 DEF OtherStarts
  <2>3. QED
    BY <2>1, <2>2
<1>6. PidsInUse'
  BY <1>1, <1>4, <1>5 DEF ReapInv, PidsInUse
<1>7. ChildIsOwned'
  <2> SUFFICES ASSUME NEW q \in Pids, NEW d \in Pids, child'[q] = d, Is(d, "rcd")'
               PROVE  proc'[d].owner = q
    BY DEF ChildIsOwned
  <2>1. CASE child'[q] = child[q]
    <3>1. d \in used
      BY <2>1 DEF ReapInv, PidsInUse
    <3>2. proc'[d] = proc[d]
      BY <1>1, <1>2, <3>1
    <3>3. QED
      BY <2>1, <3>2 DEF ReapInv, ChildIsOwned, Is, Running
  <2>2. CASE q = p /\ child'[q] = c /\ proc'[c].owner = p
    BY <2>2
  <2>3. QED
    BY <1>5, <2>1, <2>2
<1>8. DoomedStayOrphans'
  <2> SUFFICES ASSUME NEW q \in Pids, NEW d \in doomed[q], Running(d)'
               PROVE  d \in Orphans'
    BY <1>1 DEF DoomedStayOrphans
  <2>1. d \in Pids /\ d \in used
    BY DEF ReapInv, PidsInUse, IInv, TypeOK
  <2>2. Running(d)
    BY <1>1, <1>2, <2>1 DEF Running
  <2>3. QED
    BY <1>4, <2>1, <2>2 DEF ReapInv, DoomedStayOrphans
<1>9. \A q \in Pids : \A d \in doomed[q] \cap Orphans' : d \in Orphans
  BY <1>4 DEF Orphans
<1>10. DoomedAreListed'
  BY <1>1, <1>5, <1>9 DEF ReapInv, DoomedAreListed
<1>11. OrphansReaped'
  <2> SUFFICES ASSUME NEW q \in Pids, at'[q] \in Reaping, NEW d \in doomed[q] \cap Orphans'
               PROVE  FALSE
    BY <1>1 DEF OrphansReaped, Reaping
  <2>1. QED
    BY <1>5, <1>9 DEF ReapInv, OrphansReaped, Reaping
<1>12. QED
  BY <1>4, <1>6, <1>7, <1>8, <1>10, <1>11 DEF ReapInv

\* The file written names the instance's own child, which is no orphan while the
\* instance runs.
LEMMA WriteReaps ==
    ASSUME IInv, ReapInv, NEW p \in Pids, WritePidfile(p)
    PROVE  ReapInv'
<1>1. /\ at[p] = "write" /\ Running(p)
      /\ pidfile' = [pidfile EXCEPT ![p] = child[p]]
      /\ at' = [at EXCEPT ![p] = "health"]
      /\ UNCHANGED <<proc, used, child, todo, doomed, launched>>
  BY DEF WritePidfile, IInv, TypeOK, Running
<1>2. /\ pidfile'[p] = child[p]
      /\ \A q \in Pids \ {p} : pidfile'[q] = pidfile[q] /\ at'[q] = at[q]
      /\ at'[p] = "health"
      /\ Orphans' = Orphans
  BY <1>1 DEF IInv, TypeOK, Orphans, Is, Running
<1>3. \A c \in Orphans : c \in Pids /\ child[p] # c
  BY DEF ReapInv, ChildIsOwned, Orphans
<1>4. PidsInUse'
  BY <1>1, <1>2 DEF ReapInv, PidsInUse, Running
<1>5. ChildIsOwned' /\ DoomedStayOrphans'
  BY <1>1, <1>2 DEF ReapInv, ChildIsOwned, DoomedStayOrphans, Is, Running
<1>6. FileNamesOwnDaemon'
  BY <1>1, <1>2 DEF ReapInv, FileNamesOwnDaemon, ChildIsOwned, Is, Running
<1>7. OrphansOwnerEnded'
  BY <1>1, <1>2, <1>3 DEF ReapInv, OrphansOwnerEnded, Running
<1>8. DoomedAreListed'
  <2> SUFFICES ASSUME NEW q \in Pids, at[q] = "reap", NEW c \in doomed[q] \cap Orphans
               PROVE  \E o \in todo[q] : pidfile'[o] = c
    BY <1>1, <1>2 DEF DoomedAreListed
  <2>1. PICK o \in todo[q] : pidfile[o] = c
    BY DEF ReapInv, DoomedAreListed
  <2>2. o \in Pids /\ ~Running(o)
    BY <2>1 DEF ReapInv, OrphansOwnerEnded, IInv, TypeOK
  <2>3. QED
    BY <1>1, <1>2, <2>1, <2>2
<1>9. OrphansReaped'
  <2>1. \A q \in Pids : at'[q] \in Reaping => at[q] \in Reaping
    BY <1>1, <1>2 DEF Reaping
  <2>2. QED
    BY <1>1, <1>2, <2>1 DEF ReapInv, OrphansReaped, Reaping
<1>10. QED
  BY <1>4, <1>5, <1>6, <1>7, <1>8, <1>9 DEF ReapInv

\* Handling a listed file ends the orphan it names before the file goes.
LEMMA ReapFileReaps ==
    ASSUME IInv, ReapInv, NEW p \in Pids, NEW o \in Pids, ReapFile(p, o) \/ Reaped(p)
    PROVE  ReapInv'
<1>1. CASE ReapFile(p, o)
  <2>1. /\ UNCHANGED <<used, at, child, doomed>>
        /\ at[p] = "reap" /\ Running(p)
        /\ todo' = [todo EXCEPT ![p] = @ \ {o}]
    BY <1>1 DEF ReapFile, IInv, TypeOK, Running
  <2>2. /\ \A q \in Pids : proc'[q] # proc[q] => proc'[q] = None
        /\ \A q \in Pids : (q = pidfile[o] /\ o # p /\ ~Running(o)) => ~Is(q, "rcd")'
        /\ \A q \in Pids : pidfile'[q] # pidfile[q] => q = o /\ ~Running(o) /\ pidfile'[o] = None
    BY <1>1, ReapFileEffect DEF IInv
  <2>3. \A c \in Orphans' : c \in Pids /\ c \in Orphans /\ Is(c, "rcd")'
    BY <2>2 DEF Orphans, Is, Running
  <2>4. ASSUME NEW q \in Pids, NEW f \in Pids, NEW c \in Orphans',
               at'[q] = "reap", f \in todo[q], pidfile[f] = c
        PROVE  f \in todo'[q] /\ pidfile'[f] = c
    <3>1. ~Running(f)
      BY <2>3, <2>4 DEF ReapInv, OrphansOwnerEnded
    <3>2. f # o
      BY <2>1, <2>2, <2>3, <2>4, <3>1
    <3>3. QED
      BY <2>1, <2>2, <2>4, <3>2 DEF IInv, TypeOK
  <2>5. \A q \in Pids : /\ proc'[q] = proc[q] \/ proc'[q] = None
                        /\ pidfile'[q] = pidfile[q] \/ pidfile'[q] = None
    BY <2>2
  <2>6. QED
    BY <2>1, <2>4, <2>5, EndingKeeps
<1>2. CASE Reaped(p)
  <2>1. /\ UNCHANGED <<proc, used, pidfile, child, todo, doomed>>
        /\ \A q \in Pids : /\ at'[q] = "reap" => at[q] = "reap"
                           /\ at'[q] \in Reaping => \/ at[q] \in Reaping
                                                    \/ at[q] = "reap" /\ todo[q] = {}
    BY <1>2 DEF Reaped, IInv, TypeOK
  <2>2. QED
    BY <2>1, EndingKeeps
<1>3. QED
  BY <1>1, <1>2

\* A daemon that answers, one that is dropped, and processes that end by themselves.
LEMMA EndReaps ==
    ASSUME IInv, ReapInv, NEW p \in Pids,
           Healthy(p) \/ SpawnFails(p) \/ Restart(p) \/ RcdExits(p) \/ OtherEnds(p)
    PROVE  ReapInv'
<1>1. UNCHANGED <<used, pidfile, todo, doomed>>
  BY DEF Healthy, SpawnFails, Restart, RcdExits, OtherEnds
<1>2. proc' = proc \/ \E S : proc' = Killed(S)
  BY DEF Healthy, SpawnFails, Restart, RcdExits, OtherEnds
<1>3. \A q \in Pids : proc'[q] = proc[q] \/ proc'[q] = None
  BY <1>2, KilledEffect DEF IInv
<1>4. \A q \in Pids : child'[q] = child[q] \/ child'[q] = None
  BY DEF Healthy, SpawnFails, Restart, RcdExits, OtherEnds, IInv, TypeOK
<1>5. \A q \in Pids : /\ at'[q] = "reap" => at[q] = "reap"
                      /\ at'[q] \in Reaping => at[q] \in Reaping
  BY DEF Healthy, SpawnFails, Restart, RcdExits, OtherEnds, IInv, TypeOK, Reaping
<1>6. QED
  BY <1>1, <1>3, <1>4, <1>5, EndingKeeps

\* An instance that quits takes its own file and no orphan's with it.
LEMMA QuitReaps ==
    ASSUME IInv, ReapInv, NEW p \in Pids, Quit(p) \/ QuitWithout(p)
    PROVE  ReapInv'
<1>1. /\ Running(p)
      /\ \E S : proc' = Killed(S)
      /\ Forget(p)
      /\ \A q \in Pids : pidfile'[q] = pidfile[q] \/ (q = p /\ pidfile'[q] = None)
  BY DEF Quit, QuitWithout, IInv, TypeOK, Running
<1>2. \A q \in Pids : proc'[q] = proc[q] \/ proc'[q] = None
  BY <1>1, KilledEffect DEF IInv
<1>3. /\ used' = used
      /\ \A q \in Pids : /\ child'[q] = child[q] \/ child'[q] = None
                         /\ doomed'[q] = doomed[q] \/ doomed'[q] = {}
      /\ \A q \in Pids : at'[q] = "reap" => at[q] = "reap" /\ todo'[q] = todo[q]
      /\ \A q \in Pids : at'[q] \in Reaping => at[q] \in Reaping
  BY <1>1, ForgetEffect DEF IInv, Reaping
<1>4. ASSUME NEW q \in Pids, NEW f \in Pids, NEW c \in Orphans',
             at'[q] = "reap", f \in todo[q], pidfile[f] = c
      PROVE  f \in todo'[q] /\ pidfile'[f] = c
  <2>1. c \in Orphans
    BY <1>2 DEF Orphans, Is, Running
  <2>2. f # p
    BY <1>1, <1>4, <2>1 DEF ReapInv, OrphansOwnerEnded
  <2>3. QED
    BY <1>1, <1>3, <1>4, <2>2
<1>5. QED
  BY <1>1, <1>2, <1>3, <1>4, EndingKeeps

\* A crash makes orphans of the instance's own daemons only, and its file names them.
LEMMA CrashReaps ==
    ASSUME IInv, ReapInv, NEW p \in Pids, Crash(p)
    PROVE  ReapInv'
<1>1. proc' = Abandoned(p) /\ Forget(p) /\ UNCHANGED pidfile
  BY DEF Crash
<1>2. /\ proc'[p] = None
      /\ \A q \in Pids \ {p} :
            \/ proc'[q] = proc[q] /\ ~(Is(q, "rcd") /\ proc[q].owner = p)
            \/ Is(q, "rcd") /\ proc[q].owner = p /\ proc'[q] = [kind |-> "rcd", owner |-> None]
  BY <1>1, AbandonedEffect DEF IInv
<1>3. /\ used' = used
      /\ at'[p] = "off" /\ child'[p] = None /\ doomed'[p] = {}
      /\ \A q \in Pids \ {p} : /\ at'[q] = at[q] /\ child'[q] = child[q]
                               /\ todo'[q] = todo[q] /\ doomed'[q] = doomed[q]
  BY <1>1, ForgetEffect DEF IInv
<1>4. \A c \in Pids : c \in Orphans' => c \in Orphans \/ (Is(c, "rcd") /\ proc[c].owner = p)
  BY <1>2 DEF Orphans, Is, Running
<1>5. \A c \in Pids : Running(c)' => Running(c)
  BY <1>2 DEF Is, Running
<1>6. PidsInUse'
  BY <1>1, <1>3, <1>5 DEF ReapInv, PidsInUse
<1>7. ChildIsOwned'
  <2> SUFFICES ASSUME NEW q \in Pids, NEW c \in Pids, child'[q] = c, Is(c, "rcd")'
               PROVE  proc'[c].owner = q
    BY DEF ChildIsOwned
  <2>1. q # p /\ child[q] = c /\ c # p
    BY <1>2, <1>3 DEF Is, Running
  <2>2. CASE proc'[c] = proc[c]
    BY <2>1, <2>2 DEF ReapInv, ChildIsOwned, Is, Running
  <2>3. CASE Is(c, "rcd") /\ proc[c].owner = p
    BY <2>1, <2>3 DEF ReapInv, ChildIsOwned
  <2>4. QED
    BY <1>2, <2>1, <2>2, <2>3
<1>8. FileNamesOwnDaemon'
  <2> SUFFICES ASSUME NEW o \in Pids, NEW c \in Pids, pidfile[o] = c, Is(c, "rcd")',
                      proc'[c].owner # None
               PROVE  proc'[c].owner = o
    BY <1>1 DEF FileNamesOwnDaemon
  <2>1. proc'[c] = proc[c]
    BY <1>2 DEF Is, Running
  <2>2. QED
    BY <2>1 DEF ReapInv, FileNamesOwnDaemon, Is, Running
<1>9. OrphansOwnerEnded'
  <2> SUFFICES ASSUME NEW o \in Pids, NEW c \in Orphans', pidfile[o] = c
               PROVE  ~Running(o)'
    BY <1>1 DEF OrphansOwnerEnded
  <2>1. c \in Pids
    BY DEF Orphans
  <2>2. CASE c \in Orphans
    BY <1>5, <2>2 DEF ReapInv, OrphansOwnerEnded
  <2>3. CASE Is(c, "rcd") /\ proc[c].owner = p
    BY <1>2, <2>1, <2>3 DEF ReapInv, FileNamesOwnDaemon, Running
  <2>4. QED
    BY <1>4, <2>1, <2>2, <2>3
<1>10. \A q \in Pids : \A c \in doomed'[q] : q # p /\ c \in doomed[q] /\ c \in Pids
  BY <1>3 DEF IInv, TypeOK
<1>11. \A q \in Pids : \A c \in doomed'[q] : Running(c)' => c \in Orphans /\ c \in Orphans'
  <2> SUFFICES ASSUME NEW q \in Pids, NEW c \in doomed'[q], Running(c)'
               PROVE  c \in Orphans /\ c \in Orphans'
    OBVIOUS
  <2>1. c \in Orphans /\ c \in Pids
    BY <1>5, <1>10 DEF ReapInv, DoomedStayOrphans
  <2>2. proc'[c] = proc[c]
    BY <1>2, <2>1 DEF Orphans, Is, Running
  <2>3. QED
    BY <2>1, <2>2 DEF Orphans, Is, Running
<1>12. DoomedStayOrphans'
  BY <1>11 DEF DoomedStayOrphans
<1>13. \A q \in Pids : \A c \in doomed'[q] \cap Orphans' : q # p /\ c \in doomed[q] \cap Orphans
  BY <1>10, <1>11 DEF Orphans, Is
<1>14. DoomedAreListed'
  BY <1>1, <1>3, <1>13 DEF ReapInv, DoomedAreListed
<1>15. OrphansReaped'
  <2> SUFFICES ASSUME NEW q \in Pids, at'[q] \in Reaping, NEW c \in doomed'[q] \cap Orphans'
               PROVE  FALSE
    BY DEF OrphansReaped, Reaping
  <2>1. QED
    BY <1>3, <1>13 DEF ReapInv, OrphansReaped, Reaping
<1>16. QED
  BY <1>6, <1>7, <1>8, <1>9, <1>12, <1>14, <1>15 DEF ReapInv

\* No process, no file, no orphan.
LEMMA InitReapInv == Init => ReapInv
BY DEF Init, ReapInv, PidsInUse, ChildIsOwned, FileNamesOwnDaemon, OrphansOwnerEnded,
       DoomedStayOrphans, DoomedAreListed, OrphansReaped, Orphans, Is, Running

\* Every step preserves what reaping relies on.
LEMMA NextReapInv ==
    ASSUME Recycle = FALSE
    PROVE  IInv /\ ReapInv /\ [Next]_vars => ReapInv'
<1> SUFFICES ASSUME IInv, ReapInv, [Next]_vars
             PROVE  ReapInv'
  OBVIOUS
<1>1. CASE UNCHANGED vars
  BY <1>1, EndingKeeps DEF vars
<1>2. CASE Next
  BY <1>2, LaunchReaps, StartReaps, WriteReaps, ReapFileReaps, EndReaps, QuitReaps, CrashReaps
     DEF Next
<1>3. QED
  BY <1>1, <1>2

\* reap_orphan does what it is for: an instance that has reaped leaves no daemon
\* alive that was an orphan on record when it launched, although other instances
\* launch, reap, crash and quit meanwhile.
THEOREM EveryOrphanIsReaped == Recycle = FALSE /\ Spec => []OrphansReaped
<1> SUFFICES ASSUME Recycle = FALSE
             PROVE  Spec => []OrphansReaped
  OBVIOUS
<1>1. ReapInv => OrphansReaped
  BY DEF ReapInv
<1>2. QED
  BY InitIInv, NextIInv, InitReapInv, NextReapInv, <1>1, PTL DEF Spec

\* Only handling a file of its own list is a step of a reaping instance.
LEMMA OnlyReapFileHandles ==
    ASSUME IInv, Next, NEW p \in Pids,
           at[p] = "reap", at'[p] = "reap", todo'[p] # todo[p]
    PROVE  \E o \in Pids : ReapFile(p, o)
<1>1. Running(p)
  BY DEF IInv, TypeOK, Running
<1>2. ASSUME NEW q \in Pids, Launch(q)
      PROVE  todo'[p] = todo[p]
  BY <1>1, <1>2 DEF Launch, Free, IInv, TypeOK
<1>3. ASSUME NEW q \in Pids, Quit(q) \/ QuitWithout(q) \/ Crash(q)
      PROVE  todo'[p] = todo[p]
  <2>1. Forget(q)
    BY <1>3 DEF Quit, QuitWithout, Crash
  <2>2. QED
    BY <2>1, ForgetEffect DEF IInv
<1>4. ASSUME NEW q \in Pids, NEW o \in Pids, ReapFile(q, o), q # p
      PROVE  todo'[p] = todo[p]
  BY <1>4 DEF ReapFile, IInv, TypeOK
<1>5. ASSUME NEW q \in Pids, NEW c \in Pids,
             \/ Reaped(q) \/ Spawn(q, c) \/ WritePidfile(q) \/ Healthy(q) \/ SpawnFails(q)
             \/ Restart(q) \/ RcdExits(q) \/ OtherStarts(q) \/ OtherEnds(q)
      PROVE  todo'[p] = todo[p]
  BY <1>5 DEF Reaped, Spawn, WritePidfile, Healthy, SpawnFails, Restart, RcdExits,
              OtherStarts, OtherEnds
<1>6. QED
  BY <1>2, <1>3, <1>4, <1>5 DEF Next

\* "A live instance's daemon is left alone" (daemon.rs:209-211): the step that
\* handles a pid file never ends a daemon whose instance runs.
THEOREM LiveDaemonIsSpared == Recycle = FALSE /\ Spec => LiveDaemonSpared
<1> SUFFICES ASSUME Recycle = FALSE
             PROVE  Spec => LiveDaemonSpared
  OBVIOUS
<1> DEFINE Spared ==
      \A p, c \in Pids :
          (/\ at[p] = "reap" /\ at'[p] = "reap" /\ todo'[p] # todo[p]
           /\ Is(c, "rcd") /\ proc[c].owner # None)
              => proc'[c] = proc[c]
<1>1. IInv /\ ReapInv /\ [Next]_vars => Spared \/ UNCHANGED vars
  <2> SUFFICES ASSUME IInv, ReapInv, Next, NEW p \in Pids, NEW c \in Pids,
                      at[p] = "reap", at'[p] = "reap", todo'[p] # todo[p],
                      Is(c, "rcd"), proc[c].owner # None
               PROVE  proc'[c] = proc[c]
    OBVIOUS
  <2>1. PICK o \in Pids : ReapFile(p, o)
    BY OnlyReapFileHandles
  <2>2. c = pidfile[o] => Running(o)
    <3>1. child[proc[c].owner] = c /\ proc[c].owner \in Pids
      BY DEF IInv, ChildIsTheDaemon, TypeOK, Is, Running, Process
    <3>2. at[proc[c].owner] # "off"
      BY <3>1 DEF IInv, NoChildBeforeSpawn
    <3>3. Running(proc[c].owner)
      BY <3>1, <3>2 DEF IInv, TypeOK, Running
    <3>4. QED
      BY <3>3 DEF ReapInv, FileNamesOwnDaemon
  <2>3. QED
    BY <2>1, <2>2, ReapFileEffect DEF IInv
<1>2. QED
  BY InitIInv, NextIInv, InitReapInv, NextReapInv, <1>1, PTL DEF Spec, LiveDaemonSpared

=============================================================================
