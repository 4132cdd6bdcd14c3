----------------------------- MODULE Lifecycle ------------------------------
(***************************************************************************)
(* The daemons of all rspace instances of one user over launches, crashes, *)
(* restarts, signals and quits: rclone_rc/src/daemon.rs, the part of       *)
(* app/src/main.rs that starts and stops it, and the process table.        *)
(*                                                                         *)
(* Instances and rcds are processes and draw from the same pids.  An       *)
(* instance records its rcd in rcd-<its pid>.pid; a launching instance     *)
(* first kills what the files of dead instances record.                    *)
(*                                                                         *)
(* Bounds: the finite set Pids; with Recycle FALSE the operating system    *)
(* never gives a pid out twice, and the runs are as long as Pids allows.   *)
(*                                                                         *)
(* Operators named Mut... are mutants, bugs the next definition could have; *)
(* nothing uses them but the check that the properties notice them.        *)
(***************************************************************************)
EXTENDS Naturals, FiniteSets

CONSTANTS
    Pids,
    Recycle, \* may the pid of a process that ended be given to another?
    None

Kinds == {"app", "rcd", "other"}
Places == {"off", "reap", "spawn", "write", "health", "up", "bare"}

\* A process: what it is and, for an rcd, the instance whose child it is; that
\* is None once the instance has ended.
Process == [kind : Kinds, owner : Pids \cup {None}]

ASSUME LifecycleAssumption == Recycle \in BOOLEAN /\ None \notin Pids \cup Process

VARIABLES
    proc,     \* external: the process table
    used,     \* external: the pids given out so far
    pidfile,  \* p -> the pid in rcd-<p>.pid, None when there is no such file
    at,       \* where the instance with this pid is
    child,    \* Daemon.child, or the child spawn_healthy has just spawned
    todo,     \* the pid files reap_orphan has listed and not yet handled
    doomed,   \* history: the orphans on record when the instance listed the files
    launched  \* history: has this instance had a healthy daemon (start vs restart)

vars == <<proc, used, pidfile, at, child, todo, doomed, launched>>

TypeOK ==
    /\ proc \in [Pids -> Process \cup {None}]
    /\ used \subseteq Pids
    /\ pidfile \in [Pids -> Pids \cup {None}]
    /\ at \in [Pids -> Places]
    /\ child \in [Pids -> Pids \cup {None}]
    /\ todo \in [Pids -> SUBSET Pids]
    /\ doomed \in [Pids -> SUBSET Pids]
    /\ launched \in [Pids -> BOOLEAN]
    /\ \A p \in Pids : (at[p] # "off") <=> (proc[p] # None /\ proc[p].kind = "app")

Init ==
    /\ proc = [p \in Pids |-> None]
    /\ used = {}
    /\ pidfile = [p \in Pids |-> None]
    /\ at = [p \in Pids |-> "off"]
    /\ child = [p \in Pids |-> None]
    /\ todo = [p \in Pids |-> {}]
    /\ doomed = [p \in Pids |-> {}]
    /\ launched = [p \in Pids |-> FALSE]

Running(p) == proc[p] # None
Is(p, kind) == Running(p) /\ proc[p].kind = kind
Free == {p \in Pids : ~Running(p) /\ (Recycle \/ p \notin used)}
Orphans == {c \in Pids : Is(c, "rcd") /\ proc[c].owner = None}
Files == {p \in Pids : pidfile[p] # None}

\* The process table once the processes of S are gone, and when instance p
\* ends without killing its children.
Killed(S) == [q \in Pids |-> IF q \in S THEN None ELSE proc[q]]
Abandoned(p) ==
    [q \in Pids |->
        IF q = p THEN None
        ELSE IF Is(q, "rcd") /\ proc[q].owner = p THEN [proc[q] EXCEPT !.owner = None]
        ELSE proc[q]]

-----------------------------------------------------------------------------
(* Daemon::start *)

\* A launch; reap_orphan lists the directory of the pid file.
Launch(p) ==
    /\ p \in Free
    /\ proc' = [proc EXCEPT ![p] = [kind |-> "app", owner |-> None]]
    /\ used' = used \cup {p}
    /\ at' = [at EXCEPT ![p] = "reap"]
    /\ todo' = [todo EXCEPT ![p] = Files]
    /\ doomed' = [doomed EXCEPT ![p] = {c \in Orphans : \E o \in Files : pidfile[o] = c}]
    /\ UNCHANGED <<pidfile, child, launched>>

MutReapFileOfAnyone(p, o) ==
    /\ at[p] = "reap"
    /\ o \in todo[p]
    /\ todo' = [todo EXCEPT ![p] = @ \ {o}]
    /\ proc' = IF o # p /\ pidfile[o] # None /\ Is(pidfile[o], "rcd")
               THEN Killed({pidfile[o]}) ELSE proc
    /\ pidfile' = IF o # p THEN [pidfile EXCEPT ![o] = None] ELSE pidfile
    /\ UNCHANGED <<used, at, child, doomed, launched>>

MutReapFileOnly(p, o) ==
    /\ at[p] = "reap"
    /\ o \in todo[p]
    /\ todo' = [todo EXCEPT ![p] = @ \ {o}]
    /\ pidfile' = IF o # p /\ ~Running(o) THEN [pidfile EXCEPT ![o] = None] ELSE pidfile
    /\ UNCHANGED <<proc, used, at, child, doomed, launched>>

\* One listed file: its owner is this very pid or runs: keep it.  Otherwise
\* terminate the recorded process if it is an rclone rcd, and remove the file.
ReapFile(p, o) ==
    /\ at[p] = "reap"
    /\ o \in todo[p]
    /\ todo' = [todo EXCEPT ![p] = @ \ {o}]
    /\ \/ /\ o = p \/ Running(o)
          /\ UNCHANGED <<proc, pidfile>>
       \/ /\ o # p /\ ~Running(o)
          /\ proc' = IF pidfile[o] # None /\ Is(pidfile[o], "rcd")
                     THEN Killed({pidfile[o]}) ELSE proc
          /\ pidfile' = [pidfile EXCEPT ![o] = None]
    /\ UNCHANGED <<used, at, child, doomed, launched>>

Reaped(p) ==
    /\ at[p] = "reap"
    /\ todo[p] = {}
    /\ at' = [at EXCEPT ![p] = "spawn"]
    /\ UNCHANGED <<proc, used, pidfile, child, todo, doomed, launched>>

\* spawn_healthy: spawn the rcd, write its pid, wait until it answers.
Spawn(p, c) ==
    /\ at[p] = "spawn"
    /\ c \in Free
    /\ proc' = [proc EXCEPT ![c] = [kind |-> "rcd", owner |-> p]]
    /\ used' = used \cup {c}
    /\ child' = [child EXCEPT ![p] = c]
    /\ at' = [at EXCEPT ![p] = "write"]
    /\ UNCHANGED <<pidfile, todo, doomed, launched>>

WritePidfile(p) ==
    /\ at[p] = "write"
    /\ pidfile' = [pidfile EXCEPT ![p] = child[p]]
    /\ at' = [at EXCEPT ![p] = "health"]
    /\ UNCHANGED <<proc, used, child, todo, doomed, launched>>

Owned(p) == {c \in Pids : c = child[p] /\ Is(c, "rcd") /\ proc[c].owner = p}

Healthy(p) ==
    /\ at[p] = "health"
    /\ Owned(p) # {}
    /\ at' = [at EXCEPT ![p] = "up"]
    /\ launched' = [launched EXCEPT ![p] = TRUE]
    /\ UNCHANGED <<proc, used, pidfile, child, todo, doomed>>

\* Any step of spawn_healthy may fail: the child is dropped, which kills it.
\* At launch the window opens without a daemon; a restart leaves the old one dead.
SpawnFails(p) ==
    /\ at[p] \in {"spawn", "write", "health"}
    /\ proc' = Killed(Owned(p))
    /\ child' = [child EXCEPT ![p] = None]
    /\ at' = [at EXCEPT ![p] = IF launched[p] THEN "up" ELSE "bare"]
    /\ UNCHANGED <<used, pidfile, todo, doomed, launched>>

-----------------------------------------------------------------------------
(* Daemon::restart, shutdown, and the ends nobody cleans up after *)

MutRestartKeepsOld(p) ==
    /\ at[p] = "up"
    /\ at' = [at EXCEPT ![p] = "spawn"]
    /\ UNCHANGED <<proc, used, pidfile, child, todo, doomed, launched>>

Restart(p) ==
    /\ at[p] = "up"
    /\ proc' = Killed(Owned(p))
    /\ child' = [child EXCEPT ![p] = None]
    /\ at' = [at EXCEPT ![p] = "spawn"]
    /\ UNCHANGED <<used, pidfile, todo, doomed, launched>>

\* What the process leaves behind in the model when it ends.
Forget(p) ==
    /\ at' = [at EXCEPT ![p] = "off"]
    /\ child' = [child EXCEPT ![p] = None]
    /\ todo' = [todo EXCEPT ![p] = {}]
    /\ doomed' = [doomed EXCEPT ![p] = {}]
    /\ launched' = [launched EXCEPT ![p] = FALSE]
    /\ UNCHANGED used

\* shutdown, on quit or on a signal, with the mutex free: kill, remove the file.
Quit(p) ==
    /\ at[p] = "up"
    /\ proc' = Killed(Owned(p) \cup {p})
    /\ pidfile' = [pidfile EXCEPT ![p] = None]
    /\ Forget(p)

\* Quit of a window without a daemon; of one whose restart holds the mutex:
\* teardown times out, main returns and dropping the runtime drops the child.
QuitWithout(p) ==
    /\ at[p] = "bare" \/ (launched[p] /\ at[p] \in {"spawn", "write", "health"})
    /\ proc' = Killed(Owned(p) \cup {p})
    /\ Forget(p)
    /\ UNCHANGED pidfile

\* A crash; or a signal while a restart holds the mutex: process::exit drops
\* nothing.
Crash(p) ==
    /\ Is(p, "app")
    /\ proc' = Abandoned(p)
    /\ Forget(p)
    /\ UNCHANGED pidfile

-----------------------------------------------------------------------------
(* The operating system (external) *)

RcdExits(c) ==
    /\ Is(c, "rcd")
    /\ proc' = Killed({c})
    /\ UNCHANGED <<used, pidfile, at, child, todo, doomed, launched>>

OtherStarts(p) ==
    /\ p \in Free
    /\ proc' = [proc EXCEPT ![p] = [kind |-> "other", owner |-> None]]
    /\ used' = used \cup {p}
    /\ UNCHANGED <<pidfile, at, child, todo, doomed, launched>>

OtherEnds(p) ==
    /\ Is(p, "other")
    /\ proc' = Killed({p})
    /\ UNCHANGED <<used, pidfile, at, child, todo, doomed, launched>>

Next ==
    \/ \E p \in Pids :
          \/ Launch(p) \/ Reaped(p)
          \/ WritePidfile(p) \/ Healthy(p) \/ SpawnFails(p)
          \/ Restart(p) \/ Quit(p) \/ QuitWithout(p) \/ Crash(p)
          \/ RcdExits(p) \/ OtherStarts(p) \/ OtherEnds(p)
          \/ \E q \in Pids : ReapFile(p, q) \/ Spawn(p, q)

Spec == Init /\ [][Next]_vars

-----------------------------------------------------------------------------
(* Properties *)

\* An instance never has two daemons, whatever was restarted or failed, and
\* the one it has is the one it would stop.
OneDaemonEach ==
    /\ TypeOK
    /\ \A c \in Pids : (Is(c, "rcd") /\ proc[c].owner # None) => child[proc[c].owner] = c

\* "A live instance's daemon is left alone" (daemon.rs:209-211): launching an
\* instance, also while others launch, crash or restart, never ends the daemon of
\* another one that runs.
LiveDaemonSpared ==
    [][\A p, c \in Pids :
          (/\ at[p] = "reap" /\ at'[p] = "reap" /\ todo'[p] # todo[p]
           /\ Is(c, "rcd") /\ proc[c].owner # None)
              => proc'[c] = proc[c]]_vars

\* Once an instance has reaped, every orphan that was on record when it
\* launched is gone.
OrphansReaped ==
    \A p \in Pids : at[p] \in {"spawn", "write", "health", "up", "bare"}
                        => doomed[p] \cap Orphans = {}

\* "Leak-proof": a daemon that outlives its instance is on record, for "a pid
\* file reap_orphaned on the next launch after a hard crash" (daemon.rs:32-34).
LeakProof == \A c \in Orphans : \E o \in Files : pidfile[o] = c
=============================================================================
