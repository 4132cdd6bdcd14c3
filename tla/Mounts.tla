------------------------------- MODULE Mounts -------------------------------
(***************************************************************************)
(* Mounting remotes: the mounted set and its operations in                 *)
(* ui/src/jobs/mounts.rs, the mutex around them in Service                 *)
(* (rclone_rc/src/service.rs) and Mounts in rclone_rc/src/mount.rs, over   *)
(* rclone child processes and the mount table of the system.               *)
(*                                                                         *)
(* Every mount point lies under one mount root, the same for all instances *)
(* of rspace the user runs.  A dead FUSE mount ("stale") does not pass     *)
(* is_mount, keeps a new server from coming up, and is cleared by          *)
(* force_unmount.                                                          *)
(*                                                                         *)
(* Bounds: MaxOps operations in flight, two children per remote and owner. *)
(*                                                                         *)
(* Operators named Mut... are mutants, bugs the next definition could have; *)
(* nothing uses them but the check that the properties notice them.        *)
(***************************************************************************)
EXTENDS Naturals, FiniteSets

CONSTANTS
    Remotes,
    MaxOps,
    Remounts,  \* does the user change mount options (remount)?
    Siblings,  \* do other instances run?
    Exits,     \* does this instance end, and start again?
    None

Slots == 1 .. MaxOps

\* A remount waits for its unmount first ("before", "undoing"); then it is a
\* mount: waiting for the mutex, for the mount point, for the child to go when
\* that never came up, and for the UI thread.
Steps == {"before", "undoing", "queued", "waiting", "failing", "ok", "err"}
Op == [r : Remotes, kind : {"mount", "unmount", "remount"}, at : Steps]

ASSUME MountsAssumption ==
    /\ MaxOps \in Nat
    /\ {Remounts, Siblings, Exits} \subseteq BOOLEAN
    /\ None \notin Slots \cup Op

VARIABLES
    running, \* is there a main window
    mounted, \* Workspace.mounted
    ops,     \* slot -> a tracked operation: [r, kind, at]
    lock,    \* the operation that holds the mutex
    active,  \* the keys of Mounts.active
    kids,    \* external: rclone mount children: [r, n, of, serving]
    point    \* external: what is at each mount point

vars == <<running, mounted, ops, lock, active, kids, point>>

Kid == [r : Remotes, n : 1 .. 2, of : {"us", "sibling", "orphan"}, serving : BOOLEAN]
Points == {"clear", "live", "stale"}

TypeOK ==
    /\ running \in BOOLEAN
    /\ mounted \subseteq Remotes
    /\ ops \in [Slots -> Op \cup {None}]
    /\ lock \in Slots \cup {None}
    /\ active \subseteq Remotes
    /\ kids \subseteq Kid
    /\ point \in [Remotes -> Points]
    /\ \A r \in Remotes :
          (point[r] = "live") <=> \E k \in kids : k.r = r /\ k.serving

Init ==
    /\ running = TRUE
    /\ mounted = {}
    /\ ops = [s \in Slots |-> None]
    /\ lock = None
    /\ active = {}
    /\ kids = {}
    /\ point = [r \in Remotes |-> "clear"]

Pending(r) == {s \in Slots : ops[s] # None /\ ops[s].r = r}
Ours(r) == {k \in kids : k.r = r /\ k.of = "us"}
Servers(r) == {k \in kids : k.r = r /\ k.serving}
At(s, place) == ops[s] # None /\ ops[s].at = place

\* is_mount: something that answers covers the directory.
IsMount(r) == point[r] = "live"

\* force_unmount: the mount goes, whoever's it is, and its server exits.
ForceUnmount(r, K) == K \ Servers(r)

-----------------------------------------------------------------------------
(* The UI thread *)

Track(r, kind, place) ==
    \E s \in Slots :
        /\ ops[s] = None
        /\ ops' = [ops EXCEPT ![s] = [r |-> r, kind |-> kind, at |-> place]]

Toggle(r) ==
    /\ running
    /\ Track(r, IF r \in mounted THEN "unmount" ELSE "mount", "queued")
    /\ UNCHANGED <<running, mounted, lock, active, kids, point>>

\* apply_mount_config on a mounted remote: unmount, whatever comes of it, and
\* mount again, tracked as one operation.
Remount(r) ==
    /\ running
    /\ Remounts
    /\ r \in mounted
    /\ Track(r, "remount", "before")
    /\ UNCHANGED <<running, mounted, lock, active, kids, point>>

\* The result reaches the UI thread: success changes the set, failure does not.
Settle(s) ==
    /\ At(s, "ok") \/ At(s, "err")
    /\ mounted' = IF At(s, "err") THEN mounted
                  ELSE IF ops[s].kind = "unmount" THEN mounted \ {ops[s].r}
                  ELSE mounted \cup {ops[s].r}
    /\ ops' = [ops EXCEPT ![s] = None]
    /\ UNCHANGED <<running, lock, active, kids, point>>

-----------------------------------------------------------------------------
(* Mounts::mount and Mounts::unmount, under the mutex *)

Moves(s, place) == ops' = [ops EXCEPT ![s].at = place]

\* A mount's turn at the mutex.
MayMount(s) == At(s, "queued") /\ ops[s].kind # "unmount" /\ lock = None

\* Already mounted by a child that lives: nothing to do.
MountNothing(s) ==
    /\ MayMount(s)
    /\ ops[s].r \in active /\ Ours(ops[s].r) # {}
    /\ Moves(s, "ok")
    /\ UNCHANGED <<running, mounted, lock, active, kids, point>>

\* Otherwise drop the entry of a child that exited, spawn one, and wait.
MountSpawn(s) ==
    /\ MayMount(s)
    /\ ~(ops[s].r \in active /\ Ours(ops[s].r) # {})
    /\ lock' = s
    /\ active' = active \ {ops[s].r}
    /\ \E n \in 1 .. 2 :
          /\ \A k \in Ours(ops[s].r) : k.n # n
          /\ kids' = kids \cup {[r |-> ops[s].r, n |-> n, of |-> "us", serving |-> FALSE]}
    /\ Moves(s, "waiting")
    /\ UNCHANGED <<running, mounted, point>>

\* await_mounted looks at the directory, not at the child.
MountUp(s) ==
    /\ At(s, "waiting")
    /\ IsMount(ops[s].r)
    /\ active' = active \cup {ops[s].r}
    /\ lock' = None
    /\ Moves(s, "ok")
    /\ UNCHANGED <<running, mounted, kids, point>>

\* detach: terminate the child, clear the mount point, remove the directory.
Detach(r) ==
    /\ kids' = ForceUnmount(r, kids) \ Ours(r)
    /\ point' = [point EXCEPT ![r] = "clear"]

\* await_mounted gives up; the child may still mount until it is stopped.
MountTimeout(s) ==
    /\ At(s, "waiting")
    /\ ~IsMount(ops[s].r)
    /\ Moves(s, "failing")
    /\ UNCHANGED <<running, mounted, lock, active, kids, point>>

\* Mutant: a child that mounted after all is left alone.
MutMountFailLeavesLate(s) ==
    /\ At(s, "failing")
    /\ IF IsMount(ops[s].r) THEN UNCHANGED <<kids, point>> ELSE Detach(ops[s].r)
    /\ lock' = None
    /\ Moves(s, "err")
    /\ UNCHANGED <<running, mounted, active>>

\* The detaching of a mount that never came up; then mount returns the error.
MountFail(s) ==
    /\ At(s, "failing")
    /\ Detach(ops[s].r)
    /\ lock' = None
    /\ Moves(s, "err")
    /\ UNCHANGED <<running, mounted, active>>

MutAfterUnmountStuck(s, result) == IF ops[s].kind = "remount" THEN "before" ELSE result

\* What an unmount's end means for the operation: a remount mounts next.
AfterUnmount(s, result) == IF ops[s].kind = "remount" THEN "queued" ELSE result

IsUnmount(s) == At(s, "before") \/ (At(s, "queued") /\ ops[s].kind = "unmount")

UnmountNothing(s) ==
    /\ IsUnmount(s)
    /\ lock = None
    /\ ops[s].r \notin active
    /\ Moves(s, AfterUnmount(s, "err"))
    /\ UNCHANGED <<running, mounted, lock, active, kids, point>>

\* The entry goes at once, the detaching takes up to five seconds.
UnmountStart(s) ==
    /\ IsUnmount(s)
    /\ lock = None
    /\ ops[s].r \in active
    /\ lock' = s
    /\ active' = active \ {ops[s].r}
    /\ Moves(s, "undoing")
    /\ UNCHANGED <<running, mounted, kids, point>>

UnmountEnd(s) ==
    /\ At(s, "undoing")
    /\ Detach(ops[s].r)
    /\ lock' = None
    /\ Moves(s, AfterUnmount(s, "ok"))
    /\ UNCHANGED <<running, mounted, active>>

-----------------------------------------------------------------------------
(* rclone and the system (external) *)

\* A child mounts, if nothing is in its way; or gives up; or dies serving.
Serve(k) ==
    /\ ~k.serving
    /\ point[k.r] = "clear"
    /\ kids' = (kids \ {k}) \cup {[k EXCEPT !.serving = TRUE]}
    /\ point' = [point EXCEPT ![k.r] = "live"]
    /\ UNCHANGED <<running, mounted, ops, lock, active>>

GiveUp(k) ==
    /\ ~k.serving
    /\ kids' = kids \ {k}
    /\ UNCHANGED <<running, mounted, ops, lock, active, point>>

ServerDies(k) ==
    /\ k.serving
    /\ kids' = kids \ {k}
    /\ \E after \in {"clear", "stale"} : point' = [point EXCEPT ![k.r] = after]
    /\ UNCHANGED <<running, mounted, ops, lock, active>>

\* reap_orphans, by any launch: unmount everything under the root, kill the
\* rclones that name one of those mount points.
Reaped ==
    /\ kids' = {k \in kids : point[k.r] = "clear"}
    /\ point' = [r \in Remotes |-> "clear"]

SiblingLaunches ==
    /\ Siblings
    /\ Reaped
    /\ UNCHANGED <<running, mounted, ops, lock, active>>

SiblingMounts(r) ==
    /\ Siblings
    /\ \A k \in kids : ~(k.r = r /\ k.of = "sibling")
    /\ kids' = kids \cup {[r |-> r, n |-> 1, of |-> "sibling", serving |-> FALSE]}
    /\ UNCHANGED <<running, mounted, ops, lock, active, point>>

-----------------------------------------------------------------------------
(* The end of the instance, and the next *)

Over ==
    /\ running' = FALSE
    /\ mounted' = {} /\ active' = {} /\ lock' = None
    /\ ops' = [s \in Slots |-> None]

\* shutdown or signal_shutdown: unmount all entries, if the mutex is free and they
\* are done within four seconds; those of D are.
\* Then main returns, which kills the remaining children and leaves their
\* mounts behind, ...
Quit(D) ==
    /\ running /\ Exits
    /\ lock # None => D = {}
    /\ Over
    /\ kids' = {k \in kids : k.of # "us"} \ UNION {Servers(r) : r \in D}
    /\ point' = [r \in Remotes |->
                    IF r \in D THEN "clear"
                    ELSE IF \E k \in Servers(r) : k.of = "us" THEN "stale"
                    ELSE point[r]]

\* ... or the process exits, which leaves the children running.
Exit(D) ==
    /\ running /\ Exits
    /\ lock # None => D = {}
    /\ Over
    /\ LET left == (kids \ {k \in kids : k.r \in D /\ k.of = "us"}) \ UNION {Servers(r) : r \in D}
       IN  kids' = {IF k.of = "us" THEN [k EXCEPT !.of = "orphan"] ELSE k : k \in left}
    /\ point' = [r \in Remotes |-> IF r \in D THEN "clear" ELSE point[r]]

Launch ==
    /\ ~running
    /\ running' = TRUE
    /\ Reaped
    /\ UNCHANGED <<mounted, ops, lock, active>>

Next ==
    \/ \E r \in Remotes : Toggle(r) \/ Remount(r) \/ SiblingMounts(r)
    \/ \E s \in Slots :
          \/ MountNothing(s) \/ MountSpawn(s) \/ MountUp(s)
          \/ MountTimeout(s) \/ MountFail(s)
          \/ UnmountNothing(s) \/ UnmountStart(s) \/ UnmountEnd(s)
          \/ Settle(s)
    \/ \E k \in kids : Serve(k) \/ GiveUp(k) \/ ServerDies(k)
    \/ SiblingLaunches
    \/ \E D \in SUBSET active : Quit(D) \/ Exit(D)
    \/ Launch

Spec == Init /\ [][Next]_vars

\* Tasks run, timeouts fire, the mutex is fair.
Work(s) ==
    \/ MountNothing(s) \/ MountSpawn(s) \/ MountUp(s)
    \/ MountTimeout(s) \/ MountFail(s)
    \/ UnmountNothing(s) \/ UnmountStart(s) \/ UnmountEnd(s)

Fairness == \A s \in Slots : SF_vars(Work(s)) /\ WF_vars(Settle(s))

FairSpec == Spec /\ Fairness

-----------------------------------------------------------------------------
(* Properties *)

\* The steps that are taken under the mutex.
Works == {"waiting", "failing", "undoing"}

\* Never two children of ours for one remote, however often the user toggles
\* while an operation is on its way; and none runs that nothing would ever stop:
\* it has an entry, or the operation that holds the mutex is about to give it one
\* or to stop it.
ChildrenTracked ==
    /\ TypeOK
    /\ \A r \in Remotes : Cardinality(Ours(r)) <= 1
    /\ \A k \in kids : k.of = "us" =>
          \/ k.r \in active
          \/ lock # None /\ ops[lock].r = k.r /\ ops[lock].at \in Works

\* "The op result is authoritative, so the cached `mounted` set is updated from it
\* directly" (ui/src/jobs/mounts.rs:7-8): with nothing under way, a remote is shown as
\* mounted exactly when the service has an entry for it.
MountedIsActive ==
    \A r \in Remotes : (running /\ Pending(r) = {}) => (r \in mounted <=> r \in active)

\* Every pending toast is resolved: an operation that was started ends.
OpsEnd == \A s \in Slots : ops[s] # None ~> ops[s] = None

\* "Reap mounts left by a crashed run" (mount.rs:201): the launch of another instance
\* does not take away what this one, which runs, has mounted.
LiveMountSpared ==
    [][SiblingLaunches => {k \in kids : k.of = "us"} \subseteq kids']_vars

\* "the pid file and mount-table reap on the next launch are the backstops for any
\* survivor" (daemon.rs:196-197): once an instance runs again, no child of an
\* earlier one does.
SurvivorsReaped == running => \A k \in kids : k.of # "orphan"
=============================================================================
