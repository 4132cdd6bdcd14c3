---------------------------- MODULE MountsProofs ----------------------------
(***************************************************************************)
(* Proofs about Mounts, for any set of remotes and any number of           *)
(* operations in flight, with or without other instances, remounts and     *)
(* ends of the instance.                                                   *)
(***************************************************************************)
EXTENDS Mounts, FiniteSetTheorems, TLAPS

USE MountsAssumption DEF Works

(* The inductive invariant.  The mutex is held by the one operation that waits  *)
(* for a mount point or undoes a mount; while it is free every child of ours    *)
(* has an entry, which is why an operation that finds no entry, or one without  *)
(* a child, may spawn; and one mount point has one server.                      *)

HolderWorks == \A s \in Slots : lock = s <=> ops[s] # None /\ ops[s].at \in Works

OneChildEach ==
    \A k, l \in kids : (k.of = "us" /\ l.of = "us" /\ k.r = l.r) => k = l

Held(r) == lock # None /\ ops[lock].r = r /\ ops[lock].at \in Works

Tracked == \A k \in kids : k.of = "us" => k.r \in active \/ Held(k.r)

OneServerEach == \A k, l \in kids : (k.serving /\ l.serving /\ k.r = l.r) => k = l

NothingWhileEnded ==
    ~running => /\ lock = None /\ active = {}
                /\ \A s \in Slots : ops[s] = None
                /\ \A k \in kids : k.of # "us"

IInv ==
    /\ TypeOK
    /\ HolderWorks
    /\ OneChildEach
    /\ Tracked
    /\ OneServerEach
    /\ NothingWhileEnded

-----------------------------------------------------------------------------
(* What the model's operators do *)

\* An operation that moves on keeps its remote and its kind, and its slot.
LEMMA MovesEffect ==
    ASSUME TypeOK, NEW s \in Slots, ops[s] # None, NEW place \in Steps, Moves(s, place)
    PROVE  /\ ops' \in [Slots -> Op \cup {None}]
           /\ ops'[s] \in Op /\ ops'[s] # None /\ ops'[s].r = ops[s].r /\ ops'[s].at = place
           /\ \A t \in Slots \ {s} : ops'[t] = ops[t]
<1>1. ops[s] \in Op
  BY DEF TypeOK
<1>2. [ops[s] EXCEPT !.at = place] \in Op /\ [ops[s] EXCEPT !.at = place].r = ops[s].r
  BY <1>1 DEF Op
<1>3. [ops[s] EXCEPT !.at = place].at = place
  BY <1>1 DEF Op
<1>4. ops' = [ops EXCEPT ![s] = [ops[s] EXCEPT !.at = place]]
  BY DEF Moves
<1>5. QED
  BY <1>2, <1>3, <1>4 DEF TypeOK

\* A tracked operation takes a free slot and waits.
LEMMA TrackEffect ==
    ASSUME TypeOK, HolderWorks, NEW r \in Remotes, NEW kind \in {"mount", "unmount", "remount"},
           NEW place \in {"queued", "before"}, Track(r, kind, place)
    PROVE  \E s \in Slots : /\ lock # s
                            /\ ops' \in [Slots -> Op \cup {None}]
                            /\ ops'[s] \in Op /\ ops'[s].at = place
                            /\ \A t \in Slots \ {s} : ops'[t] = ops[t]
<1>1. PICK s \in Slots : /\ ops[s] = None
                         /\ ops' = [ops EXCEPT ![s] = [r |-> r, kind |-> kind, at |-> place]]
  BY DEF Track
<1>2. [r |-> r, kind |-> kind, at |-> place] \in Op
  BY DEF Op, Steps
<1>3. lock # s
  BY <1>1 DEF HolderWorks, At
<1>4. QED
  BY <1>1, <1>2, <1>3 DEF TypeOK

\* Detaching removes our children and every server of the remote, and clears its
\* mount point; other remotes see nothing.
LEMMA DetachEffect ==
    ASSUME TypeOK, NEW r \in Remotes, Detach(r)
    PROVE  /\ kids' \subseteq kids
           /\ \A k \in kids' : k.r = r => ~k.serving /\ k.of # "us"
           /\ \A k \in kids : k.r # r => k \in kids'
           /\ point' \in [Remotes -> Points]
           /\ \A q \in Remotes : (point'[q] = "live") <=> \E k \in kids' : k.r = q /\ k.serving
<1>1. kids' = (kids \ Servers(r)) \ Ours(r) /\ point' = [point EXCEPT ![r] = "clear"]
  BY DEF Detach, ForceUnmount
<1>2. /\ kids' \subseteq kids
      /\ \A k \in kids' : k.r = r => ~k.serving /\ k.of # "us"
      /\ \A k \in kids : k.r # r => k \in kids'
  BY <1>1 DEF Servers, Ours
<1>3. /\ point' \in [Remotes -> Points] /\ point'[r] = "clear"
      /\ \A q \in Remotes \ {r} : point'[q] = point[q]
  BY <1>1 DEF TypeOK, Points
<1>4. \A q \in Remotes : (point'[q] = "live") <=> \E k \in kids' : k.r = q /\ k.serving
  BY <1>2, <1>3 DEF TypeOK
<1>5. QED
  BY <1>2, <1>3, <1>4

\* Children that go make neither two children of ours nor two servers.
LEMMA FewerKids ==
    ASSUME OneChildEach, OneServerEach, kids' \subseteq kids
    PROVE  OneChildEach' /\ OneServerEach'
BY DEF OneChildEach, OneServerEach

\* reap_orphans leaves no server, and clears every mount point.
LEMMA ReapedEffect ==
    ASSUME TypeOK, Reaped
    PROVE  /\ kids' \subseteq kids
           /\ point' \in [Remotes -> Points]
           /\ \A q \in Remotes : (point'[q] = "live") <=> \E k \in kids' : k.r = q /\ k.serving
<1>1. kids' = {k \in kids : point[k.r] = "clear"} /\ point' = [r \in Remotes |-> "clear"]
  BY DEF Reaped
<1>2. \A k \in kids' : ~k.serving
  BY <1>1 DEF TypeOK, Kid
<1>3. QED
  BY <1>1, <1>2 DEF Points

-----------------------------------------------------------------------------
(* The steps *)

\* A window, no mount, no operation.
LEMMA InitIInv == Init => IInv
BY DEF Init, IInv, TypeOK, HolderWorks, OneChildEach, Tracked, OneServerEach,
       NothingWhileEnded, At, Points

\* The UI thread starts operations in free slots and settles finished ones; neither
\* touches the holder of the mutex.
LEMMA UiStep ==
    ASSUME IInv,
           \/ \E r \in Remotes : Toggle(r) \/ Remount(r)
           \/ \E s \in Slots : Settle(s)
    PROVE  IInv'
<1>1. UNCHANGED <<running, lock, active, kids, point>>
  BY DEF Toggle, Remount, Settle
<1>2. /\ running
      /\ mounted' \subseteq Remotes
      /\ \E s \in Slots : /\ lock # s
                          /\ ops' \in [Slots -> Op \cup {None}]
                          /\ ops'[s] = None \/ ops'[s].at \in {"queued", "before"}
                          /\ \A t \in Slots \ {s} : ops'[t] = ops[t]
  <2>1. CASE \E r \in Remotes : Toggle(r) \/ Remount(r)
    <3>1. PICK r \in Remotes : Toggle(r) \/ Remount(r)
      BY <2>1
    <3>2. running /\ mounted' = mounted
      BY <3>1 DEF Toggle, Remount
    <3>3. \E kind \in {"mount", "unmount", "remount"} : \E place \in {"queued", "before"} :
             Track(r, kind, place)
      BY <3>1 DEF Toggle, Remount
    <3>4. QED
      BY <3>2, <3>3, TrackEffect DEF IInv, TypeOK
  <2>2. CASE \E s \in Slots : Settle(s)
    <3>1. PICK s \in Slots : Settle(s)
      BY <2>2
    <3>2. /\ ops[s] # None /\ ops[s].at \in {"ok", "err"}
          /\ ops' = [ops EXCEPT ![s] = None]
      BY <3>1 DEF Settle, At
    <3>3. ops[s].r \in Remotes
      BY <3>2 DEF IInv, TypeOK, Op
    <3>4. mounted' \subseteq Remotes
      BY <3>1, <3>3 DEF Settle, IInv, TypeOK
    <3>5. lock # s /\ running
      BY <3>2 DEF IInv, HolderWorks, At, NothingWhileEnded
    <3>6. QED
      BY <3>2, <3>4, <3>5 DEF IInv, TypeOK
  <2>3. QED
    BY <2>1, <2>2
<1>3. TypeOK'
  BY <1>1, <1>2 DEF IInv, TypeOK
<1>4. HolderWorks'
  BY <1>1, <1>2 DEF IInv, HolderWorks, At
<1>5. Tracked'
  BY <1>1, <1>2 DEF IInv, TypeOK, Tracked, Held
<1>6. QED
  BY <1>1, <1>2, <1>3, <1>4, <1>5 DEF IInv, OneChildEach, OneServerEach, NothingWhileEnded

\* What a step of a running operation has to keep: of the operations only that of s
\* moves, and the mutex and the entries are right after it.
LEMMA WorkKeeps ==
    ASSUME IInv, NEW s \in Slots, ops[s] # None, NEW place \in Steps, Moves(s, place),
           UNCHANGED <<running, mounted>>,
           lock' \in {None, s}, lock \in {None, s},
           lock' = s <=> place \in Works,
           active' \subseteq Remotes,
           kids' \subseteq Kid, point' \in [Remotes -> Points],
           \A r \in Remotes : (point'[r] = "live") <=> \E k \in kids' : k.r = r /\ k.serving,
           OneChildEach', OneServerEach',
           \A k \in kids' : k.of = "us" => k.r \in active' \/ (lock' = s /\ k.r = ops[s].r)
    PROVE  IInv'
<1>1. /\ ops' \in [Slots -> Op \cup {None}]
      /\ ops'[s] \in Op /\ ops'[s] # None /\ ops'[s].r = ops[s].r /\ ops'[s].at = place
      /\ \A t \in Slots \ {s} : ops'[t] = ops[t]
  BY MovesEffect DEF IInv
<1>2. TypeOK'
  BY <1>1 DEF IInv, TypeOK
<1>3. HolderWorks'
  BY <1>1 DEF IInv, HolderWorks, At
<1>4. Tracked'
  BY <1>1 DEF Tracked, Held
<1>5. running
  BY DEF IInv, NothingWhileEnded
<1>6. QED
  BY <1>2, <1>3, <1>4, <1>5 DEF IInv, NothingWhileEnded

\* A mount spawns only when no child of ours is left for its remote.
LEMMA MountStep ==
    ASSUME IInv, NEW s \in Slots,
           MountNothing(s) \/ MountSpawn(s) \/ MountUp(s) \/ MountTimeout(s) \/ MountFail(s)
    PROVE  IInv'
<1>1. CASE MountNothing(s)
  <2>1. /\ ops[s] # None /\ lock = None /\ Moves(s, "ok")
        /\ UNCHANGED <<running, mounted, lock, active, kids, point>>
    BY <1>1 DEF MountNothing, MayMount, At
  <2>2. \A k \in kids : k.of = "us" => k.r \in active
    BY <2>1 DEF IInv, Tracked, Held
  <2>3. OneChildEach' /\ OneServerEach'
    BY <2>1, FewerKids DEF IInv
  <2>4. QED
    BY <2>1, <2>2, <2>3, WorkKeeps DEF IInv, TypeOK, Steps
<1>2. CASE MountSpawn(s)
  <2> DEFINE r == ops[s].r
  <2>1. /\ ops[s] # None /\ lock = None /\ lock' = s /\ Moves(s, "waiting")
        /\ ~(r \in active /\ Ours(r) # {})
        /\ active' = active \ {r}
        /\ UNCHANGED <<running, mounted, point>>
    BY <1>2 DEF MountSpawn, MayMount, At
  <2>2. r \in Remotes
    BY <2>1 DEF IInv, TypeOK, Op
  <2>3. PICK n \in 1 .. 2 :
           kids' = kids \cup {[r |-> r, n |-> n, of |-> "us", serving |-> FALSE]}
    BY <1>2 DEF MountSpawn
  <2> DEFINE new == [r |-> r, n |-> n, of |-> "us", serving |-> FALSE]
  <2>4. new \in Kid /\ new.r = r /\ new.of = "us" /\ ~new.serving
    BY <2>2 DEF Kid
  <2>5. \A k \in kids : k.of = "us" => k.r \in active /\ k.r # r
    BY <2>1 DEF IInv, Tracked, Held, Ours
  <2> HIDE DEF new, r
  <2>6. kids' = kids \cup {new}
    BY <2>3 DEF new
  <2>7. OneChildEach' /\ OneServerEach'
    BY <2>4, <2>5, <2>6 DEF IInv, OneChildEach, OneServerEach
  <2>8. \A q \in Remotes : (point'[q] = "live") <=> \E k \in kids' : k.r = q /\ k.serving
    BY <2>1, <2>4, <2>6 DEF IInv, TypeOK
  <2>9. \A k \in kids' : k.of = "us" => k.r \in active' \/ (lock' = s /\ k.r = ops[s].r)
    BY <2>1, <2>4, <2>5, <2>6 DEF r
  <2>10. kids' \subseteq Kid /\ active' \subseteq Remotes /\ point' \in [Remotes -> Points]
    BY <2>1, <2>4, <2>6 DEF IInv, TypeOK
  <2>11. QED
    BY <2>1, <2>7, <2>8, <2>9, <2>10, WorkKeeps DEF Steps
<1>3. CASE MountUp(s)
  <2>1. /\ ops[s] # None /\ ops[s].at = "waiting" /\ lock' = None /\ Moves(s, "ok")
        /\ active' = active \cup {ops[s].r}
        /\ UNCHANGED <<running, mounted, kids, point>>
    BY <1>3 DEF MountUp, At
  <2>2. lock = s /\ ops[s].r \in Remotes
    BY <2>1 DEF IInv, HolderWorks, At, TypeOK, Op
  <2>3. \A k \in kids : k.of = "us" => k.r \in active'
    BY <2>1, <2>2 DEF IInv, Tracked, Held
  <2>4. OneChildEach' /\ OneServerEach'
    BY <2>1, FewerKids DEF IInv
  <2>5. QED
    BY <2>1, <2>2, <2>3, <2>4, WorkKeeps DEF IInv, TypeOK, Steps
<1>4. CASE MountTimeout(s)
  <2>1. /\ ops[s] # None /\ ops[s].at = "waiting" /\ Moves(s, "failing")
        /\ UNCHANGED <<running, mounted, lock, active, kids, point>>
    BY <1>4 DEF MountTimeout, At
  <2>2. lock = s
    BY <2>1 DEF IInv, HolderWorks
  <2>3. \A k \in kids : k.of = "us" => k.r \in active \/ k.r = ops[s].r
    BY <2>2 DEF IInv, Tracked, Held
  <2>4. OneChildEach' /\ OneServerEach'
    BY <2>1, FewerKids DEF IInv
  <2>5. QED
    BY <2>1, <2>2, <2>3, <2>4, WorkKeeps DEF IInv, TypeOK, Steps
<1>5. CASE MountFail(s)
  <2>1. /\ ops[s] # None /\ ops[s].at = "failing" /\ lock' = None /\ Moves(s, "err")
        /\ Detach(ops[s].r)
        /\ UNCHANGED <<running, mounted, active>>
    BY <1>5 DEF MountFail, At
  <2>2. lock = s /\ ops[s].r \in Remotes
    BY <2>1 DEF IInv, HolderWorks, At, TypeOK, Op
  <2>3. /\ kids' \subseteq kids
        /\ \A k \in kids' : k.r = ops[s].r => ~k.serving /\ k.of # "us"
        /\ point' \in [Remotes -> Points]
        /\ \A q \in Remotes : (point'[q] = "live") <=> \E k \in kids' : k.r = q /\ k.serving
    BY <2>1, <2>2, DetachEffect DEF IInv
  <2>4. \A k \in kids' : k.of = "us" => k.r \in active'
    BY <2>1, <2>2, <2>3 DEF IInv, Tracked, Held
  <2>5. OneChildEach' /\ OneServerEach'
    BY <2>3, FewerKids DEF IInv
  <2>6. QED
    BY <2>1, <2>2, <2>3, <2>4, <2>5, WorkKeeps DEF IInv, TypeOK, Steps
<1>6. QED
  BY <1>1, <1>2, <1>3, <1>4, <1>5

\* An unmount gives up its entry and stops the child before it lets go of the mutex.
LEMMA UnmountStep ==
    ASSUME IInv, NEW s \in Slots, UnmountNothing(s) \/ UnmountStart(s) \/ UnmountEnd(s)
    PROVE  IInv'
<1>1. CASE UnmountNothing(s)
  <2>1. /\ ops[s] # None /\ lock = None
        /\ \E place \in {"queued", "err"} : Moves(s, place)
        /\ UNCHANGED <<running, mounted, lock, active, kids, point>>
    BY <1>1 DEF UnmountNothing, IsUnmount, At, AfterUnmount
  <2>2. \A k \in kids : k.of = "us" => k.r \in active
    BY <2>1 DEF IInv, Tracked, Held
  <2>3. OneChildEach' /\ OneServerEach'
    BY <2>1, FewerKids DEF IInv
  <2>4. QED
    BY <2>1, <2>2, <2>3, WorkKeeps DEF IInv, TypeOK, Steps
<1>2. CASE UnmountStart(s)
  <2>1. /\ ops[s] # None /\ lock = None /\ lock' = s /\ Moves(s, "undoing")
        /\ active' = active \ {ops[s].r}
        /\ UNCHANGED <<running, mounted, kids, point>>
    BY <1>2 DEF UnmountStart, IsUnmount, At
  <2>2. \A k \in kids : k.of = "us" => k.r \in active' \/ k.r = ops[s].r
    BY <2>1 DEF IInv, Tracked, Held
  <2>3. OneChildEach' /\ OneServerEach'
    BY <2>1, FewerKids DEF IInv
  <2>4. QED
    BY <2>1, <2>2, <2>3, WorkKeeps DEF IInv, TypeOK, Steps
<1>3. CASE UnmountEnd(s)
  <2>1. /\ ops[s] # None /\ ops[s].at = "undoing" /\ lock' = None
        /\ \E place \in {"queued", "ok"} : Moves(s, place)
        /\ Detach(ops[s].r)
        /\ UNCHANGED <<running, mounted, active>>
    BY <1>3 DEF UnmountEnd, At, AfterUnmount
  <2>2. lock = s /\ ops[s].r \in Remotes
    BY <2>1 DEF IInv, HolderWorks, At, TypeOK, Op
  <2>3. /\ kids' \subseteq kids
        /\ \A k \in kids' : k.r = ops[s].r => ~k.serving /\ k.of # "us"
        /\ point' \in [Remotes -> Points]
        /\ \A q \in Remotes : (point'[q] = "live") <=> \E k \in kids' : k.r = q /\ k.serving
    BY <2>1, <2>2, DetachEffect DEF IInv
  <2>4. \A k \in kids' : k.of = "us" => k.r \in active'
    BY <2>1, <2>2, <2>3 DEF IInv, Tracked, Held
  <2>5. OneChildEach' /\ OneServerEach'
    BY <2>3, FewerKids DEF IInv
  <2>6. QED
    BY <2>1, <2>2, <2>3, <2>4, <2>5, WorkKeeps DEF IInv, TypeOK, Steps
<1>4. QED
  BY <1>1, <1>2, <1>3

\* What a step of the system has to keep: children of ours only go.
LEMMA SystemKeeps ==
    ASSUME IInv,
           UNCHANGED <<running, mounted, ops, lock, active>>,
           kids' \subseteq Kid, point' \in [Remotes -> Points],
           \A r \in Remotes : (point'[r] = "live") <=> \E k \in kids' : k.r = r /\ k.serving,
           OneChildEach', OneServerEach',
           \A k \in kids' : k.of = "us" => \E l \in kids : l.of = "us" /\ l.r = k.r
    PROVE  IInv'
<1>1. TypeOK'
  BY DEF IInv, TypeOK
<1>2. HolderWorks'
  BY DEF IInv, HolderWorks, At
<1>3. Tracked'
  BY DEF IInv, Tracked, Held
<1>4. NothingWhileEnded'
  BY DEF IInv, NothingWhileEnded
<1>5. QED
  BY <1>1, <1>2, <1>3, <1>4 DEF IInv

\* A child starts serving where nothing is mounted, so that it is the only server.
LEMMA KidStep ==
    ASSUME IInv, NEW k \in kids, Serve(k) \/ GiveUp(k) \/ ServerDies(k)
    PROVE  IInv'
<1>1. k \in Kid /\ k.r \in Remotes
  BY DEF IInv, TypeOK, Kid
<1>2. CASE Serve(k)
  <2> DEFINE up == [k EXCEPT !.serving = TRUE]
  <2>1. up \in Kid /\ up.r = k.r /\ up.of = k.of /\ up.serving
    BY <1>1 DEF Kid
  <2> HIDE DEF up
  <2>2. /\ kids' = (kids \ {k}) \cup {up}
        /\ point' = [point EXCEPT ![k.r] = "live"]
        /\ point[k.r] = "clear" /\ ~k.serving
        /\ UNCHANGED <<running, mounted, ops, lock, active>>
    BY <1>2 DEF Serve, up
  <2>3. \A l \in kids : l.serving => l.r # k.r
    BY <1>1, <2>2 DEF IInv, TypeOK
  <2>4. OneChildEach'
    BY <2>1, <2>2 DEF IInv, OneChildEach
  <2>5. OneServerEach'
    BY <2>1, <2>2, <2>3 DEF IInv, OneServerEach
  <2>6. /\ point' \in [Remotes -> Points] /\ point'[k.r] = "live"
        /\ \A q \in Remotes \ {k.r} : point'[q] = point[q]
    BY <1>1, <2>2 DEF IInv, TypeOK, Points
  <2>7. \A r \in Remotes : (point'[r] = "live") <=> \E l \in kids' : l.r = r /\ l.serving
    BY <2>1, <2>2, <2>3, <2>6 DEF IInv, TypeOK
  <2>8. \A l \in kids' : l.of = "us" => \E m \in kids : m.of = "us" /\ m.r = l.r
    BY <2>1, <2>2
  <2>9. kids' \subseteq Kid
    BY <2>1, <2>2 DEF IInv, TypeOK
  <2>10. QED
    BY <2>2, <2>4, <2>5, <2>6, <2>7, <2>8, <2>9, SystemKeeps
<1>3. CASE GiveUp(k)
  <2>1. /\ kids' = kids \ {k} /\ ~k.serving
        /\ UNCHANGED <<running, mounted, ops, lock, active, point>>
    BY <1>3 DEF GiveUp
  <2>2. OneChildEach' /\ OneServerEach'
    BY <2>1, FewerKids DEF IInv
  <2>3. QED
    BY <2>1, <2>2, SystemKeeps DEF IInv, TypeOK
<1>4. CASE ServerDies(k)
  <2>1. /\ kids' = kids \ {k} /\ k.serving
        /\ UNCHANGED <<running, mounted, ops, lock, active>>
        /\ \E after \in {"clear", "stale"} : point' = [point EXCEPT ![k.r] = after]
    BY <1>4 DEF ServerDies
  <2>2. OneChildEach' /\ OneServerEach'
    BY <2>1, FewerKids DEF IInv
  <2>3. /\ point' \in [Remotes -> Points] /\ point'[k.r] # "live"
        /\ \A q \in Remotes \ {k.r} : point'[q] = point[q]
    BY <1>1, <2>1 DEF IInv, TypeOK, Points
  <2>4. \A l \in kids' : l.serving => l.r # k.r
    BY <2>1 DEF IInv, OneServerEach
  <2>5. \A r \in Remotes : (point'[r] = "live") <=> \E l \in kids' : l.r = r /\ l.serving
    BY <2>1, <2>3, <2>4 DEF IInv, TypeOK
  <2>6. QED
    BY <2>1, <2>2, <2>3, <2>5, SystemKeeps DEF IInv, TypeOK
<1>5. QED
  BY <1>2, <1>3, <1>4

\* Other instances mount for themselves, and their launches only end servers.
LEMMA SiblingStep ==
    ASSUME IInv, SiblingLaunches \/ \E r \in Remotes : SiblingMounts(r)
    PROVE  IInv'
<1>1. CASE SiblingLaunches
  <2>1. Reaped /\ UNCHANGED <<running, mounted, ops, lock, active>>
    BY <1>1 DEF SiblingLaunches
  <2>2. /\ kids' \subseteq kids /\ point' \in [Remotes -> Points]
        /\ \A q \in Remotes : (point'[q] = "live") <=> \E k \in kids' : k.r = q /\ k.serving
    BY <2>1, ReapedEffect DEF IInv
  <2>3. OneChildEach' /\ OneServerEach'
    BY <2>2, FewerKids DEF IInv
  <2>4. QED
    BY <2>1, <2>2, <2>3, SystemKeeps DEF IInv, TypeOK
<1>2. CASE \E r \in Remotes : SiblingMounts(r)
  <2>1. PICK r \in Remotes : SiblingMounts(r)
    BY <1>2
  <2> DEFINE new == [r |-> r, n |-> 1, of |-> "sibling", serving |-> FALSE]
  <2>2. new \in Kid /\ new.of # "us" /\ ~new.serving
    BY DEF Kid
  <2> HIDE DEF new
  <2>3. kids' = kids \cup {new} /\ UNCHANGED <<running, mounted, ops, lock, active, point>>
    BY <2>1 DEF SiblingMounts, new
  <2>4. OneChildEach' /\ OneServerEach'
    BY <2>2, <2>3 DEF IInv, OneChildEach, OneServerEach
  <2>5. \A q \in Remotes : (point'[q] = "live") <=> \E k \in kids' : k.r = q /\ k.serving
    BY <2>2, <2>3 DEF IInv, TypeOK
  <2>6. QED
    BY <2>2, <2>3, <2>4, <2>5, SystemKeeps DEF IInv, TypeOK
<1>3. QED
  BY <1>1, <1>2

\* What the end of an instance has to leave: nothing of ours.
LEMMA OverKeeps ==
    ASSUME IInv, Over,
           kids' \subseteq Kid, \A k \in kids' : k.of # "us",
           point' \in [Remotes -> Points],
           \A r \in Remotes : (point'[r] = "live") <=> \E k \in kids' : k.r = r /\ k.serving,
           OneServerEach'
    PROVE  IInv'
<1>1. /\ running' = FALSE /\ mounted' = {} /\ active' = {} /\ lock' = None
      /\ ops' = [s \in Slots |-> None]
  BY DEF Over
<1>2. TypeOK'
  BY <1>1 DEF TypeOK
<1>3. HolderWorks' /\ Tracked' /\ OneChildEach' /\ NothingWhileEnded'
  BY <1>1 DEF HolderWorks, At, Tracked, OneChildEach, NothingWhileEnded
<1>4. QED
  BY <1>2, <1>3 DEF IInv

\* Quitting kills the remaining children and leaves their mounts stale.
LEMMA QuitStep ==
    ASSUME IInv, NEW D \in SUBSET active, Quit(D)
    PROVE  IInv'
<1>1. /\ Over
      /\ kids' = {k \in kids : k.of # "us"} \ UNION {Servers(r) : r \in D}
      /\ point' = [r \in Remotes |->
                      IF r \in D THEN "clear"
                      ELSE IF \E k \in Servers(r) : k.of = "us" THEN "stale"
                      ELSE point[r]]
  BY DEF Quit
<1>2. \A k \in kids' : /\ k \in kids /\ k.of # "us"
                       /\ k.serving => k.r \notin D
  BY <1>1 DEF Servers
<1>3. \A k \in kids : (k.of # "us" /\ k.r \notin D) => k \in kids'
  BY <1>1 DEF Servers
<1>4. OneServerEach'
  BY <1>2 DEF IInv, OneServerEach
<1>5. point' \in [Remotes -> Points]
  BY <1>1 DEF IInv, TypeOK, Points
<1>6. ASSUME NEW r \in Remotes
      PROVE  (point'[r] = "live") <=> \E k \in kids' : k.r = r /\ k.serving
  <2>1. CASE r \in D
    BY <1>1, <1>2, <2>1
  <2>2. CASE r \notin D /\ \E k \in Servers(r) : k.of = "us"
    <3>1. point'[r] = "stale"
      BY <1>1, <2>2
    <3>2. \A k \in kids' : ~(k.r = r /\ k.serving)
      BY <1>2, <2>2 DEF IInv, OneServerEach, Servers
    <3>3. QED
      BY <3>1, <3>2
  <2>3. CASE r \notin D /\ ~\E k \in Servers(r) : k.of = "us"
    <3>1. point'[r] = point[r]
      BY <1>1, <2>3
    <3>2. \A k \in kids : (k.r = r /\ k.serving) => k \in kids'
      BY <1>3, <2>3 DEF Servers
    <3>3. QED
      BY <1>2, <3>1, <3>2 DEF IInv, TypeOK
  <2>4. QED
    BY <2>1, <2>2, <2>3
<1>7. QED
  BY <1>1, <1>2, <1>4, <1>5, <1>6, OverKeeps DEF IInv, TypeOK

\* An exit leaves the remaining children running, as nobody's.
LEMMA ExitStep ==
    ASSUME IInv, NEW D \in SUBSET active, Exit(D)
    PROVE  IInv'
<1> DEFINE left == (kids \ {k \in kids : k.r \in D /\ k.of = "us"}) \ UNION {Servers(r) : r \in D}
           lost(k) == IF k.of = "us" THEN [k EXCEPT !.of = "orphan"] ELSE k
<1>1. /\ Over
      /\ kids' = {lost(k) : k \in left}
      /\ point' = [r \in Remotes |-> IF r \in D THEN "clear" ELSE point[r]]
  BY DEF Exit
<1>2. \A k \in Kid : /\ lost(k) \in Kid /\ lost(k).of # "us"
                     /\ lost(k).r = k.r /\ lost(k).serving = k.serving
  BY DEF Kid
<1>3. \A k \in left : k \in kids /\ k \in Kid /\ (k.serving => k.r \notin D)
  BY DEF Servers, IInv, TypeOK
<1>4. \A k \in kids : k.r \notin D => k \in left
  BY DEF Servers
<1> HIDE DEF left, lost
<1>5. kids' \subseteq Kid /\ \A k \in kids' : k.of # "us"
  BY <1>1, <1>2, <1>3
<1>6. OneServerEach'
  BY <1>1, <1>2, <1>3 DEF IInv, OneServerEach
<1>7. point' \in [Remotes -> Points]
  BY <1>1 DEF IInv, TypeOK, Points
<1>8. ASSUME NEW r \in Remotes
      PROVE  (point'[r] = "live") <=> \E k \in kids' : k.r = r /\ k.serving
  <2>1. (\E k \in kids' : k.r = r /\ k.serving) <=> (\E k \in left : k.r = r /\ k.serving)
    BY <1>1, <1>2, <1>3
  <2>2. CASE r \in D
    BY <1>1, <1>3, <2>1, <2>2
  <2>3. CASE r \notin D
    BY <1>1, <1>3, <1>4, <2>1, <2>3 DEF IInv, TypeOK
  <2>4. QED
    BY <2>2, <2>3
<1>9. QED
  BY <1>1, <1>5, <1>6, <1>7, <1>8, OverKeeps

\* The next launch finds nothing of ours and reaps what is mounted.
LEMMA LaunchStep ==
    ASSUME IInv, Launch
    PROVE  IInv'
<1>1. /\ ~running /\ running' = TRUE
      /\ Reaped
      /\ UNCHANGED <<mounted, ops, lock, active>>
  BY DEF Launch
<1>2. /\ kids' \subseteq kids /\ point' \in [Remotes -> Points]
      /\ \A q \in Remotes : (point'[q] = "live") <=> \E k \in kids' : k.r = q /\ k.serving
  BY <1>1, ReapedEffect DEF IInv
<1>3. OneChildEach' /\ OneServerEach'
  BY <1>2, FewerKids DEF IInv
<1>4. TypeOK'
  BY <1>1, <1>2 DEF IInv, TypeOK
<1>5. HolderWorks' /\ Tracked' /\ NothingWhileEnded'
  BY <1>1, <1>2 DEF IInv, HolderWorks, At, Tracked, NothingWhileEnded
<1>6. QED
  BY <1>3, <1>4, <1>5 DEF IInv

\* Every step preserves the inductive invariant.
LEMMA NextIInv == IInv /\ [Next]_vars => IInv'
<1> SUFFICES ASSUME IInv, [Next]_vars
             PROVE  IInv'
  OBVIOUS
<1>1. CASE UNCHANGED vars
  BY <1>1 DEF vars, IInv, TypeOK, HolderWorks, At, OneChildEach, Tracked, Held,
              OneServerEach, NothingWhileEnded
<1>2. CASE Next
  BY <1>2, UiStep, MountStep, UnmountStep, KidStep, SiblingStep, QuitStep, ExitStep, LaunchStep
     DEF Next
<1>3. QED
  BY <1>1, <1>2

\* One child of ours at most for each remote.
LEMMA AtMostOneChild ==
    ASSUME IInv, NEW r \in Remotes
    PROVE  Cardinality(Ours(r)) <= 1
<1>1. CASE Ours(r) = {}
  BY <1>1, FS_EmptySet
<1>2. CASE Ours(r) # {}
  <2>1. PICK k \in Ours(r) : TRUE
    BY <1>2
  <2>2. Ours(r) = {k}
    BY <2>1 DEF Ours, IInv, OneChildEach
  <2>3. QED
    BY <2>2, FS_Singleton
<1>3. QED
  BY <1>1, <1>2

\* However mounts, unmounts, remounts, timeouts, dying children and other instances
\* interleave, Mounts never has two children for one remote, and every child it has
\* is one that an entry or the operation under the mutex will stop.
THEOREM EveryChildIsTracked == Spec => []ChildrenTracked
<1>1. IInv => ChildrenTracked
  BY AtMostOneChild DEF IInv, ChildrenTracked, Tracked, Held
<1>2. QED
  BY InitIInv, NextIInv, <1>1, PTL DEF Spec

=============================================================================
