------------------------------- MODULE Query -------------------------------
(***************************************************************************)
(* The stale-while-revalidate resource every listing of the UI goes        *)
(* through: ui/src/query.rs (Query) over core/src/cache.rs (QueryCache).   *)
(*                                                                         *)
(* The UI thread runs load, reload, invalidate, update_current and         *)
(* set_stale_after; each fetch is a future that reads the remote at some   *)
(* moment after it was spawned and whose completion runs later on the UI   *)
(* thread, in any order with everything else.  A listing is abstracted to  *)
(* the version of the remote folder it was read at and the arrangement     *)
(* (sort) its rows are in.                                                 *)
(*                                                                         *)
(* Bounds: MaxVersion (how often a remote folder changes), MaxAge (ages    *)
(* saturate there: it is at least every staleness window) and MaxEntries,  *)
(* which the code fixes at 256.                                            *)
(*                                                                         *)
(* Operators named Mut... are mutants, bugs the next definition could have; *)
(* nothing uses them but the check that the properties notice them.        *)
(***************************************************************************)
EXTENDS Naturals, FiniteSets

CONSTANTS
    Keys,        \* what can be listed: (remote, path) pairs
    Arrs,        \* arrangements of a listing: sort field and direction
    StaleAfters, \* staleness windows the settings offer; None = never stale
    MaxEntries,  \* capacity of the cache
    MaxAge,      \* ages saturate here
    MaxVersion,  \* bound on the changes made to one remote folder
    None         \* Rust's Option::None

Value == [of : Keys, ver : Nat, arr : Arrs]
Stamped == [val : Value, age : 0 .. MaxAge]

ASSUME QueryAssumption ==
    /\ None \notin Keys
    /\ None \notin Value
    /\ None \notin Stamped
    /\ MaxEntries \in Nat \ {0}
    /\ MaxAge \in Nat
    /\ MaxVersion \in Nat
    /\ StaleAfters \subseteq (0 .. MaxAge) \cup {None}

VARIABLES
    remote,     \* external: the version each folder has on the remote
    cache,      \* QueryCache.entries, None where the key is not cached
    staleAfter, \* QueryCache.stale_after
    current,    \* Query.current
    data,       \* Query.data
    status,     \* Query.status
    inFlight,   \* Query.in_flight
    tasks,      \* the spawned fetch futures that have not completed
    floor       \* history: the folder's version when it was last invalidated

vars == <<remote, cache, staleAfter, current, data, status, inFlight, tasks, floor>>
view == <<current, data, status>>

Status == {"Idle", "Loading", "Revalidating", "Ready", "Error"}
Busy   == {"Loading", "Revalidating"}
Task == [key : Keys, arr : Arrs, phase : {"pending", "ok", "failed"}, ver : Nat]

TypeOK ==
    /\ remote \in [Keys -> Nat]
    /\ cache \in [Keys -> Stamped \cup {None}]
    /\ staleAfter \in StaleAfters
    /\ current \in Keys \cup {None}
    /\ data \in Value \cup {None}
    /\ status \in Status
    /\ inFlight \in SUBSET Keys
    /\ tasks \in SUBSET Task
    /\ floor \in [Keys -> Nat]

Init ==
    /\ remote = [k \in Keys |-> 0]
    /\ cache = [k \in Keys |-> None]
    /\ staleAfter \in StaleAfters
    /\ current = None
    /\ data = None
    /\ status = "Idle"
    /\ inFlight = {}
    /\ tasks = {}
    /\ floor = [k \in Keys |-> 0]

-----------------------------------------------------------------------------
(* QueryCache *)

Held(c) == {k \in Keys : c[k] # None}

MutNeverStale(k) == FALSE

\* lookup: a cached value past the window is served and refetched.
IsStale(k) == staleAfter # None /\ cache[k].age >= staleAfter

\* evict_oldest's victims.  The entry just inserted has the latest Instant, so
\* it is never the oldest; entries of equal (saturated) age are all candidates.
Oldest(c, k) ==
    {o \in Held(c) \ {k} : \A j \in Held(c) \ {k} : c[j].age <= c[o].age}

MutInsertNoEviction(k, v) == cache' = [cache EXCEPT ![k] = [val |-> v, age |-> 0]]

\* insert, then evict_oldest: the loop runs at most once since it ran before.
Insert(k, v) ==
    LET c == [cache EXCEPT ![k] = [val |-> v, age |-> 0]]
    IN  \/ /\ Cardinality(Held(c)) <= MaxEntries
           /\ cache' = c
        \/ /\ Cardinality(Held(c)) > MaxEntries
           /\ \E o \in Oldest(c, k) : cache' = [c EXCEPT ![o] = None]

-----------------------------------------------------------------------------
(* Query *)

MutSpawnFetchNoDedup(k, a) ==
    /\ inFlight' = inFlight \cup {k}
    /\ tasks' = tasks \cup {[key |-> k, arr |-> a, phase |-> "pending", ver |-> 0]}

\* The dedup: a key that is being fetched is not fetched twice.
SpawnFetch(k, a) ==
    \/ /\ k \in inFlight
       /\ UNCHANGED <<inFlight, tasks>>
    \/ /\ k \notin inFlight
       /\ inFlight' = inFlight \cup {k}
       /\ tasks' = tasks \cup {[key |-> k, arr |-> a, phase |-> "pending", ver |-> 0]}

\* load: Fresh, Stale, Miss while this key already shows an error, other Miss.
LoadFresh(k) ==
    /\ cache[k] # None
    /\ ~IsStale(k)
    /\ data' = cache[k].val
    /\ status' = "Ready"
    /\ UNCHANGED <<inFlight, tasks>>

LoadStale(k, a) ==
    /\ cache[k] # None
    /\ IsStale(k)
    /\ data' = cache[k].val
    /\ status' = "Revalidating"
    /\ SpawnFetch(k, a)

LoadAfterError(k, a) ==
    /\ cache[k] = None
    /\ current = k
    /\ status = "Error"
    /\ UNCHANGED <<data, status>>
    /\ SpawnFetch(k, a)

MutLoadMissKeepsRows(k, a) ==
    /\ cache[k] = None
    /\ ~(current = k /\ status = "Error")
    /\ status' = "Loading"
    /\ SpawnFetch(k, a)
    /\ UNCHANGED data

LoadMiss(k, a) ==
    /\ cache[k] = None
    /\ ~(current = k /\ status = "Error")
    /\ data' = None
    /\ status' = "Loading"
    /\ SpawnFetch(k, a)

Load(k, a) ==
    /\ current' = k
    /\ \/ LoadFresh(k)
       \/ LoadStale(k, a)
       \/ LoadAfterError(k, a)
       \/ LoadMiss(k, a)
    /\ UNCHANGED <<remote, cache, staleAfter, floor>>

\* The body of reload for a current key: keep data or an error visible.
Refetch(a) ==
    /\ status' = IF data # None THEN "Revalidating"
                 ELSE IF status = "Error" THEN "Error"
                 ELSE "Loading"
    /\ SpawnFetch(current, a)
    /\ UNCHANGED <<current, data>>

Reload(a) ==
    /\ current # None
    /\ Refetch(a)
    /\ UNCHANGED <<remote, cache, staleAfter, floor>>

Invalidate(k, a) ==
    /\ cache' = [cache EXCEPT ![k] = None]
    /\ floor' = [floor EXCEPT ![k] = remote[k]]
    /\ \/ current = k /\ Refetch(a)
       \/ current # k /\ UNCHANGED <<view, inFlight, tasks>>
    /\ UNCHANGED <<remote, staleAfter>>

SortedRows(v, a) == [v EXCEPT !.arr = a]
SortedEntry(e, a) == [e EXCEPT !.val = SortedRows(@, a)]

MutUpdateShownOnly(a) ==
    /\ data' = IF data = None THEN None ELSE SortedRows(data, a)
    /\ UNCHANGED <<remote, cache, staleAfter, current, status, inFlight, tasks, floor>>

\* update_current: rearrange the rows on screen and their cached copy.
UpdateCurrent(a) ==
    /\ data' = IF data = None THEN None ELSE SortedRows(data, a)
    /\ cache' = [k \in Keys |->
                    IF k = current /\ cache[k] # None
                    THEN SortedEntry(cache[k], a)
                    ELSE cache[k]]
    /\ UNCHANGED <<remote, staleAfter, current, status, inFlight, tasks, floor>>

SetStaleAfter(s) ==
    /\ staleAfter' = s
    /\ UNCHANGED <<remote, cache, view, inFlight, tasks, floor>>

MutSettleOkAnyKey(t) ==
    LET v == [of |-> t.key, ver |-> t.ver, arr |-> t.arr]
    IN  /\ t.phase = "ok"
        /\ Insert(t.key, v)
        /\ data' = v
        /\ status' = "Ready"

\* The completion spawn_fetch runs on the UI thread, success and failure.
SettleOk(t) ==
    LET v == [of |-> t.key, ver |-> t.ver, arr |-> t.arr]
    IN  /\ t.phase = "ok"
        /\ Insert(t.key, v)
        /\ data' = IF current = t.key THEN v ELSE data
        /\ status' = IF current = t.key THEN "Ready" ELSE status

SettleFailed(t) ==
    /\ t.phase = "failed"
    /\ status' = IF current # t.key THEN status
                 ELSE IF data # None THEN "Ready" ELSE "Error"
    /\ UNCHANGED <<cache, data>>

Settle(t) ==
    /\ inFlight' = inFlight \ {t.key}
    /\ tasks' = tasks \ {t}
    /\ SettleOk(t) \/ SettleFailed(t)
    /\ UNCHANGED <<remote, staleAfter, current, floor>>

-----------------------------------------------------------------------------
(* The world outside the UI thread: rclone and the clock *)

\* The listing call reads the folder, or fails (the client's read timeout
\* makes sure it does one or the other).
Answer(t) ==
    /\ t.phase = "pending"
    /\ tasks' = (tasks \ {t}) \cup {[t EXCEPT !.phase = "ok", !.ver = remote[t.key]]}
    /\ UNCHANGED <<remote, cache, staleAfter, view, inFlight, floor>>

Fail(t) ==
    /\ t.phase = "pending"
    /\ tasks' = (tasks \ {t}) \cup {[t EXCEPT !.phase = "failed"]}
    /\ UNCHANGED <<remote, cache, staleAfter, view, inFlight, floor>>

Change(k) ==
    /\ remote[k] < MaxVersion
    /\ remote' = [remote EXCEPT ![k] = @ + 1]
    /\ UNCHANGED <<cache, staleAfter, view, inFlight, tasks, floor>>

Older(e) == IF e = None \/ e.age = MaxAge THEN e ELSE [e EXCEPT !.age = @ + 1]

Tick ==
    /\ cache' = [k \in Keys |-> Older(cache[k])]
    /\ UNCHANGED <<remote, staleAfter, view, inFlight, tasks, floor>>

Next ==
    \/ \E k \in Keys, a \in Arrs : Load(k, a) \/ Invalidate(k, a)
    \/ \E a \in Arrs : Reload(a) \/ UpdateCurrent(a)
    \/ \E s \in StaleAfters : SetStaleAfter(s)
    \/ \E t \in tasks : Settle(t) \/ Answer(t) \/ Fail(t)
    \/ \E k \in Keys : Change(k)
    \/ Tick

Spec == Init /\ [][Next]_vars

\* A call ends in an answer or an error (read_timeout), the executor runs every
\* completion, time passes, and the view's poll loads its key again and again.
Poll == \E a \in Arrs : current # None /\ Load(current, a)

CallEnds(k)   == \E t \in tasks : t.key = k /\ (Answer(t) \/ Fail(t))
Completion(k) == \E t \in tasks : t.key = k /\ Settle(t)

Fairness ==
    /\ \A k \in Keys : WF_vars(CallEnds(k)) /\ WF_vars(Completion(k))
    /\ WF_vars(Tick)
    /\ WF_vars(Poll)

FairSpec == Spec /\ Fairness

-----------------------------------------------------------------------------
(* Properties *)

\* What is on screen belongs to the key being shown: a slow answer for a
\* folder the user has left never replaces the listing of the one they are in
\* (the is_current test of query.rs:186).
ShownIsCurrent == data # None => data.of = current

\* A spinner always has a fetch behind it, and exactly one: the status cannot
\* say Loading or Revalidating with nothing left to end it (the dedup of
\* query.rs:176 returns without spawning).
SpinnerHasFetch ==
    /\ status \in Busy => current \in inFlight
    /\ inFlight = {t.key : t \in tasks}
    /\ \A t, u \in tasks : t.key = u.key => t = u

\* The screen state is one of the sensible ones: an error or a first load shows
\* no rows ("Error: reached only when there was no cached data to fall back
\* on"), a ready or refreshing listing shows some.
StatusFitsData ==
    /\ status \in {"Ready", "Revalidating"} <=> data # None
    /\ status = "Idle" <=> current = None

\* The rows on screen and the cached rows of the same key are the same rows in
\* the same order, whatever was sorted, refetched or evicted in between:
\* otherwise a poll that hits the cache would make the listing jump.
CacheAgreesWithShown ==
    (data # None /\ cache[current] # None) => cache[current].val = data

\* The cache stays within its capacity and files every value under its own key.
CacheIsSound ==
    /\ Cardinality(Held(cache)) <= MaxEntries
    /\ \A k \in Held(cache) : cache[k].val.of = k

\* Refreshing never goes back in time: while a key stays on screen, what it
\* shows is only ever replaced by a later reading of the folder.  Completions
\* run in any order, so this rests on there being one fetch per key.
NeverOlder ==
    [][(current' = current /\ data # None /\ data' # None)
          => data'.ver >= data.ver]_vars

\* Why: an answer that has been read but not yet applied is at least as recent
\* as everything cached or shown of its key, and nothing is newer than the
\* folder itself.
VersionsInOrder ==
    /\ data # None => data.ver <= remote[data.of]
    /\ \A k \in Held(cache) : cache[k].val.ver <= remote[k]
    /\ \A t \in tasks : t.phase = "ok" =>
          /\ t.ver <= remote[t.key]
          /\ cache[t.key] # None => cache[t.key].val.ver <= t.ver
          /\ (data # None /\ data.of = t.key) => data.ver <= t.ver

\* A view that stays on a folder shows its rows again and again, and once the
\* folder no longer changes shows nothing but its latest rows, if listing calls
\* stop failing and a staleness window is set.
Converges ==
    \A k \in Keys :
        (/\ <>[](current = k /\ staleAfter # None)
         /\ <>[][\A t \in tasks : ~Fail(t)]_vars)
            => /\ []<>(data # None)
               /\ <>[](data # None => data.ver = remote[k])

\* The promise of invalidate (query.rs:144-147): once a key is invalidated, its
\* cached listing is one read after that ("refetch it now", "the next load of
\* them refetches").
InvalidatedIsRefetched ==
    \A k \in Held(cache) : cache[k].val.ver >= floor[k]

\* The promise of invalidate and reload to keep "the stale data visible
\* meanwhile" (query.rs:119-120, 146): rows of the current key stay on screen
\* until other rows of that key replace them.
StaleRowsStayVisible ==
    [][(data # None /\ current' = current) => data' # None]_vars
=============================================================================
