---------------------------- MODULE QueryProofs ----------------------------
(***************************************************************************)
(* Proofs about Query, for every set of keys, capacity, staleness window   *)
(* and history of the remote folders.                                      *)
(***************************************************************************)
EXTENDS Query, FiniteSetTheorems, TLAPS

USE QueryAssumption

\* The cache after a successful fetch: the new value under its key, and every
\* other entry as it was or evicted.
LEMMA InsertEffect ==
    ASSUME TypeOK, NEW k \in Keys, NEW v \in Value, Insert(k, v)
    PROVE  /\ cache' \in [Keys -> Stamped \cup {None}]
           /\ cache'[k] # None
           /\ cache'[k].val = v
           /\ \A j \in Keys \ {k} : cache'[j] \in {cache[j], None}
<1> DEFINE c == [cache EXCEPT ![k] = [val |-> v, age |-> 0]]
<1>1. [val |-> v, age |-> 0] \in Stamped
  BY DEF Stamped
<1>2. /\ c \in [Keys -> Stamped \cup {None}]
      /\ c[k] = [val |-> v, age |-> 0]
      /\ \A j \in Keys \ {k} : c[j] = cache[j]
  BY <1>1 DEF TypeOK
<1>3. CASE cache' = c
  BY <1>1, <1>2, <1>3
<1>4. CASE \E o \in Oldest(c, k) : cache' = [c EXCEPT ![o] = None]
  <2>1. PICK o \in Keys \ {k} : cache' = [c EXCEPT ![o] = None]
    BY <1>4 DEF Oldest, Held
  <2> HIDE DEF c
  <2>2. QED
    BY <1>1, <1>2, <2>1
<1>5. QED
  BY <1>3, <1>4 DEF Insert

\* What spawning does to the fetches: either the key had one, or it gets one.
LEMMA SpawnEffect ==
    ASSUME TypeOK, NEW k \in Keys, NEW a \in Arrs, SpawnFetch(k, a),
           SpinnerHasFetch
    PROVE  /\ inFlight' \in SUBSET Keys
           /\ tasks' \in SUBSET Task
           /\ k \in inFlight'
           /\ inFlight' = {t.key : t \in tasks'}
           /\ \A t, u \in tasks' : t.key = u.key => t = u
           /\ \A t \in tasks' : t.phase = "ok" => t \in tasks
<1> DEFINE n == [key |-> k, arr |-> a, phase |-> "pending", ver |-> 0]
<1>1. n \in Task /\ n.key = k /\ n.phase = "pending"
  BY DEF Task
<1>2. CASE k \in inFlight /\ UNCHANGED <<inFlight, tasks>>
  BY <1>2 DEF TypeOK, SpinnerHasFetch
<1>3. CASE k \notin inFlight /\ inFlight' = inFlight \cup {k} /\ tasks' = tasks \cup {n}
  <2> HIDE DEF n
  <2>1. \A t \in tasks : t.key # k
    BY <1>3 DEF SpinnerHasFetch
  <2>2. QED
    BY <1>1, <1>3, <2>1 DEF TypeOK, SpinnerHasFetch
<1>4. QED
  BY <1>2, <1>3 DEF SpawnFetch

-----------------------------------------------------------------------------
(* The inductive invariant.  SpinnerHasFetch is what makes the completion of a  *)
(* fetch the only one of its key, CacheAgreesWithShown what lets load replace   *)
(* data by the cached value, VersionsInOrder what makes that value no older.    *)

OwnValues == \A k \in Held(cache) : cache[k].val.of = k

IInv ==
    /\ TypeOK
    /\ ShownIsCurrent
    /\ SpinnerHasFetch
    /\ StatusFitsData
    /\ CacheAgreesWithShown
    /\ OwnValues
    /\ VersionsInOrder

\* What a step that respects versions does to the screen.
NoOlder == (current' = current /\ data # None /\ data' # None) => data'.ver >= data.ver

\* An empty screen, no cache and no fetch satisfy the inductive invariant.
LEMMA InitIInv == Init => IInv
BY DEF Init, IInv, TypeOK, Status, ShownIsCurrent, SpinnerHasFetch, Busy, StatusFitsData,
       CacheAgreesWithShown, OwnValues, Held, VersionsInOrder

\* load: what is cached is shown at once, and a spinner always comes with a fetch.
LEMMA LoadStep ==
    ASSUME IInv, NEW k \in Keys, NEW a \in Arrs, Load(k, a)
    PROVE  IInv' /\ NoOlder
<1> USE DEF IInv
<1>1. /\ current' = k
      /\ UNCHANGED <<remote, cache, staleAfter, floor>>
  BY DEF Load
<1>2. cache[k] # None => cache[k] \in Stamped /\ cache[k].val \in Value /\ cache[k].val.of = k
  BY DEF TypeOK, Stamped, OwnValues, Held
<1>3. \/ UNCHANGED <<inFlight, tasks>> /\ status' = "Ready"
      \/ SpawnFetch(k, a)
  BY DEF Load, LoadFresh, LoadStale, LoadAfterError, LoadMiss
<1>4. /\ inFlight' \in SUBSET Keys
      /\ tasks' \in SUBSET Task
      /\ status' \in Busy => current' \in inFlight'
      /\ inFlight' = {t.key : t \in tasks'}
      /\ \A t, u \in tasks' : t.key = u.key => t = u
      /\ \A t \in tasks' : t.phase = "ok" => t \in tasks
  <2>1. CASE UNCHANGED <<inFlight, tasks>> /\ status' = "Ready"
    BY <2>1 DEF TypeOK, SpinnerHasFetch, Busy
  <2>2. CASE SpawnFetch(k, a)
    BY <1>1, <2>2, SpawnEffect
  <2>3. QED
    BY <1>3, <2>1, <2>2
<1>5. \/ cache[k] # None /\ data' = cache[k].val /\ status' \in {"Ready", "Revalidating"}
      \/ cache[k] = None /\ data' = None /\ status' \in {"Loading", "Error"}
  BY DEF Load, LoadFresh, LoadStale, LoadAfterError, LoadMiss, StatusFitsData
<1>6. TypeOK'
  BY <1>1, <1>2, <1>4, <1>5 DEF TypeOK, Status
<1>7. ShownIsCurrent' /\ StatusFitsData' /\ CacheAgreesWithShown' /\ OwnValues'
  BY <1>1, <1>2, <1>5 DEF ShownIsCurrent, StatusFitsData, CacheAgreesWithShown, OwnValues, Held
<1>8. SpinnerHasFetch'
  BY <1>4 DEF SpinnerHasFetch
<1>9. VersionsInOrder'
  BY <1>1, <1>2, <1>4, <1>5 DEF VersionsInOrder, Held, TypeOK
<1>10. NoOlder
  BY <1>1, <1>2, <1>5 DEF NoOlder, CacheAgreesWithShown, Value
<1>11. QED
  BY <1>6, <1>7, <1>8, <1>9, <1>10

\* What reload and invalidate share: the rows stay, a spinner gets its fetch.
LEMMA RefetchEffect ==
    ASSUME IInv, current \in Keys, NEW a \in Arrs, Refetch(a)
    PROVE  /\ UNCHANGED <<current, data>>
           /\ status' \in Status
           /\ StatusFitsData' /\ SpinnerHasFetch'
           /\ inFlight' \in SUBSET Keys
           /\ tasks' \in SUBSET Task
           /\ \A t \in tasks' : t.phase = "ok" => t \in tasks
<1>1. UNCHANGED <<current, data>> /\ SpawnFetch(current, a)
  BY DEF Refetch
<1>2. status' = IF data # None THEN "Revalidating"
                ELSE IF status = "Error" THEN "Error" ELSE "Loading"
  BY DEF Refetch
<1>3. /\ inFlight' \in SUBSET Keys
      /\ tasks' \in SUBSET Task
      /\ current \in inFlight'
      /\ inFlight' = {t.key : t \in tasks'}
      /\ \A t, u \in tasks' : t.key = u.key => t = u
      /\ \A t \in tasks' : t.phase = "ok" => t \in tasks
  BY <1>1, SpawnEffect DEF IInv
<1>4. StatusFitsData'
  BY <1>1, <1>2 DEF StatusFitsData
<1>5. SpinnerHasFetch'
  BY <1>1, <1>3 DEF SpinnerHasFetch
<1>6. QED
  BY <1>1, <1>2, <1>3, <1>4, <1>5 DEF Status

\* reload leaves the rows and the cache alone.
LEMMA ReloadStep ==
    ASSUME IInv, NEW a \in Arrs, Reload(a)
    PROVE  IInv' /\ NoOlder
<1>1. current \in Keys /\ Refetch(a) /\ UNCHANGED <<remote, cache, staleAfter, floor>>
  BY DEF Reload, IInv, TypeOK
<1>2. QED
  BY <1>1, RefetchEffect
     DEF IInv, TypeOK, ShownIsCurrent, CacheAgreesWithShown, OwnValues, Held, VersionsInOrder,
         NoOlder, Value

\* invalidate drops an entry; the rows on screen and the fetches stay in order.
LEMMA InvalidateStep ==
    ASSUME IInv, NEW k \in Keys, NEW a \in Arrs, Invalidate(k, a)
    PROVE  IInv' /\ NoOlder
<1>1. /\ cache' = [cache EXCEPT ![k] = None]
      /\ floor' = [floor EXCEPT ![k] = remote[k]]
      /\ UNCHANGED <<remote, staleAfter>>
  BY DEF Invalidate
<1>2. /\ UNCHANGED <<current, data>>
      /\ status' \in Status
      /\ StatusFitsData' /\ SpinnerHasFetch'
      /\ inFlight' \in SUBSET Keys
      /\ tasks' \in SUBSET Task
      /\ \A t \in tasks' : t.phase = "ok" => t \in tasks
  <2>1. CASE current = k /\ Refetch(a)
    BY <2>1, RefetchEffect
  <2>2. CASE UNCHANGED <<view, inFlight, tasks>>
    BY <2>2 DEF view, IInv, TypeOK, StatusFitsData, SpinnerHasFetch
  <2>3. QED
    BY <2>1, <2>2 DEF Invalidate
<1>3. /\ cache' \in [Keys -> Stamped \cup {None}]
      /\ \A j \in Keys : cache'[j] \in {cache[j], None}
  BY <1>1 DEF IInv, TypeOK
<1>4. TypeOK'
  BY <1>1, <1>2, <1>3 DEF IInv, TypeOK
<1>5. ShownIsCurrent' /\ CacheAgreesWithShown' /\ OwnValues' /\ NoOlder
  BY <1>1, <1>2, <1>3
     DEF IInv, TypeOK, ShownIsCurrent, CacheAgreesWithShown, OwnValues, Held, NoOlder, Value
<1>6. VersionsInOrder'
  BY <1>1, <1>2, <1>3 DEF IInv, TypeOK, VersionsInOrder, Held, Task
<1>7. QED
  BY <1>2, <1>4, <1>5, <1>6 DEF IInv

\* Sorting changes neither whose rows they are nor which version they show.
LEMMA SortingEffect ==
    ASSUME NEW a \in Arrs
    PROVE  /\ \A v \in Value : /\ SortedRows(v, a) \in Value
                               /\ SortedRows(v, a).of = v.of
                               /\ SortedRows(v, a).ver = v.ver
           /\ \A e \in Stamped : /\ SortedEntry(e, a) \in Stamped
                                 /\ SortedEntry(e, a).val = SortedRows(e.val, a)
<1>1. \A v \in Value : /\ SortedRows(v, a) \in Value
                       /\ SortedRows(v, a).of = v.of
                       /\ SortedRows(v, a).ver = v.ver
  BY DEF SortedRows, Value
<1>2. \A e \in Stamped : /\ SortedEntry(e, a) \in Stamped
                         /\ SortedEntry(e, a).val = SortedRows(e.val, a)
  BY <1>1 DEF SortedEntry, Stamped
<1>3. QED
  BY <1>1, <1>2

\* update_current changes both copies of the rows in the same way.
LEMMA UpdateCurrentStep ==
    ASSUME IInv, NEW a \in Arrs, UpdateCurrent(a)
    PROVE  IInv' /\ NoOlder
<1>1. UNCHANGED <<remote, staleAfter, current, status, inFlight, tasks, floor>>
  BY DEF UpdateCurrent
<1>2. /\ data = None => data' = None
      /\ data # None => data' = SortedRows(data, a)
  BY DEF UpdateCurrent
<1>3. data # None => /\ data' \in Value
                     /\ data'.of = data.of
                     /\ data'.ver = data.ver
  BY <1>2, SortingEffect DEF IInv, TypeOK
<1>4. \A k \in Keys : cache'[k] =
         IF k = current /\ cache[k] # None THEN SortedEntry(cache[k], a) ELSE cache[k]
  BY DEF UpdateCurrent
<1>5. \A k \in Keys : /\ cache[k] = None => cache'[k] = None
                      /\ cache[k] # None => /\ cache'[k] \in Stamped
                                            /\ cache'[k].val.of = cache[k].val.of
                                            /\ cache'[k].val.ver = cache[k].val.ver
  <2> SUFFICES ASSUME NEW k \in Keys, cache[k] # None
               PROVE  /\ cache'[k] \in Stamped
                      /\ cache'[k].val.of = cache[k].val.of
                      /\ cache'[k].val.ver = cache[k].val.ver
    BY <1>4
  <2>1. cache[k] \in Stamped /\ cache[k].val \in Value
    BY DEF IInv, TypeOK, Stamped
  <2>2. QED
    BY <1>4, <2>1, SortingEffect
<1>6. cache' \in [Keys -> Stamped \cup {None}]
  <2>1. cache' = [k \in Keys |-> cache'[k]]
    BY DEF UpdateCurrent
  <2>2. QED
    BY <1>5, <2>1
<1>7. TypeOK'
  BY <1>1, <1>2, <1>3, <1>6 DEF IInv, TypeOK
<1>8. ShownIsCurrent' /\ StatusFitsData' /\ SpinnerHasFetch' /\ NoOlder
  BY <1>1, <1>2, <1>3
     DEF IInv, TypeOK, ShownIsCurrent, StatusFitsData, SpinnerHasFetch, NoOlder, Value
<1>9. CacheAgreesWithShown'
  <2> SUFFICES ASSUME data # None, cache'[current] # None
               PROVE  cache'[current].val = data'
    BY <1>1, <1>2 DEF CacheAgreesWithShown
  <2>1. current \in Keys
    BY DEF IInv, TypeOK, ShownIsCurrent, Value
  <2>2. cache[current] # None /\ cache[current] \in Stamped
    BY <1>5, <2>1 DEF IInv, TypeOK
  <2>3. cache'[current] = SortedEntry(cache[current], a) /\ cache[current].val = data
    BY <1>4, <2>1, <2>2 DEF IInv, CacheAgreesWithShown
  <2>4. QED
    BY <1>2, <2>2, <2>3, SortingEffect
<1>10. OwnValues'
  BY <1>5, <1>6 DEF IInv, OwnValues, Held
<1>11. VersionsInOrder'
  BY <1>1, <1>2, <1>3, <1>5, <1>6 DEF IInv, TypeOK, VersionsInOrder, Held, Task
<1>12. QED
  BY <1>7, <1>8, <1>9, <1>10, <1>11 DEF IInv

\* A fetch that settles: only the current folder's reaches the screen, and what
\* it replaces is no newer.
LEMMA SettleStep ==
    ASSUME IInv, NEW t \in tasks, Settle(t)
    PROVE  IInv' /\ NoOlder
<1> DEFINE v == [of |-> t.key, ver |-> t.ver, arr |-> t.arr]
<1>1. /\ inFlight' = inFlight \ {t.key}
      /\ tasks' = tasks \ {t}
      /\ UNCHANGED <<remote, staleAfter, current, floor>>
  BY DEF Settle
<1>2. t \in Task /\ t.key \in Keys /\ v \in Value /\ v.of = t.key /\ v.ver = t.ver
  BY DEF IInv, TypeOK, Task, Value
<1>3. /\ inFlight' = {u.key : u \in tasks'}
      /\ \A u, w \in tasks' : u.key = w.key => u = w
      /\ \A u \in tasks' : u.key # t.key
  BY <1>1 DEF IInv, SpinnerHasFetch
<1>4. CASE SettleOk(t)
  <2>1. /\ cache' \in [Keys -> Stamped \cup {None}]
        /\ cache'[t.key] # None
        /\ cache'[t.key].val = v
        /\ \A j \in Keys \ {t.key} : cache'[j] \in {cache[j], None}
    <3>1. Insert(t.key, v)
      BY <1>4 DEF SettleOk
    <3> HIDE DEF v
    <3>2. QED
      BY <1>2, <3>1, InsertEffect DEF IInv
  <2>2. /\ t.phase = "ok"
        /\ data' = IF current = t.key THEN v ELSE data
        /\ status' = IF current = t.key THEN "Ready" ELSE status
    BY <1>4 DEF SettleOk
  <2> HIDE DEF v
  <2>3. TypeOK'
    BY <1>1, <1>2, <2>1, <2>2 DEF IInv, TypeOK, Status
  <2>4. ShownIsCurrent' /\ StatusFitsData'
    BY <1>1, <1>2, <2>2 DEF IInv, TypeOK, ShownIsCurrent, StatusFitsData
  <2>5. SpinnerHasFetch'
    BY <1>1, <1>3, <2>2 DEF IInv, SpinnerHasFetch, Busy
  <2>6. CacheAgreesWithShown' /\ OwnValues'
    <3>1. CacheAgreesWithShown'
      <4>1. CASE current = t.key
        BY <1>1, <2>1, <2>2, <4>1 DEF CacheAgreesWithShown
      <4>2. CASE current # t.key /\ data # None
        <5>1. current \in Keys \ {t.key}
          BY <4>2 DEF IInv, TypeOK, ShownIsCurrent, Value
        <5>2. QED
          BY <1>1, <2>1, <2>2, <4>2, <5>1 DEF IInv, CacheAgreesWithShown
      <4>3. CASE current # t.key /\ data = None
        BY <2>2, <4>3 DEF CacheAgreesWithShown
      <4>4. QED
        BY <4>1, <4>2, <4>3
    <3>2. \A j \in Keys : cache'[j] # None => cache'[j].val.of = j
      BY <1>2, <2>1 DEF IInv, OwnValues, Held
    <3>3. QED
      BY <3>1, <3>2 DEF OwnValues, Held
  <2>7. VersionsInOrder'
    <3>1. t.ver <= remote[t.key]
      BY <2>2 DEF IInv, VersionsInOrder
    <3>2. QED
      BY <1>1, <1>2, <1>3, <2>1, <2>2, <3>1 DEF IInv, TypeOK, VersionsInOrder, Held, Task
  <2>8. NoOlder
    BY <1>1, <1>2, <2>2 DEF IInv, TypeOK, NoOlder, VersionsInOrder, ShownIsCurrent, Value, Task
  <2>9. QED
    BY <2>3, <2>4, <2>5, <2>6, <2>7, <2>8 DEF IInv
<1>5. CASE SettleFailed(t)
  <2>1. /\ UNCHANGED <<cache, data>>
        /\ status' = IF current # t.key THEN status
                     ELSE IF data # None THEN "Ready" ELSE "Error"
    BY <1>5 DEF SettleFailed
  <2>2. TypeOK'
    BY <1>1, <2>1 DEF IInv, TypeOK, Status
  <2>3. ShownIsCurrent' /\ CacheAgreesWithShown' /\ OwnValues' /\ VersionsInOrder' /\ NoOlder
    BY <1>1, <2>1
       DEF IInv, TypeOK, ShownIsCurrent, CacheAgreesWithShown, OwnValues, Held, VersionsInOrder,
           NoOlder, Value
  <2>4. StatusFitsData'
    BY <1>1, <1>2, <2>1 DEF IInv, TypeOK, StatusFitsData
  <2>5. SpinnerHasFetch'
    BY <1>1, <1>3, <2>1 DEF IInv, SpinnerHasFetch, Busy
  <2>6. QED
    BY <2>2, <2>3, <2>4, <2>5 DEF IInv
<1>6. QED
  BY <1>4, <1>5 DEF Settle

\* A call that ends, well or badly: its task moves on, nothing else does.
LEMMA CallEndsStep ==
    ASSUME IInv, NEW t \in tasks, Answer(t) \/ Fail(t)
    PROVE  IInv' /\ NoOlder
<1>1. UNCHANGED <<remote, cache, staleAfter, current, data, status, inFlight, floor>>
  BY DEF Answer, Fail, view
<1>2. PICK u \in Task : /\ tasks' = (tasks \ {t}) \cup {u}
                        /\ u.key = t.key
                        /\ u.phase = "ok" => u.ver = remote[t.key]
  <2>1. t \in Task /\ remote[t.key] \in Nat
    BY DEF IInv, TypeOK, Task
  <2>2. CASE Answer(t)
    <3>1. [t EXCEPT !.phase = "ok", !.ver = remote[t.key]] \in Task
      BY <2>1 DEF Task
    <3>2. QED
      BY <2>1, <2>2, <3>1 DEF Answer, Task
  <2>3. CASE Fail(t)
    <3>1. [t EXCEPT !.phase = "failed"] \in Task
      BY <2>1 DEF Task
    <3>2. QED
      BY <2>1, <2>3, <3>1 DEF Fail, Task
  <2>4. QED
    BY <2>2, <2>3
<1>3. SpinnerHasFetch'
  BY <1>1, <1>2 DEF IInv, SpinnerHasFetch
<1>4. VersionsInOrder'
  BY <1>1, <1>2 DEF IInv, TypeOK, VersionsInOrder, Held, Task, Value, ShownIsCurrent
<1>5. TypeOK'
  BY <1>1, <1>2 DEF IInv, TypeOK
<1>6. QED
  BY <1>1, <1>3, <1>4, <1>5
     DEF IInv, TypeOK, ShownIsCurrent, StatusFitsData, CacheAgreesWithShown, OwnValues, Held,
         NoOlder, Value

\* A folder that changes elsewhere only moves ahead of what was read of it.
LEMMA ChangeStep ==
    ASSUME IInv, NEW k \in Keys, Change(k)
    PROVE  IInv' /\ NoOlder
<1>1. /\ UNCHANGED <<cache, staleAfter, current, data, status, inFlight, tasks, floor>>
      /\ remote' \in [Keys -> Nat]
      /\ \A j \in Keys : remote[j] <= remote'[j]
  BY DEF Change, view, IInv, TypeOK
<1>2. VersionsInOrder'
  BY <1>1 DEF IInv, TypeOK, VersionsInOrder, Held, Task, Value, Stamped
<1>3. QED
  BY <1>1, <1>2
     DEF IInv, TypeOK, ShownIsCurrent, StatusFitsData, SpinnerHasFetch, CacheAgreesWithShown,
         OwnValues, Held, NoOlder, Value

\* Ageing an entry changes neither its rows nor which entries there are.
LEMMA TickStep ==
    ASSUME IInv, Tick
    PROVE  IInv' /\ NoOlder
<1>1. UNCHANGED <<remote, staleAfter, current, data, status, inFlight, tasks, floor>>
  BY DEF Tick, view
<1>2. \A e \in Stamped : Older(e) \in Stamped /\ Older(e).val = e.val
  BY DEF Older, Stamped
<1>3. /\ cache' \in [Keys -> Stamped \cup {None}]
      /\ \A k \in Keys : cache'[k] # None => /\ cache[k] # None
                                             /\ cache'[k].val = cache[k].val
  <2>1. /\ cache' = [k \in Keys |-> Older(cache[k])]
        /\ Older(None) = None
    BY DEF Tick, Older
  <2>2. QED
    BY <1>2, <2>1 DEF IInv, TypeOK
<1>4. TypeOK' /\ ShownIsCurrent' /\ StatusFitsData' /\ SpinnerHasFetch' /\ NoOlder
  BY <1>1, <1>3
     DEF IInv, TypeOK, ShownIsCurrent, StatusFitsData, SpinnerHasFetch, NoOlder, Value
<1>5. CacheAgreesWithShown'
  BY <1>1, <1>3 DEF IInv, TypeOK, CacheAgreesWithShown, ShownIsCurrent, Value
<1>6. OwnValues'
  BY <1>3 DEF IInv, OwnValues, Held
<1>7. VersionsInOrder'
  BY <1>1, <1>3 DEF IInv, TypeOK, VersionsInOrder, Held, Task
<1>8. QED
  BY <1>4, <1>5, <1>6, <1>7 DEF IInv

\* set_stale_after changes the window alone.
LEMMA SetStaleAfterStep ==
    ASSUME IInv, NEW s \in StaleAfters, SetStaleAfter(s)
    PROVE  IInv' /\ NoOlder
BY DEF SetStaleAfter, view, IInv, TypeOK, ShownIsCurrent, StatusFitsData, SpinnerHasFetch,
       CacheAgreesWithShown, OwnValues, Held, VersionsInOrder, NoOlder, Value

\* The invariant is inductive, and no step shows an older reading.
LEMMA NextStep == IInv /\ [Next]_vars => IInv' /\ NoOlder
<1> SUFFICES ASSUME IInv, [Next]_vars PROVE IInv' /\ NoOlder
  OBVIOUS
<1>1. ASSUME NEW k \in Keys, NEW a \in Arrs, Load(k, a) PROVE IInv' /\ NoOlder
  BY <1>1, LoadStep
<1>2. ASSUME NEW k \in Keys, NEW a \in Arrs, Invalidate(k, a) PROVE IInv' /\ NoOlder
  BY <1>2, InvalidateStep
<1>3. ASSUME NEW a \in Arrs, Reload(a) PROVE IInv' /\ NoOlder
  BY <1>3, ReloadStep
<1>4. ASSUME NEW a \in Arrs, UpdateCurrent(a) PROVE IInv' /\ NoOlder
  BY <1>4, UpdateCurrentStep
<1>5. ASSUME NEW s \in StaleAfters, SetStaleAfter(s) PROVE IInv' /\ NoOlder
  BY <1>5, SetStaleAfterStep
<1>6. ASSUME NEW t \in tasks, Settle(t) PROVE IInv' /\ NoOlder
  BY <1>6, SettleStep
<1>7. ASSUME NEW t \in tasks, Answer(t) \/ Fail(t) PROVE IInv' /\ NoOlder
  BY <1>7, CallEndsStep
<1>8. ASSUME NEW k \in Keys, Change(k) PROVE IInv' /\ NoOlder
  BY <1>8, ChangeStep
<1>9. CASE Tick
  BY <1>9, TickStep
<1>10. CASE UNCHANGED vars
  BY <1>10 DEF vars, IInv, TypeOK, ShownIsCurrent, StatusFitsData, SpinnerHasFetch,
               CacheAgreesWithShown, OwnValues, Held, VersionsInOrder, NoOlder, Value
<1>11. QED
  BY <1>1, <1>2, <1>3, <1>4, <1>5, <1>6, <1>7, <1>8, <1>9, <1>10 DEF Next

-----------------------------------------------------------------------------
\* Query's state is well formed in every behaviour: statuses, cached values and
\* fetches are what query.rs and cache.rs declare them to be.
THEOREM TypeCorrect == Spec => []TypeOK
<1>1. IInv => TypeOK
  BY DEF IInv
<1>2. QED
  BY <1>1, InitIInv, NextStep, PTL DEF Spec

\* The race guard: no answer, however late, puts another folder's rows on screen.
THEOREM ShownIsAlwaysCurrent == Spec => []ShownIsCurrent
<1>1. IInv => ShownIsCurrent
  BY DEF IInv
<1>2. QED
  BY <1>1, InitIInv, NextStep, PTL DEF Spec

\* The dedup never leaves a spinner without a fetch to end it.
THEOREM SpinnerAlwaysHasFetch == Spec => []SpinnerHasFetch
<1>1. IInv => SpinnerHasFetch
  BY DEF IInv
<1>2. QED
  BY <1>1, InitIInv, NextStep, PTL DEF Spec

\* Errors and spinners never hide rows; rows are there whenever the status says so.
THEOREM StatusAlwaysFitsData == Spec => []StatusFitsData
<1>1. IInv => StatusFitsData
  BY DEF IInv
<1>2. QED
  BY <1>1, InitIInv, NextStep, PTL DEF Spec

\* The two copies of the current rows never drift apart.
THEOREM CacheAlwaysAgrees == Spec => []CacheAgreesWithShown
<1>1. IInv => CacheAgreesWithShown
  BY DEF IInv
<1>2. QED
  BY <1>1, InitIInv, NextStep, PTL DEF Spec

\* A folder that stays on screen never goes back to an earlier reading of it.
THEOREM ShowsNothingOlder == Spec => NeverOlder
<1>1. IInv /\ [Next]_vars =>
        [(current' = current /\ data # None /\ data' # None) => data'.ver >= data.ver]_vars
  BY NextStep DEF NoOlder
<1>2. QED
  BY <1>1, InitIInv, NextStep, PTL DEF Spec, NeverOlder

-----------------------------------------------------------------------------
(* Capacity.  Held(cache) is finite even when Keys is not, and one eviction per *)
(* insertion is enough because the bound held before.                           *)

Bounded ==
    /\ IsFiniteSet(Held(cache))
    /\ Cardinality(Held(cache)) <= MaxEntries

\* A step that caches no new key keeps the bound.
LEMMA ShrinkKeepsBound ==
    ASSUME Bounded, Held(cache)' \subseteq Held(cache)
    PROVE  Bounded'
<1>1. IsFiniteSet(Held(cache)') /\ Cardinality(Held(cache)') <= Cardinality(Held(cache))
  BY FS_Subset DEF Bounded
<1>2. Cardinality(Held(cache)') \in Nat /\ Cardinality(Held(cache)) \in Nat
  BY <1>1, FS_CardinalityType DEF Bounded
<1>3. QED
  BY <1>1, <1>2 DEF Bounded

\* An insertion over capacity evicts exactly one other entry.
LEMMA InsertKeepsBound ==
    ASSUME TypeOK, Bounded, NEW k \in Keys, NEW v \in Value, Insert(k, v)
    PROVE  Bounded'
<1> DEFINE c == [cache EXCEPT ![k] = [val |-> v, age |-> 0]]
<1>1. [val |-> v, age |-> 0] # None
  <2>1. [val |-> v, age |-> 0] \in Stamped
    BY DEF Stamped
  <2>2. QED
    BY <2>1
<1>2. /\ Held(c) = Held(cache) \cup {k}
      /\ \A o \in Keys : Held([c EXCEPT ![o] = None]) = Held(c) \ {o}
  BY <1>1 DEF Held, TypeOK
<1> HIDE DEF c
<1>3. /\ IsFiniteSet(Held(c))
      /\ Cardinality(Held(c)) \in Nat
      /\ Cardinality(Held(c)) <= MaxEntries + 1
  <2>1. /\ IsFiniteSet(Held(cache) \cup {k})
        /\ Cardinality(Held(cache) \cup {k}) = IF k \in Held(cache) THEN Cardinality(Held(cache))
                                              ELSE Cardinality(Held(cache)) + 1
    BY FS_AddElement DEF Bounded
  <2>2. Cardinality(Held(cache)) \in Nat
    BY FS_CardinalityType DEF Bounded
  <2>3. QED
    BY <1>2, <2>1, <2>2 DEF Bounded
<1>4. CASE Cardinality(Held(c)) <= MaxEntries /\ cache' = c
  BY <1>3, <1>4 DEF Bounded
<1>5. CASE \E o \in Oldest(c, k) : cache' = [c EXCEPT ![o] = None]
  <2>1. PICK o \in Keys : o \in Held(c) /\ cache' = [c EXCEPT ![o] = None]
    BY <1>5 DEF Oldest, Held
  <2>2. Held(cache)' = Held(c) \ {o}
    BY <1>2, <2>1
  <2>3. /\ IsFiniteSet(Held(c) \ {o})
        /\ Cardinality(Held(c) \ {o}) = Cardinality(Held(c)) - 1
    BY <1>3, <2>1, FS_RemoveElement
  <2>4. QED
    BY <1>3, <2>2, <2>3 DEF Bounded
<1>6. QED
  BY <1>4, <1>5 DEF Insert, c

\* No step takes the cache over its capacity.
LEMMA BoundedStep == IInv /\ Bounded /\ [Next]_vars => Bounded'
<1> SUFFICES ASSUME IInv, Bounded, [Next]_vars PROVE Bounded'
  OBVIOUS
<1>1. ASSUME NEW t \in tasks, Settle(t) PROVE Bounded'
  <2>1. CASE SettleOk(t)
    <3> DEFINE v == [of |-> t.key, ver |-> t.ver, arr |-> t.arr]
    <3>1. t.key \in Keys /\ v \in Value /\ TypeOK
      BY DEF IInv, TypeOK, Task, Value
    <3>2. Insert(t.key, v)
      BY <2>1 DEF SettleOk
    <3> HIDE DEF v
    <3>3. QED
      BY <3>1, <3>2, InsertKeepsBound
  <2>2. CASE SettleFailed(t)
    BY <2>2, ShrinkKeepsBound DEF SettleFailed, Held
  <2>3. QED
    BY <1>1, <2>1, <2>2 DEF Settle
<1>2. ASSUME NEW k \in Keys, NEW a \in Arrs, Invalidate(k, a) PROVE Bounded'
  <2>1. Held(cache)' \subseteq Held(cache)
    BY <1>2 DEF Invalidate, Held, IInv, TypeOK
  <2>2. QED
    BY <2>1, ShrinkKeepsBound
<1>3. ASSUME NEW a \in Arrs, UpdateCurrent(a) PROVE Bounded'
  <2>1. Held(cache)' \subseteq Held(cache)
    BY <1>3 DEF UpdateCurrent, Held
  <2>2. QED
    BY <2>1, ShrinkKeepsBound
<1>4. CASE Tick
  <2>1. Held(cache)' \subseteq Held(cache)
    BY <1>4 DEF Tick, Held, Older
  <2>2. QED
    BY <2>1, ShrinkKeepsBound
<1>5. CASE UNCHANGED cache
  BY <1>5 DEF Bounded, Held
<1>6. QED
  BY <1>1, <1>2, <1>3, <1>4, <1>5
     DEF Next, Load, Reload, SetStaleAfter, Answer, Fail, Change, vars

\* The cache never outgrows its capacity and files each value under its own key.
THEOREM CacheAlwaysSound == Spec => []CacheIsSound
<1>1. Init => Bounded
  <2>1. ASSUME Init PROVE Held(cache) = {}
    BY <2>1 DEF Init, Held
  <2>2. QED
    BY <2>1, FS_EmptySet DEF Bounded
<1>2. IInv /\ Bounded => CacheIsSound
  BY DEF IInv, OwnValues, Bounded, CacheIsSound
<1>3. QED
  BY <1>1, <1>2, InitIInv, NextStep, BoundedStep, PTL DEF Spec

-----------------------------------------------------------------------------
(* Query implements what ShownListing promises a view. *)

Shown == INSTANCE ShownListing WITH Versions <- Nat

\* Every step of the cache, a fetch or the clock is a step of the listing on
\* screen, or leaves it as it is.  (That busy states end is left to TLC.)
THEOREM ImplementsShownListing == Spec => Shown!Init /\ [][Shown!Next]_(Shown!shown)
<1>1. Init => Shown!Init
  BY DEF Init, Shown!Init
<1>2. IInv /\ [Next]_vars => [Shown!Next]_(Shown!shown)
  <2> SUFFICES ASSUME IInv, [Next]_vars
               PROVE  Shown!Next \/ UNCHANGED view
    BY DEF view, Shown!shown
  <2> USE DEF IInv
  <2>1. ASSUME NEW k \in Keys, NEW a \in Arrs, Load(k, a) PROVE Shown!Next \/ UNCHANGED view
    <3>1. current' = k
      BY <2>1 DEF Load
    <3>2. CASE cache[k] # None
      <4>1. data' \in Shown!Rows(k) /\ status' \in {"Ready", "Revalidating"}
        <5>1. cache[k].val \in Value /\ cache[k].val.of = k
          BY <3>2 DEF TypeOK, Stamped, OwnValues, Held
        <5>2. cache[k].val \in Shown!Rows(k)
          BY <5>1 DEF Value, Shown!Rows
        <5>3. QED
          BY <2>1, <3>2, <5>2 DEF Load, LoadFresh, LoadStale, LoadAfterError, LoadMiss
      <4>2. QED
        BY <3>1, <4>1 DEF Shown!Next, Shown!Open
    <3>3. CASE LoadMiss(k, a)
      BY <3>1, <3>3 DEF LoadMiss, Shown!Next, Shown!Open
    <3>4. CASE LoadAfterError(k, a)
      BY <3>1, <3>4 DEF LoadAfterError, view
    <3>5. QED
      BY <2>1, <3>2, <3>3, <3>4 DEF Load, LoadFresh, LoadStale
  <2>2. ASSUME NEW a \in Arrs, current # None, Refetch(a) PROVE Shown!Next \/ UNCHANGED view
    <3>1. CASE data # None
      BY <2>2, <3>1 DEF Refetch, StatusFitsData, view, Shown!Next, Shown!Refresh
    <3>2. CASE data = None
      BY <2>2, <3>2 DEF Refetch, StatusFitsData, TypeOK, Status, view
    <3>3. QED
      BY <3>1, <3>2
  <2>3. ASSUME NEW k \in Keys, NEW a \in Arrs, Invalidate(k, a)
        PROVE Shown!Next \/ UNCHANGED view
    BY <2>2, <2>3 DEF Invalidate
  <2>4. ASSUME NEW a \in Arrs, Reload(a) PROVE Shown!Next \/ UNCHANGED view
    BY <2>2, <2>4 DEF Reload
  <2>5. ASSUME NEW a \in Arrs, UpdateCurrent(a) PROVE Shown!Next \/ UNCHANGED view
    BY <2>5 DEF UpdateCurrent, SortedRows, view, Shown!Next, Shown!Rearrange
  <2>6. ASSUME NEW t \in tasks, Settle(t) PROVE Shown!Next \/ UNCHANGED view
    <3>1. t.key \in Keys /\ t.ver \in Nat /\ t.arr \in Arrs /\ current' = current
      BY <2>6 DEF TypeOK, Task, Settle
    <3>2. CASE current # t.key
      BY <2>6, <3>1, <3>2 DEF Settle, SettleOk, SettleFailed, view
    <3>3. CASE current = t.key /\ SettleOk(t)
      BY <3>1, <3>3 DEF SettleOk, Shown!Next, Shown!Deliver, Shown!Rows
    <3>4. CASE current = t.key /\ SettleFailed(t)
      BY <3>1, <3>4
         DEF SettleFailed, StatusFitsData, TypeOK, Status, view, Shown!Next, Shown!GiveUp
    <3>5. QED
      BY <2>6, <3>2, <3>3, <3>4 DEF Settle
  <2>7. CASE UNCHANGED view
    BY <2>7
  <2>8. QED
    BY <2>1, <2>3, <2>4, <2>5, <2>6, <2>7
       DEF Next, SetStaleAfter, Answer, Fail, Change, Tick, vars, view
<1>3. QED
  BY <1>1, <1>2, InitIInv, NextStep, PTL DEF Spec
=============================================================================
