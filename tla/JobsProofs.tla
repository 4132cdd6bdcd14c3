----------------------------- MODULE JobsProofs -----------------------------
(***************************************************************************)
(* Proofs about Jobs, for any number of operations, of finished rows kept, *)
(* of cancellations in flight and of restarts of the daemon, and whatever  *)
(* calls fail.                                                             *)
(***************************************************************************)
EXTENDS Jobs, FiniteSetTheorems, WellFoundedInduction, TLAPS

USE JobsAssumption

(* The inductive invariant of every behaviour.                             *)

NewRow == [jobid |-> None, done |-> FALSE, cancelled |-> FALSE, error |-> FALSE]

\* Ids are handed out once: nothing speaks of one that was not.
IdsInOrder ==
    /\ \A i \in Ids : i >= seq =>
          i \notin Live /\ run[i] = i /\ told[i] = <<>> /\ fate[i] = "none"
    /\ \A i \in Ids : i < seq => run[i] < seq
    /\ \A s \in submits : s.id < seq
    /\ \A c \in cancels : c.id < seq
    /\ \A q \in poll.queue : q[1] < seq
    /\ \A n \in DOMAIN listed : listed[n] < seq

\* A row whose submission is in flight is as it was created; before the daemon has
\* taken it no job of it ran.
SubmitsFit ==
    /\ \A s, t \in submits : s.id = t.id => s = t
    /\ \A s \in submits : /\ s.id \in Live /\ rows[s.id] = NewRow /\ told[s.id] = <<>>
                          /\ s.phase = "sent" => fate[s.id] = "none"

\* The daemon has not numbered more jobs than were submitted.
Waiting == {i \in Ids : \E s \in submits : s.id = i /\ s.phase = "sent"}
Numbered == nextNum + Cardinality(Waiting) <= seq + 1

\* A call in flight names the job of its row for as long as the row is there.
CallsFit ==
    /\ \A c \in cancels : c.id \in Live => rows[c.id].jobid = c.num
    /\ \A q \in poll.queue : q[1] \in Live => rows[q[1]].jobid = q[2]
    /\ poll.at \in {"status", "apply"} => poll.queue # {}

\* What a row shows, and what was announced and refreshed for it.
OutcomesFit ==
    /\ \A i \in Ids : /\ told[i] \in {<<>>, <<"ok">>, <<"failed">>}
                      /\ (told[i] = <<"ok">> /\ run[i] \in Mutating) => i \in invalidated
    /\ \A i \in Live :
          /\ (told[i] # <<>> \/ rows[i].cancelled \/ rows[i].error) => Done(i)
          /\ rows[i].error <=> told[i] = <<"failed">>
          /\ (Done(i) /\ ~rows[i].error /\ ~rows[i].cancelled) => told[i] = <<"ok">>

\* The daemon lists only jobs it numbered, and every running one under its number.
ListFits ==
    /\ \A n \in DOMAIN listed :
          n < nextNum /\ fate[listed[n]] \in {"running", "ok", "failed", "stopped"}
    /\ \A i \in Live : (rows[i].jobid # None /\ fate[i] = "running") =>
          rows[i].jobid \in DOMAIN listed /\ listed[rows[i].jobid] = i
    /\ \A s \in submits : (s.phase = "ok" /\ fate[s.id] = "running") =>
          s.num \in DOMAIN listed /\ listed[s.num] = s.id

IInv ==
    /\ TypeOK
    /\ IdsInOrder
    /\ SubmitsFit
    /\ Numbered
    /\ CallsFit
    /\ OutcomesFit
    /\ ListFits

(* Where no reply was lost an error means that nothing runs, so that of the rows and  *)
(* the running jobs only one is about an operation.                                   *)
HeardRuns(i) == fate[i] = "running" /\ Heard(i)
Engaged(i) == i \in Live \/ HeardRuns(i)

ErrorsAreOver ==
    /\ \A s \in submits : (s.phase = "err" /\ Heard(s.id)) => fate[s.id] = "none"
    /\ \A i \in Live : rows[i].error => ~HeardRuns(i)
    /\ (poll.at = "apply" /\ poll.status = "failed" /\ Asked[1] \in Live) =>
          fate[Asked[1]] # "running"

RunsOnce == \A i, j \in Ids : (Engaged(i) /\ Engaged(j) /\ run[i] = run[j]) => i = j

(* Until its daemon is replaced, the number of a row names one job: its own.  *)
NumbersFit ==
    /\ \A i \in Live : rows[i].jobid # None =>
          /\ fate[i] # "none"
          /\ Traced(i) => /\ rows[i].jobid < nextNum
                          /\ rows[i].jobid \in DOMAIN listed => listed[rows[i].jobid] = i
    /\ \A s \in submits : s.phase = "ok" =>
          /\ s.num \in Nums /\ fate[s.id] # "none"
          /\ Traced(s.id) => /\ s.num < nextNum
                             /\ s.num \in DOMAIN listed => listed[s.num] = s.id

AnswersFit ==
    /\ \A s \in submits : (s.phase = "err" /\ Traced(s.id)) => fate[s.id] = "none"
    /\ (poll.at = "apply" /\ Asked[1] \in Live /\ Traced(Asked[1])) =>
          /\ poll.status = "ok" => fate[Asked[1]] = "ok"
          /\ poll.status = "failed" => fate[Asked[1]] \in {"failed", "stopped"}

(* An answered cancellation leaves nothing running, or failed.             *)
StopsFit ==
    \A c \in cancels : (c.phase = "back" /\ c.id \in Live /\ "stop" \notin mishaps[c.id])
                         => fate[c.id] # "running"

-----------------------------------------------------------------------------
(* What the model's operators do *)

LEMMA QueueType == TypeOK => poll.queue \subseteq Ids \X Nums
BY DEF TypeOK, Polls

\* A nonempty queue has a least row, so that one of its entries is asked for.
LEMMA AskedIsQueued ==
    ASSUME TypeOK, poll.queue # {}
    PROVE  Asked \in poll.queue
<1> DEFINE Q == poll.queue
           T == {i \in Nat : \E q \in Q : q[1] = i}
<1>1. Q \subseteq Ids \X Nums
  BY QueueType
<1>2. \A q \in Q : q[1] \in Nat
  BY <1>1 DEF Ids
<1>3. T # {} /\ T \subseteq Nat
  BY <1>2
<1> DEFINE R == {ss \in Nat \X Nat : ss[1] < ss[2]}
<1>4. IsWellFoundedOn(R, Nat)
  BY NatLessThanWellFounded, Zenon DEF OpToRel
<1>5. PICK i \in T : \A j \in T : ~(<<j, i>> \in R)
  <2> HIDE DEF T, R
  <2>1. QED
    BY ONLY <1>3, <1>4, WFMin, Zenon
<1>6. \A j \in T : i <= j
  <2>1. \A j \in Nat : j < i => <<j, i>> \in R
    OBVIOUS
  <2> HIDE DEF T, R
  <2>2. \A j \in T : ~(j < i)
    BY <1>3, <1>5, <2>1, Zenon
  <2>3. i \in Nat /\ \A j \in T : j \in Nat
    BY <1>3, <1>5
  <2>4. QED
    BY <2>2, <2>3
<1>7. PICK q \in Q : q[1] = i
  BY DEF T
<1>8. \A r \in Q : q[1] <= r[1]
  BY <1>2, <1>6, <1>7
<1>9. \E p \in Q : \A r \in Q : p[1] <= r[1]
  BY <1>8
<1>10. QED
  BY <1>9 DEF Asked

\* The submissions not yet taken are finitely many.
LEMMA WaitingIsFinite ==
    TypeOK => IsFiniteSet(Waiting) /\ Cardinality(Waiting) \in Nat
<1>1. IsFiniteSet(Ids)
  BY FS_Interval DEF Ids
<1>2. Waiting \in SUBSET Ids
  BY DEF Waiting
<1>3. IsFiniteSet(Waiting)
  BY <1>1, <1>2, FS_Subset
<1>4. QED
  BY <1>3, FS_CardinalityType

\* A new row joins what is kept of the old ones; trim_history drops finished rows only.
LEMMA EnqueueEffect ==
    ASSUME TypeOK, IdsInOrder, NEW kept, NEW op, DOMAIN kept \subseteq Live,
           \A i \in DOMAIN kept : kept[i] = rows[i], Enqueue(kept, op)
    PROVE  /\ seq \in Ids /\ seq \notin Live
           /\ seq \in DOMAIN rows' /\ rows'[seq] = NewRow
           /\ DOMAIN rows' \subseteq DOMAIN kept \cup {seq}
           /\ \A i \in DOMAIN rows' : i # seq => rows'[i] = rows[i]
           /\ \A i \in DOMAIN kept : ~rows[i].done => i \in DOMAIN rows'
<1> DEFINE g == Put(kept, seq, NewRow)
           fin == {i \in DOMAIN g : g[i].done}
           D == {i \in DOMAIN g : g[i].done => Cardinality({j \in fin : j > i}) < MaxFinished}
<1>1. seq \in Ids /\ seq \notin Live
  BY DEF Enqueue, TypeOK, IdsInOrder, Ids
<1>2. /\ DOMAIN g = DOMAIN kept \cup {seq} /\ g[seq] = NewRow
      /\ \A i \in DOMAIN kept : g[i] = rows[i]
  BY <1>1 DEF Put
<1> HIDE DEF g
<1>3. rows' = Keep(g, D)
  BY DEF Enqueue, Trimmed, NewRow, g
<1>4. D \subseteq DOMAIN g /\ \A i \in DOMAIN g : ~g[i].done => i \in D
  OBVIOUS
<1> HIDE DEF D
<1>5. DOMAIN rows' = D /\ \A i \in D : rows'[i] = g[i]
  BY <1>3, <1>4 DEF Keep
<1>6. ~g[seq].done
  BY <1>2 DEF NewRow
<1>7. QED
  BY <1>1, <1>2, <1>4, <1>5, <1>6

\* Dropping rows.
LEMMA KeepEffect ==
    ASSUME NEW K, K \subseteq Live, rows' = Keep(rows, K)
    PROVE  DOMAIN rows' = K /\ \A i \in K : rows'[i] = rows[i]
BY DEF Keep, Live

\* What the updates of a row leave alone.
LEMMA RowUpdates ==
    ASSUME NEW r \in Row
    PROVE  /\ \A n \in Nums \cup {None} :
                 /\ [r EXCEPT !.jobid = n] \in Row
                 /\ [r EXCEPT !.jobid = n].jobid = n
                 /\ [r EXCEPT !.jobid = n].done = r.done
                 /\ [r EXCEPT !.jobid = n].cancelled = r.cancelled
                 /\ [r EXCEPT !.jobid = n].error = r.error
           /\ \A e \in BOOLEAN :
                 /\ [r EXCEPT !.done = TRUE, !.error = e] \in Row
                 /\ [r EXCEPT !.done = TRUE, !.error = e].jobid = r.jobid
                 /\ [r EXCEPT !.done = TRUE, !.error = e].done
                 /\ [r EXCEPT !.done = TRUE, !.error = e].cancelled = r.cancelled
                 /\ [r EXCEPT !.done = TRUE, !.error = e].error = e
           /\ [r EXCEPT !.done = TRUE, !.cancelled = TRUE] \in Row
           /\ [r EXCEPT !.done = TRUE, !.cancelled = TRUE].jobid = r.jobid
           /\ [r EXCEPT !.done = TRUE, !.cancelled = TRUE].done
           /\ [r EXCEPT !.done = TRUE, !.cancelled = TRUE].cancelled
           /\ [r EXCEPT !.done = TRUE, !.cancelled = TRUE].error = r.error
BY DEF Row

LEMMA NewRowFields ==
    /\ NewRow \in Row /\ NewRow.jobid = None
    /\ ~NewRow.done /\ ~NewRow.cancelled /\ ~NewRow.error
BY DEF NewRow, Row

\* The announcements differ.
LEMMA Announcements ==
    /\ <<>> # <<"ok">> /\ <<>> # <<"failed">> /\ <<"ok">> # <<"failed">>
    /\ Append(<<>>, "ok") = <<"ok">> /\ Append(<<>>, "failed") = <<"failed">>
    /\ {<<>>, <<"ok">>, <<"failed">>} \subseteq Seq({"ok", "failed"})
OBVIOUS

-----------------------------------------------------------------------------
(* The steps *)

LEMMA InitIInv == Init => IInv
<1> SUFFICES ASSUME Init PROVE IInv
  OBVIOUS
<1>1. Live = {} /\ DOMAIN listed = {}
  BY DEF Init, Live
<1>2. poll.at = "list" /\ poll.live = None /\ poll.queue = {} /\ poll.status = "unknown"
  BY DEF Init, Idle
<1>3. TypeOK
  <2>1. run \in [Ids -> Ids] /\ fate \in [Ids -> Fates]
    BY DEF Init, Fates
  <2>1a. mishaps \in [Ids -> SUBSET Mishaps]
    BY DEF Init
  <2>2. told \in [Ids -> Seq({"ok", "failed"})]
    BY DEF Init
  <2>3. seq \in 0 .. MaxRows /\ nextNum \in 1 .. MaxRows + 1 /\ restarts \in 0 .. MaxRestarts
    BY DEF Init
  <2>4. submits = {} /\ cancels = {} /\ invalidated = {}
    BY DEF Init
  <2>5. /\ DOMAIN rows \subseteq Ids /\ DOMAIN listed \subseteq Nums
        /\ \A i \in Live : rows[i] \in Row
        /\ \A n \in DOMAIN listed : listed[n] \in Ids
    BY <1>1 DEF Live
  <2>6. poll \in Polls
    BY DEF Init, Idle, Polls, Answers
  <2>7. QED
    BY <2>1, <2>1a, <2>2, <2>3, <2>4, <2>5, <2>6 DEF TypeOK
<1>4. IdsInOrder
  BY <1>1, <1>2 DEF Init, IdsInOrder, Ids
<1>5. SubmitsFit /\ CallsFit /\ ListFits
  BY <1>1, <1>2 DEF Init, SubmitsFit, CallsFit, ListFits
<1>6. OutcomesFit
  BY <1>1 DEF Init, OutcomesFit
<1>7. Waiting = {}
  BY DEF Init, Waiting
<1>8. Numbered
  BY <1>7, FS_EmptySet DEF Init, Numbered
<1>9. QED
  BY <1>3, <1>4, <1>5, <1>6, <1>8 DEF IInv

\* What befalls a job is recorded beside what befell it before.
MishapChange ==
    \/ UNCHANGED mishaps
    \/ \E i \in Ids, m \in Mishaps : mishaps' = [mishaps EXCEPT ![i] = @ \cup {m}]
    \/ mishaps' = [i \in Ids |-> IF fate[i] = "none" THEN mishaps[i]
                                  ELSE mishaps[i] \cup {"restart"}]

LEMMA MishapsGrow ==
    ASSUME TypeOK, MishapChange
    PROVE  /\ mishaps' \in [Ids -> SUBSET Mishaps]
           /\ \A i \in Ids : mishaps[i] \subseteq mishaps'[i]
<1>0. mishaps \in [Ids -> SUBSET Mishaps]
  BY DEF TypeOK
<1>1. CASE UNCHANGED mishaps
  BY <1>0, <1>1
<1>2. ASSUME NEW i \in Ids, NEW m \in Mishaps, mishaps' = [mishaps EXCEPT ![i] = @ \cup {m}]
      PROVE  /\ mishaps' \in [Ids -> SUBSET Mishaps]
             /\ \A j \in Ids : mishaps[j] \subseteq mishaps'[j]
  <2>1. mishaps[i] \cup {m} \in SUBSET Mishaps
    BY <1>0, <1>2
  <2>2. QED
    BY <1>0, <1>2, <2>1
<1>3. CASE mishaps' = [i \in Ids |-> IF fate[i] = "none" THEN mishaps[i]
                                     ELSE mishaps[i] \cup {"restart"}]
  <2>1. \A i \in Ids : /\ mishaps'[i] = IF fate[i] = "none" THEN mishaps[i]
                                        ELSE mishaps[i] \cup {"restart"}
                       /\ mishaps[i] \cup {"restart"} \in SUBSET Mishaps
    BY <1>0, <1>3 DEF Mishaps
  <2>2. QED
    BY <1>0, <1>3, <2>1
<1>4. QED
  BY <1>1, <1>2, <1>3 DEF MishapChange

\* A new row: its id is the next one, and nothing spoke of it.
LEMMA EnqueueStep ==
    ASSUME IInv, NEW kept, NEW op, op \in Ids, op <= seq, DOMAIN kept \subseteq Live,
           \A i \in DOMAIN kept : kept[i] = rows[i],
           \A i \in Live : ~rows[i].done => i \in DOMAIN kept,
           Enqueue(kept, op)
    PROVE  IInv'
<1> DEFINE new == [id |-> seq, phase |-> "sent", num |-> None]
<1>1. /\ seq \in Ids /\ seq \notin Live
      /\ seq \in DOMAIN rows' /\ rows'[seq] = NewRow
      /\ DOMAIN rows' \subseteq Live \cup {seq}
      /\ \A i \in DOMAIN rows' : i # seq => rows'[i] = rows[i]
      /\ \A i \in Live : ~rows[i].done => i \in DOMAIN rows'
  BY EnqueueEffect DEF IInv
<1>2. /\ seq' = seq + 1 /\ seq < MaxRows
      /\ run' = [run EXCEPT ![seq] = op]
      /\ submits' = submits \cup {new}
      /\ UNCHANGED <<cancels, poll, listed, nextNum, restarts, fate, mishaps, told, invalidated>>
  BY DEF Enqueue, daemon, events
<1>3. /\ new.id = seq /\ new.phase = "sent" /\ new.num = None
      /\ new \in [id : Ids, phase : {"sent", "ok", "err"}, num : Nums \cup {None}]
  BY <1>1
<1> HIDE DEF new
<1>4. NewRow \in Row /\ ~NewRow.done /\ ~NewRow.cancelled /\ ~NewRow.error /\ NewRow.jobid = None
  BY NewRowFields
<1>5. TypeOK'
  <2>1. /\ DOMAIN rows' \subseteq Ids
        /\ \A i \in Live' : rows'[i] \in Row
    BY <1>1, <1>4 DEF IInv, TypeOK, Live
  <2>2. seq' \in 0 .. MaxRows /\ run' \in [Ids -> Ids]
    BY <1>1, <1>2 DEF IInv, TypeOK
  <2>3. submits' \subseteq [id : Ids, phase : {"sent", "ok", "err"}, num : Nums \cup {None}]
    BY <1>2, <1>3 DEF IInv, TypeOK
  <2>4. QED
    BY <1>2, <2>1, <2>2, <2>3 DEF IInv, TypeOK
<1>6. IdsInOrder'
  <2>1. \A i \in Ids : i \in Nat
    BY DEF Ids
  <2>2. /\ \A i \in Ids : i # seq => run'[i] = run[i]
        /\ run'[seq] = op /\ op \in Nat
    BY <1>1, <1>2, <2>1 DEF IInv, TypeOK
  <2>3. seq \in Nat
    BY <1>1, <2>1
  <2>4. \A i \in Ids : i >= seq' => i \notin Live' /\ run'[i] = i /\ told'[i] = <<>> /\ fate'[i] = "none"
    BY <1>1, <1>2, <2>1, <2>2, <2>3 DEF IInv, IdsInOrder, Live
  <2>5. \A i \in Ids : i < seq' => run'[i] < seq'
    <3> SUFFICES ASSUME NEW i \in Ids, i < seq' PROVE run'[i] < seq'
      OBVIOUS
    <3>1. CASE i = seq
      BY <3>1, <1>2, <2>2, <2>3
    <3>2. CASE i # seq
      <4>1. i < seq /\ run[i] \in Ids
        BY <3>2, <1>2, <2>1, <2>3 DEF IInv, TypeOK
      <4>2. run[i] < seq /\ run[i] \in Nat
        BY <4>1, <2>1 DEF IInv, IdsInOrder
      <4>3. QED
        BY <4>2, <3>2, <1>2, <2>2, <2>3
    <3>3. QED
      BY <3>1, <3>2
  <2>6. \A s \in submits' : s.id < seq'
    <3>1. \A s \in submits : s.id \in Nat /\ s.id < seq
      BY <2>1 DEF IInv, TypeOK, IdsInOrder
    <3>2. QED
      BY <1>2, <1>3, <2>3, <3>1
  <2>7. \A c \in cancels' : c.id < seq'
    <3>1. \A c \in cancels : c.id \in Nat /\ c.id < seq
      BY <2>1 DEF IInv, TypeOK, IdsInOrder
    <3>2. QED
      BY <1>2, <2>3, <3>1
  <2>8. \A q \in poll'.queue : q[1] < seq'
    <3>1. \A q \in poll.queue : q[1] \in Nat /\ q[1] < seq
      BY <2>1, QueueType DEF IInv, IdsInOrder
    <3>2. QED
      BY <1>2, <2>3, <3>1
  <2>9. \A n \in DOMAIN listed' : listed'[n] < seq'
    <3>1. \A n \in DOMAIN listed : listed[n] \in Nat /\ listed[n] < seq
      BY <2>1 DEF IInv, TypeOK, IdsInOrder
    <3>2. QED
      BY <1>2, <2>3, <3>1
  <2>10. QED
    BY <2>4, <2>5, <2>6, <2>7, <2>8, <2>9 DEF IdsInOrder
<1>7. /\ \A s \in submits : s.id \in Ids /\ s.id < seq /\ s.id # seq
      /\ seq \in Nat
  <2>1. seq \in Nat /\ \A i \in Ids : i \in Nat
    BY DEF IInv, TypeOK, Ids
  <2>2. \A s \in submits : s.id \in Ids /\ s.id < seq
    BY DEF IInv, TypeOK, IdsInOrder
  <2>3. QED
    BY <2>1, <2>2
<1>8. SubmitsFit'
  <2>1. \A s \in submits : s.id \in Live' /\ rows'[s.id] = NewRow
    BY <1>1, <1>4, <1>7 DEF IInv, SubmitsFit, Live
  <2>2. told[seq] = <<>> /\ fate[seq] = "none"
    BY <1>1, <1>7 DEF IInv, IdsInOrder
  <2>3. QED
    BY <1>1, <1>2, <1>3, <1>7, <2>1, <2>2 DEF IInv, SubmitsFit, Live
<1>9. Numbered'
  <2>1. Waiting' = Waiting \cup {seq} /\ seq \notin Waiting
    BY <1>1, <1>2, <1>3, <1>7 DEF Waiting
  <2>2. IsFiniteSet(Waiting) /\ Cardinality(Waiting) \in Nat
    BY WaitingIsFinite DEF IInv
  <2>3. Cardinality(Waiting') = Cardinality(Waiting) + 1
    BY <2>1, <2>2, FS_AddElement
  <2>4. nextNum \in Nat
    BY DEF IInv, TypeOK
  <2>5. QED
    BY <1>2, <1>7, <2>2, <2>3, <2>4 DEF IInv, Numbered
<1>10. CallsFit'
  <2>1. /\ \A c \in cancels : c.id # seq
        /\ \A q \in poll.queue : q[1] # seq
    BY <1>7 DEF IInv, IdsInOrder
  <2>2. \A i \in Live' : i # seq => i \in Live /\ rows'[i] = rows[i]
    BY <1>1 DEF Live
  <2>3. QED
    BY <1>2, <2>1, <2>2 DEF IInv, CallsFit
<1>11. OutcomesFit'
  <2>1. told[seq] = <<>>
    BY <1>1, <1>7 DEF IInv, IdsInOrder
  <2>2. \A i \in Live' : i # seq => i \in Live /\ rows'[i] = rows[i] /\ run'[i] = run[i]
    BY <1>1, <1>2 DEF Live, IInv, TypeOK
  <2>3. <<>> # <<"ok">> /\ <<>> # <<"failed">>
    OBVIOUS
  <2>4. \A i \in Ids : /\ told'[i] \in {<<>>, <<"ok">>, <<"failed">>}
                       /\ (told'[i] = <<"ok">> /\ run'[i] \in Mutating) => i \in invalidated'
    <3>1. \A i \in Ids : i # seq => run'[i] = run[i]
      BY <1>2 DEF IInv, TypeOK
    <3>2. QED
      BY <1>2, <2>1, <2>3, <3>1 DEF IInv, OutcomesFit
  <2>5. QED
    BY <1>1, <1>2, <1>4, <2>1, <2>2, <2>3, <2>4 DEF IInv, OutcomesFit, Done
<1>12. ListFits'
  <2>1. \A i \in Live' : i # seq => i \in Live /\ rows'[i] = rows[i]
    BY <1>1 DEF Live
  <2>2. QED
    BY <1>1, <1>2, <1>3, <1>4, <2>1 DEF IInv, ListFits
<1>13. QED
  BY <1>5, <1>6, <1>8, <1>9, <1>10, <1>11, <1>12 DEF IInv

LEMMA StartStep ==
    ASSUME IInv, Spawn \/ \E i \in Live : Retry(i)
    PROVE  IInv'
<1>1. CASE Spawn
  <2>1. seq \in Ids
    BY <1>1 DEF Spawn, Enqueue, IInv, TypeOK, Ids
  <2>2. QED
    BY <1>1, <2>1, EnqueueStep DEF Spawn, Live, Ids
<1>2. CASE \E i \in Live : Retry(i)
  <2>1. PICK i \in Live : Retry(i)
    BY <1>2
  <2> DEFINE kept == Keep(rows, Live \ {i})
  <2>2. DOMAIN kept = Live \ {i} /\ \A j \in DOMAIN kept : kept[j] = rows[j]
    BY DEF Keep, Live
  <2>3. rows[i].done /\ Enqueue(kept, run[i])
    BY <2>1 DEF Retry, CanRetry, Done
  <2>4. i \in Ids /\ i < seq
    BY DEF IInv, TypeOK, IdsInOrder, Live, Ids
  <2>5. run[i] \in Ids /\ run[i] < seq
    BY <2>4 DEF IInv, TypeOK, IdsInOrder
  <2>6. run[i] <= seq
    <3>1. seq \in Nat
      BY DEF IInv, TypeOK
    <3>2. QED
      BY <2>5, <3>1 DEF Ids
  <2> HIDE DEF kept
  <2>7. QED
    BY <2>2, <2>3, <2>5, <2>6, EnqueueStep
<1>3. QED
  BY <1>1, <1>2

\* What a step has to keep that drops rows but none whose submission is in flight, or
\* that only moves the calls: nothing but the calls still speaks of rows that are gone.
LEMMA DropKeeps ==
    ASSUME IInv, DOMAIN rows' \subseteq Live, \A i \in DOMAIN rows' : rows'[i] = rows[i],
           \A i \in Live : (~rows[i].done /\ rows[i].jobid = None) => i \in DOMAIN rows',
           cancels' \subseteq [id : Ids, num : Nums, phase : {"sent", "back"}],
           \A c \in cancels' : c.id < seq,
           poll' \in Polls,
           \A q \in poll'.queue : q[1] < seq,
           CallsFit',
           UNCHANGED <<seq, run, submits, listed, nextNum, restarts, fate, mishaps, told, invalidated>>
    PROVE  IInv'
<1>1. \A i \in Live' : i \in Live /\ rows'[i] = rows[i]
  BY DEF Live
<1>2. TypeOK'
  BY <1>1 DEF IInv, TypeOK, Live
<1>3. IdsInOrder'
  BY <1>1 DEF IInv, IdsInOrder
<1>4. SubmitsFit'
  <2>1. \A s \in submits : s.id \in Live'
    BY DEF IInv, SubmitsFit, NewRow, Live
  <2>2. QED
    BY <1>1, <2>1 DEF IInv, SubmitsFit
<1>5. Numbered'
  BY DEF IInv, Numbered, Waiting
<1>6. OutcomesFit'
  BY <1>1 DEF IInv, OutcomesFit, Done
<1>7. ListFits'
  BY <1>1 DEF IInv, ListFits
<1>8. QED
  BY <1>2, <1>3, <1>4, <1>5, <1>6, <1>7 DEF IInv

\* What a step has to keep that changes row i, for which no submission is left: the
\* row keeps the job it has, and what it shows is what was announced.
LEMMA RowKeeps ==
    ASSUME IInv, NEW i \in Live,
           DOMAIN rows' = Live, \A j \in Live : j # i => rows'[j] = rows[j],
           rows'[i] \in Row, rows[i].jobid # None => rows'[i].jobid = rows[i].jobid,
           (rows'[i].jobid # None /\ fate[i] = "running") =>
              rows'[i].jobid \in DOMAIN listed /\ listed[rows'[i].jobid] = i,
           submits' \subseteq submits, \A s \in submits' : s.id # i,
           \A s \in submits : s.phase = "sent" => s \in submits',
           cancels' \subseteq cancels,
           poll' \in Polls, poll'.queue \subseteq poll.queue,
           poll'.at \in {"status", "apply"} => poll'.queue # {},
           told' \in [Ids -> Seq({"ok", "failed"})],
           \A j \in Ids : j # i => told'[j] = told[j],
           told'[i] \in {<<>>, <<"ok">>, <<"failed">>},
           (told'[i] # <<>> \/ rows'[i].cancelled \/ rows'[i].error) => rows'[i].done,
           rows'[i].error <=> told'[i] = <<"failed">>,
           (rows'[i].done /\ ~rows'[i].error /\ ~rows'[i].cancelled) => told'[i] = <<"ok">>,
           (told'[i] = <<"ok">> /\ run[i] \in Mutating) => i \in invalidated',
           invalidated \subseteq invalidated', invalidated' \subseteq Ids,
           UNCHANGED <<seq, run, listed, nextNum, restarts, fate, mishaps>>
    PROVE  IInv'
<1>1. i \in Ids /\ i < seq /\ Live' = Live
  BY DEF IInv, TypeOK, IdsInOrder, Live, Ids
<1>2. TypeOK'
  BY <1>1 DEF IInv, TypeOK, Live
<1>3. IdsInOrder'
  <2>1. \A j \in Ids : j >= seq => j # i
    BY <1>1 DEF IInv, TypeOK, Ids
  <2>2. QED
    BY <1>1, <2>1 DEF IInv, IdsInOrder
<1>4. SubmitsFit'
  <2>1. \A s \in submits' : /\ s \in submits /\ s.id \in Ids
                            /\ rows'[s.id] = rows[s.id] /\ told'[s.id] = told[s.id]
    BY DEF IInv, TypeOK, SubmitsFit
  <2>2. QED
    BY <1>1, <2>1 DEF IInv, SubmitsFit
<1>5. Numbered'
  <2>1. Waiting' = Waiting
    BY DEF Waiting
  <2>2. QED
    BY <2>1 DEF IInv, Numbered
<1>6. CallsFit'
  <2>1. \A c \in cancels : c.num # None
    BY DEF IInv, TypeOK, Nums
  <2>2. \A q \in poll.queue : q[2] # None
    BY QueueType DEF IInv, Nums
  <2>3. \A j \in Live : rows[j].jobid # None => rows'[j].jobid = rows[j].jobid
    OBVIOUS
  <2>4. \A c \in cancels' : c.id \in Live' => rows'[c.id].jobid = c.num
    BY <1>1, <2>1, <2>3 DEF IInv, CallsFit
  <2>5. \A q \in poll'.queue : q[1] \in Live' => rows'[q[1]].jobid = q[2]
    BY <1>1, <2>2, <2>3 DEF IInv, CallsFit
  <2>6. QED
    BY <2>4, <2>5 DEF CallsFit
<1>7. OutcomesFit'
  <2>1. \A j \in Ids : /\ told'[j] \in {<<>>, <<"ok">>, <<"failed">>}
                       /\ (told'[j] = <<"ok">> /\ run'[j] \in Mutating) => j \in invalidated'
    BY DEF IInv, OutcomesFit
  <2>2. ASSUME NEW j \in Live
        PROVE  /\ (told'[j] # <<>> \/ rows'[j].cancelled \/ rows'[j].error) => rows'[j].done
               /\ rows'[j].error <=> told'[j] = <<"failed">>
               /\ (rows'[j].done /\ ~rows'[j].error /\ ~rows'[j].cancelled) => told'[j] = <<"ok">>
    <3>1. CASE j = i
      BY <3>1
    <3>2. CASE j # i
      <4>1. j \in Ids /\ rows'[j] = rows[j] /\ told'[j] = told[j] /\ run'[j] = run[j]
        BY <3>2 DEF IInv, TypeOK, Live
      <4>2. QED
        BY <4>1 DEF IInv, OutcomesFit, Done
    <3>3. QED
      BY <3>1, <3>2
  <2>3. QED
    BY <1>1, <2>1, <2>2 DEF OutcomesFit, Done
<1>8. ListFits'
  BY <1>1, SMTT(30) DEF IInv, ListFits
<1>9. QED
  BY <1>2, <1>3, <1>4, <1>5, <1>6, <1>7, <1>8 DEF IInv

\* The answer to a submission reaches its row, or no row any more.
LEMMA SubmittedStep ==
    ASSUME IInv, NEW s \in submits, OnJobSubmitted(s)
    PROVE  IInv'
<1> DEFINE i == s.id
<1>1. /\ i \in Live /\ i \in Ids /\ rows[i] = NewRow /\ told[i] = <<>>
      /\ \A t \in submits : t.id = i => t = s
      /\ \A t \in submits : t.phase = "sent" => t # s
  BY DEF IInv, SubmitsFit, TypeOK, Live, OnJobSubmitted
<1>2. /\ submits' = submits \ {s}
      /\ UNCHANGED <<seq, run, cancels, poll, listed, nextNum, restarts, fate, mishaps, invalidated>>
  BY DEF OnJobSubmitted, daemon
<1>3. rows[i] \in Row
  BY <1>1 DEF IInv, TypeOK
<1>4. CASE s.phase = "ok"
  <2>1. rows' = [rows EXCEPT ![i].jobid = s.num] /\ told' = told
    BY <1>1, <1>4 DEF OnJobSubmitted
  <2>2. s.num \in Nums \cup {None}
    BY DEF IInv, TypeOK
  <2>3. /\ DOMAIN rows' = Live /\ \A j \in Live : j # i => rows'[j] = rows[j]
        /\ rows'[i] = [rows[i] EXCEPT !.jobid = s.num]
    BY <1>1, <2>1 DEF Live
  <2>4. /\ rows'[i] \in Row /\ rows'[i].jobid = s.num
        /\ ~rows'[i].done /\ ~rows'[i].cancelled /\ ~rows'[i].error
    <3>1. rows'[i] = [NewRow EXCEPT !.jobid = s.num]
      BY <1>1, <2>3
    <3>2. QED
      BY <2>2, <3>1 DEF NewRow, Row
  <2>5. rows[i].jobid = None
    BY <1>1, NewRowFields
  <2>6. fate[i] = "running" => s.num \in DOMAIN listed /\ listed[s.num] = i
    BY <1>4 DEF IInv, ListFits
  <2> HIDE DEF i
  <2>7. /\ submits' \subseteq submits
        /\ \A t \in submits' : t.id # i
        /\ \A t \in submits : t.phase = "sent" => t \in submits'
    BY <1>1, <1>2
  <2>8. told' \in [Ids -> Seq({"ok", "failed"})] /\ told'[i] = <<>>
    BY <1>1, <2>1 DEF IInv, TypeOK
  <2>9. /\ poll' \in Polls /\ poll'.queue \subseteq poll.queue
        /\ poll'.at \in {"status", "apply"} => poll'.queue # {}
        /\ cancels' \subseteq cancels
        /\ invalidated \subseteq invalidated' /\ invalidated' \subseteq Ids
    BY <1>2 DEF IInv, TypeOK, CallsFit
  <2>10. QED
    BY <1>1, <1>2, <2>1, <2>3, <2>4, <2>5, <2>6, <2>7, <2>8, <2>9, RowKeeps, Announcements
<1>5. CASE s.phase # "ok"
  <2>1. /\ rows' = [rows EXCEPT ![i].done = TRUE, ![i].error = TRUE]
        /\ told' = [told EXCEPT ![i] = Append(told[i], "failed")]
    BY <1>1, <1>5 DEF OnJobSubmitted
  <2>2. told'[i] = <<"failed">> /\ \A j \in Ids : j # i => told'[j] = told[j]
    BY <1>1, <2>1 DEF IInv, TypeOK
  <2>3. /\ DOMAIN rows' = Live /\ \A j \in Live : j # i => rows'[j] = rows[j]
        /\ rows'[i] = [rows[i] EXCEPT !.done = TRUE, !.error = TRUE]
    BY <1>1, <2>1 DEF Live
  <2>4. /\ rows'[i] \in Row /\ rows'[i].jobid = None
        /\ rows'[i].done /\ ~rows'[i].cancelled /\ rows'[i].error
    <3>1. rows'[i] = [NewRow EXCEPT !.done = TRUE, !.error = TRUE]
      BY <1>1, <2>3
    <3>2. QED
      BY <3>1 DEF NewRow, Row
  <2>5. rows[i].jobid = None
    BY <1>1, NewRowFields
  <2> HIDE DEF i
  <2>7. /\ submits' \subseteq submits
        /\ \A t \in submits' : t.id # i
        /\ \A t \in submits : t.phase = "sent" => t \in submits'
    BY <1>1, <1>2
  <2>8. told' \in [Ids -> Seq({"ok", "failed"})]
    <3>1. told[i] \in Seq({"ok", "failed"})
      BY <1>1 DEF IInv, TypeOK
    <3>2. Append(told[i], "failed") \in Seq({"ok", "failed"})
      BY <3>1
    <3>3. QED
      BY <2>1, <3>2 DEF IInv, TypeOK
  <2>9. /\ poll' \in Polls /\ poll'.queue \subseteq poll.queue
        /\ poll'.at \in {"status", "apply"} => poll'.queue # {}
        /\ cancels' \subseteq cancels
        /\ invalidated \subseteq invalidated' /\ invalidated' \subseteq Ids
    BY <1>2 DEF IInv, TypeOK, CallsFit
  <2>10. QED
    BY <1>1, <1>2, <2>2, <2>3, <2>4, <2>5, <2>7, <2>8, <2>9, RowKeeps, Announcements
<1>6. QED
  BY <1>4, <1>5

\* The user clears finished rows, or asks for a cancellation.
LEMMA UserStep ==
    ASSUME IInv, ClearFinished \/ \E i \in Live : ClearJob(i) \/ Cancel(i)
    PROVE  IInv'
<1>0. /\ poll \in Polls
      /\ \A q \in poll.queue : q[1] < seq
      /\ cancels \subseteq [id : Ids, num : Nums, phase : {"sent", "back"}]
      /\ \A c \in cancels : c.id < seq
  BY DEF IInv, TypeOK, IdsInOrder
<1>1. CASE ClearFinished \/ \E i \in Live : ClearJob(i)
  <2>1. /\ DOMAIN rows' \subseteq Live
        /\ \A i \in DOMAIN rows' : rows'[i] = rows[i]
        /\ \A i \in Live : ~rows[i].done => i \in DOMAIN rows'
        /\ UNCHANGED <<seq, run, submits, cancels, poll, daemon, events>>
    <3>1. CASE ClearFinished
      <4>1. rows' = Keep(rows, Live \ Finished)
        BY <3>1 DEF ClearFinished
      <4>2. QED
        BY <3>1, <4>1, KeepEffect DEF ClearFinished, Finished, Done
    <3>2. CASE \E i \in Live : ClearJob(i)
      <4>1. PICK i \in Live : ClearJob(i)
        BY <3>2
      <4>2. rows' = Keep(rows, Live \ {i}) /\ rows[i].done
        BY <4>1 DEF ClearJob, Done
      <4>3. DOMAIN rows' = Live \ {i} /\ \A j \in Live \ {i} : rows'[j] = rows[j]
        BY <4>2, KeepEffect
      <4>4. UNCHANGED <<seq, run, submits, cancels, poll, daemon, events>>
        BY <4>1 DEF ClearJob
      <4>5. QED
        BY <4>2, <4>3, <4>4
    <3>3. QED
      BY <1>1, <3>1, <3>2
  <2>2. CallsFit'
    BY <2>1 DEF IInv, CallsFit, Live
  <2>3. QED
    BY <1>0, <2>1, <2>2, DropKeeps DEF daemon, events
<1>2. CASE \E i \in Live : Cancel(i)
  <2>1. PICK i \in Live : Cancel(i)
    BY <1>2
  <2> DEFINE new == [id |-> i, num |-> rows[i].jobid, phase |-> "sent"]
  <2>2. /\ rows[i].jobid # None
        /\ cancels' = cancels \cup {new}
        /\ UNCHANGED <<rows, seq, run, submits, poll, listed, nextNum, restarts, fate, mishaps, told, invalidated>>
    BY <2>1 DEF Cancel, ui, daemon, events
  <2>3. i \in Ids /\ i < seq /\ rows[i].jobid \in Nums
    <3>1. rows[i] \in Row /\ i \in Ids
      BY DEF IInv, TypeOK, Live
    <3>2. rows[i].jobid \in Nums
      BY <2>2, <3>1 DEF Row
    <3>3. i < seq
      BY <3>1 DEF IInv, TypeOK, IdsInOrder, Ids
    <3>4. QED
      BY <3>1, <3>2, <3>3
  <2>4. /\ new \in [id : Ids, num : Nums, phase : {"sent", "back"}]
        /\ new.id = i /\ new.num = rows[i].jobid
    BY <2>3
  <2> HIDE DEF new
  <2>5. CallsFit'
    BY <2>2, <2>4 DEF IInv, CallsFit, Live
  <2>6. /\ cancels' \subseteq [id : Ids, num : Nums, phase : {"sent", "back"}]
        /\ \A c \in cancels' : c.id < seq
    BY <1>0, <2>2, <2>3, <2>4
  <2>7. /\ DOMAIN rows' = Live /\ \A j \in DOMAIN rows' : rows'[j] = rows[j]
        /\ poll' = poll
    BY <2>2 DEF Live
  <2>8. QED
    BY <1>0, <2>2, <2>5, <2>6, <2>7, DropKeeps
<1>3. QED
  BY <1>1, <1>2

\* The answer to a cancellation settles its row.
LEMMA CancelledStep ==
    ASSUME IInv, NEW c \in cancels, OnCancelled(c)
    PROVE  IInv'
<1>1. /\ cancels' = cancels \ {c}
      /\ UNCHANGED <<seq, run, submits, poll, listed, nextNum, restarts, fate, mishaps, told, invalidated>>
  BY DEF OnCancelled, daemon, events
<1>2. /\ poll \in Polls
      /\ poll.at \in {"status", "apply"} => poll.queue # {}
      /\ \A q \in poll.queue : q[1] < seq
      /\ cancels \subseteq [id : Ids, num : Nums, phase : {"sent", "back"}]
      /\ \A d \in cancels : d.id < seq
      /\ told \in [Ids -> Seq({"ok", "failed"})]
      /\ invalidated \subseteq Ids
  BY DEF IInv, TypeOK, IdsInOrder, CallsFit
<1>3. CASE c.id \in Live
  <2> DEFINE i == c.id
  <2>1. rows' = [rows EXCEPT ![i].done = TRUE, ![i].cancelled = TRUE]
    BY <1>3 DEF OnCancelled
  <2>2. /\ i \in Ids /\ rows[i] \in Row /\ rows[i].jobid = c.num /\ c.num \in Nums
    BY <1>3 DEF IInv, TypeOK, CallsFit
  <2>3. /\ DOMAIN rows' = Live /\ \A j \in Live : j # i => rows'[j] = rows[j]
        /\ rows'[i] = [rows[i] EXCEPT !.done = TRUE, !.cancelled = TRUE]
    BY <1>3, <2>1 DEF Live
  <2>4. /\ rows'[i] \in Row /\ rows'[i].jobid = rows[i].jobid
        /\ rows'[i].done /\ rows'[i].cancelled /\ rows'[i].error = rows[i].error
    <3>1. rows[i] \in Row /\ rows'[i] = [rows[i] EXCEPT !.done = TRUE, !.cancelled = TRUE]
      BY <2>2, <2>3
    <3> HIDE DEF i
    <3>2. QED
      BY <3>1 DEF Row
  <2>5. \A s \in submits : s.id # i
    BY <2>2, NewRowFields DEF IInv, SubmitsFit, Nums
  <2>6. /\ told[i] \in {<<>>, <<"ok">>, <<"failed">>}
        /\ rows[i].error <=> told[i] = <<"failed">>
        /\ (told[i] = <<"ok">> /\ run[i] \in Mutating) => i \in invalidated
    BY <1>3, <2>2 DEF IInv, OutcomesFit
  <2>7. (rows'[i].jobid # None /\ fate[i] = "running") =>
              rows'[i].jobid \in DOMAIN listed /\ listed[rows'[i].jobid] = i
    BY <1>3, <2>4 DEF IInv, ListFits
  <2> HIDE DEF i
  <2>8. i \in Live
    BY <1>3 DEF i
  <2>9. /\ cancels' \subseteq cancels /\ poll'.queue \subseteq poll.queue
        /\ poll' = poll /\ submits' = submits /\ told' = told /\ invalidated' = invalidated
    BY <1>1
  <2>10. rows'[i].error <=> told'[i] = <<"failed">>
    BY <2>4, <2>6, <2>9
  <2>11. UNCHANGED <<seq, run, listed, nextNum, restarts, fate, mishaps>>
    BY <1>1
  <2>12. QED
    BY <1>2, <2>3, <2>4, <2>5, <2>6, <2>7, <2>8, <2>9, <2>10, <2>11, RowKeeps, ZenonT(60)
<1>4. CASE c.id \notin Live
  <2>1. rows' = rows
    BY <1>4 DEF OnCancelled
  <2>2. CallsFit'
    BY <1>1, <2>1 DEF IInv, CallsFit, Live
  <2>3. /\ DOMAIN rows' = Live /\ \A i \in DOMAIN rows' : rows'[i] = rows[i]
        /\ cancels' \subseteq cancels /\ poll' = poll
    BY <1>1, <2>1 DEF Live
  <2>4. QED
    BY <1>1, <1>2, <2>2, <2>3, DropKeeps
<1>5. QED
  BY <1>3, <1>4

\* The poller between two applications: it asks, and drops rows the answer does not list,
\* but no row that has no job yet.
LEMMA PollStep ==
    ASSUME IInv, PollListed \/ PollRetain \/ PollStatus
    PROVE  IInv'
<1>0. /\ poll \in Polls
      /\ \A q \in poll.queue : q[1] < seq
      /\ cancels \subseteq [id : Ids, num : Nums, phase : {"sent", "back"}]
      /\ \A c \in cancels : c.id < seq
      /\ DOMAIN listed \subseteq Nums
      /\ fate \in [Ids -> Fates]
      /\ \A n \in DOMAIN listed : listed[n] \in Ids
  BY DEF IInv, TypeOK, IdsInOrder
<1>1. CASE PollListed
  <2>1. /\ poll' \in {[poll EXCEPT !.at = "retain", !.live = DOMAIN listed],
                      [poll EXCEPT !.at = "retain", !.live = None]}
        /\ UNCHANGED <<rows, seq, run, submits, cancels, listed, nextNum, restarts, fate, mishaps, told,
                       invalidated>>
    BY <1>1 DEF PollListed, ui, daemon, events
  <2>2. /\ poll'.at = "retain" /\ poll'.queue = poll.queue
        /\ poll' \in Polls
    BY <1>0, <2>1 DEF Polls
  <2>3. CallsFit'
    BY <2>1, <2>2 DEF IInv, CallsFit, Live
  <2>4. DOMAIN rows' = Live
    BY <2>1 DEF Live
  <2>5. QED
    BY <1>0, <2>1, <2>2, <2>3, <2>4, DropKeeps
<1>2. CASE PollRetain
  <2> DEFINE kept == {i \in Live : \/ poll.live = None
                                   \/ rows[i].jobid = None
                                   \/ rows[i].jobid \in poll.live}
             active == {i \in kept : ~Done(i) /\ rows[i].jobid # None}
             queue == {<<i, rows[i].jobid>> : i \in active}
  <2>1. /\ rows' = Keep(rows, kept)
        /\ poll' = IF active = {} THEN Idle ELSE [Idle EXCEPT !.at = "status", !.queue = queue]
        /\ UNCHANGED <<seq, run, submits, cancels, listed, nextNum, restarts, fate, mishaps, told, invalidated>>
    BY <1>2 DEF PollRetain, daemon, events
  <2>2. /\ kept \subseteq Live /\ active \subseteq kept
        /\ \A i \in Live : rows[i].jobid = None => i \in kept
    OBVIOUS
  <2>3. \A i \in active : i \in Ids /\ i < seq /\ rows[i].jobid \in Nums
    <3> SUFFICES ASSUME NEW i \in active PROVE i \in Ids /\ i < seq /\ rows[i].jobid \in Nums
      OBVIOUS
    <3>1. i \in Ids /\ rows[i] \in Row /\ rows[i].jobid # None /\ i \in Live
      BY DEF IInv, TypeOK, Live
    <3>2. i < seq
      BY <3>1 DEF IInv, TypeOK, IdsInOrder, Ids
    <3>3. QED
      BY <3>1, <3>2 DEF Row
  <2>4. /\ queue \subseteq Ids \X Nums
        /\ \A q \in queue : q[1] \in active /\ q[1] < seq /\ q[2] = rows[q[1]].jobid
        /\ active # {} => queue # {}
    <3> HIDE DEF active, kept
    <3>1. \A q \in queue : \E i \in active : q = <<i, rows[i].jobid>>
      OBVIOUS
    <3>2. \A q \in queue : q[1] \in active /\ q[2] = rows[q[1]].jobid /\ q = <<q[1], q[2]>>
      BY <3>1
    <3>3. queue \subseteq Ids \X Nums
      BY <2>3, <3>2
    <3>4. \A i \in active : <<i, rows[i].jobid>> \in queue
      OBVIOUS
    <3> HIDE DEF queue
    <3>5. QED
      BY <2>3, <3>2, <3>3, <3>4
  <2> HIDE DEF kept, active, queue
  <2>5. DOMAIN rows' = kept /\ \A i \in kept : rows'[i] = rows[i]
    BY <2>1, <2>2, KeepEffect
  <2>6. \/ poll'.at = "list" /\ poll'.queue = {}
        \/ poll'.at = "status" /\ poll'.queue = queue /\ queue # {}
    BY <2>1, <2>4 DEF Idle
  <2>7. poll' \in Polls
    BY <2>1, <2>4 DEF Idle, Polls, Answers
  <2>8. CallsFit'
    <3>1. \A c \in cancels' : c.id \in Live' => rows'[c.id].jobid = c.num
      BY <2>1, <2>2, <2>5 DEF IInv, CallsFit, Live
    <3>2. \A q \in poll'.queue : q[1] \in Live' => rows'[q[1]].jobid = q[2]
      BY <2>2, <2>4, <2>5, <2>6
    <3>3. QED
      BY <2>6, <3>1, <3>2 DEF CallsFit
  <2>9. \A q \in poll'.queue : q[1] < seq
    BY <2>4, <2>6
  <2>10. QED
    BY <1>0, <2>1, <2>2, <2>5, <2>7, <2>8, <2>9, DropKeeps
<1>3. CASE PollStatus
  <2>1. /\ poll.at = "status"
        /\ poll' \in {[poll EXCEPT !.at = "apply", !.status = StatusOf(Asked[2])],
                      [poll EXCEPT !.at = "apply", !.status = "unknown"]}
        /\ UNCHANGED <<rows, seq, run, submits, cancels, listed, nextNum, restarts, fate, mishaps, told,
                       invalidated>>
    BY <1>3 DEF PollStatus, ui, daemon, events
  <2>2. StatusOf(Asked[2]) \in Answers /\ "unknown" \in Answers
    BY DEF IInv, ListFits, StatusOf, Answers
  <2>3. /\ poll'.at = "apply" /\ poll'.queue = poll.queue
        /\ poll' \in Polls
    BY <1>0, <2>1, <2>2 DEF Polls
  <2>4. poll.queue # {}
    BY <2>1 DEF IInv, CallsFit
  <2>5. CallsFit'
    BY <2>1, <2>3, <2>4 DEF IInv, CallsFit, Live
  <2>6. DOMAIN rows' = Live
    BY <2>1 DEF Live
  <2>7. QED
    BY <1>0, <2>1, <2>3, <2>5, <2>6, DropKeeps
<1>4. QED
  BY <1>1, <1>2, <1>3

\* What an answer does to a row that has not settled.
LEMMA SettleEffect ==
    ASSUME IInv, NEW i \in Live, ~Done(i), NEW answer \in {"ok", "failed"}, SettleRow(i, answer)
    PROVE  /\ DOMAIN rows' = Live /\ \A j \in Live : j # i => rows'[j] = rows[j]
           /\ rows'[i] \in Row /\ rows'[i].jobid = rows[i].jobid /\ rows'[i].done
           /\ ~rows'[i].cancelled /\ rows'[i].error = (answer = "failed")
           /\ told' \in [Ids -> Seq({"ok", "failed"})]
           /\ told'[i] = <<answer>> /\ \A j \in Ids : j # i => told'[j] = told[j]
           /\ invalidated \subseteq invalidated' /\ invalidated' \subseteq Ids
           /\ (answer = "ok" /\ run[i] \in Mutating) => i \in invalidated'
<1>1. /\ i \in Ids /\ rows[i] \in Row /\ ~rows[i].cancelled
      /\ told[i] = <<>> /\ told \in [Ids -> Seq({"ok", "failed"})]
  BY DEF IInv, TypeOK, OutcomesFit, Live
<1>2. rows' = [rows EXCEPT ![i].done = TRUE, ![i].error = answer = "failed"]
  BY DEF SettleRow
<1>3. /\ DOMAIN rows' = Live /\ \A j \in Live : j # i => rows'[j] = rows[j]
      /\ rows'[i] = [rows[i] EXCEPT !.done = TRUE, !.error = (answer = "failed")]
  BY <1>2 DEF Live
<1>4. /\ rows'[i] \in Row /\ rows'[i].jobid = rows[i].jobid /\ rows'[i].done
      /\ ~rows'[i].cancelled /\ rows'[i].error = (answer = "failed")
  <2>1. (answer = "failed") \in BOOLEAN
    OBVIOUS
  <2>2. QED
    BY <1>1, <1>3, <2>1 DEF Row
<1>5. told' = [told EXCEPT ![i] = Append(told[i], answer)]
  BY DEF SettleRow
<1>6. Append(told[i], answer) = <<answer>> /\ <<answer>> \in Seq({"ok", "failed"})
  BY <1>1
<1>7. /\ told' \in [Ids -> Seq({"ok", "failed"})]
      /\ told'[i] = <<answer>> /\ \A j \in Ids : j # i => told'[j] = told[j]
  BY <1>1, <1>5, <1>6
<1>8. /\ invalidated \subseteq invalidated' /\ invalidated' \subseteq Ids
      /\ (answer = "ok" /\ run[i] \in Mutating) => i \in invalidated'
  BY <1>1 DEF SettleRow, IInv, TypeOK
<1>9. QED
  BY <1>3, <1>4, <1>7, <1>8

\* An answer is applied to a row that has not settled meanwhile, or dropped.
LEMMA ApplyStep ==
    ASSUME IInv, PollApply
    PROVE  IInv'
<1> DEFINE i == Asked[1]
           rest == poll.queue \ {Asked}
<1>1. /\ poll' = IF rest = {} THEN Idle ELSE [Idle EXCEPT !.at = "status", !.queue = rest]
      /\ \/ Settles(i, poll.status) /\ SettleRow(i, poll.status)
         \/ UNCHANGED <<rows, told, invalidated>>
      /\ UNCHANGED <<seq, run, submits, cancels, listed, nextNum, restarts, fate, mishaps>>
  BY DEF PollApply, daemon, events
<1>2. /\ poll' \in Polls /\ poll'.queue \subseteq poll.queue
      /\ poll'.at \in {"status", "apply"} => poll'.queue # {}
  <2>1. rest \subseteq Ids \X Nums /\ rest \subseteq poll.queue
    BY QueueType DEF IInv
  <2> HIDE DEF rest
  <2>2. CASE rest = {}
    BY <1>1, <2>2 DEF Idle, Polls, Answers
  <2>3. CASE rest # {}
    BY <1>1, <2>1, <2>3 DEF Idle, Polls, Answers
  <2>4. QED
    BY <2>2, <2>3
<1> HIDE DEF i, rest
<1>3. CASE Settles(i, poll.status) /\ SettleRow(i, poll.status)
  <2>1. i \in Live /\ ~Done(i) /\ poll.status \in {"ok", "failed"}
    BY <1>3 DEF Settles
  <2>2. /\ DOMAIN rows' = Live /\ \A j \in Live : j # i => rows'[j] = rows[j]
        /\ rows'[i] \in Row /\ rows'[i].jobid = rows[i].jobid /\ rows'[i].done
        /\ ~rows'[i].cancelled /\ rows'[i].error = (poll.status = "failed")
        /\ told' \in [Ids -> Seq({"ok", "failed"})]
        /\ told'[i] = <<poll.status>> /\ \A j \in Ids : j # i => told'[j] = told[j]
        /\ invalidated \subseteq invalidated' /\ invalidated' \subseteq Ids
        /\ (poll.status = "ok" /\ run[i] \in Mutating) => i \in invalidated'
    BY <1>3, <2>1, SettleEffect
  <2>3. \E q \in poll.queue : i = q[1]
    <3>1. poll.queue # {}
      BY DEF IInv, CallsFit, PollApply
    <3>2. QED
      BY <3>1, AskedIsQueued DEF IInv, i
  <2>4. rows[i].jobid \in Nums
    BY <2>1, <2>3, QueueType DEF IInv, CallsFit
  <2>5. \A s \in submits : s.id # i
    BY <2>4, NewRowFields DEF IInv, SubmitsFit, Nums
  <2>6. (rows'[i].jobid # None /\ fate[i] = "running") =>
              rows'[i].jobid \in DOMAIN listed /\ listed[rows'[i].jobid] = i
    BY <2>1, <2>2 DEF IInv, ListFits
  <2>7. /\ told'[i] \in {<<>>, <<"ok">>, <<"failed">>}
        /\ rows'[i].error <=> told'[i] = <<"failed">>
        /\ (rows'[i].done /\ ~rows'[i].error /\ ~rows'[i].cancelled) => told'[i] = <<"ok">>
        /\ (told'[i] = <<"ok">> /\ run[i] \in Mutating) => i \in invalidated'
    BY <2>1, <2>2, Announcements
  <2>8. submits' = submits /\ cancels' = cancels
    BY <1>1
  <2>9. UNCHANGED <<seq, run, listed, nextNum, restarts, fate, mishaps>>
    BY <1>1
  <2>10. QED
    BY <1>2, <2>1, <2>2, <2>5, <2>6, <2>7, <2>8, <2>9, RowKeeps
<1>4. CASE UNCHANGED <<rows, told, invalidated>>
  <2>1. /\ \A q \in poll'.queue : q[1] < seq
        /\ cancels \subseteq [id : Ids, num : Nums, phase : {"sent", "back"}]
        /\ \A c \in cancels : c.id < seq
    BY <1>2 DEF IInv, TypeOK, IdsInOrder
  <2>2. CallsFit'
    BY <1>1, <1>2, <1>4 DEF IInv, CallsFit, Live
  <2>3. DOMAIN rows' = Live
    BY <1>4 DEF Live
  <2>4. QED
    BY <1>1, <1>2, <1>4, <2>1, <2>2, <2>3, DropKeeps
<1>5. QED
  BY <1>1, <1>3, <1>4

-----------------------------------------------------------------------------
(* The steps of the daemon *)

\* What a step of the daemon has to keep: rows, poller and announcements are as they
\* were, submissions and cancellations are about the rows they were about.
LEMMA DaemonKeeps ==
    ASSUME IInv, UNCHANGED <<rows, seq, run, poll, told, invalidated>>,
           submits' \subseteq [id : Ids, phase : {"sent", "ok", "err"}, num : Nums \cup {None}],
           \A s \in submits' : \E t \in submits :
              t.id = s.id /\ (s.phase = "sent" => t.phase = "sent" /\ fate'[s.id] = fate[s.id]),
           \A s, t \in submits' : s.id = t.id => s = t,
           cancels' \subseteq [id : Ids, num : Nums, phase : {"sent", "back"}],
           \A c \in cancels' : \E d \in cancels : d.id = c.id /\ d.num = c.num,
           DOMAIN listed' \subseteq Nums, \A n \in DOMAIN listed' : listed'[n] \in Ids,
           \A n \in DOMAIN listed' : listed'[n] < seq,
           nextNum' \in 1 .. MaxRows + 1, restarts' \in 0 .. MaxRestarts,
           fate' \in [Ids -> Fates], \A i \in Ids : fate[i] = "none" /\ i >= seq => fate'[i] = "none",
           MishapChange, Numbered', ListFits'
    PROVE  IInv'
<1>1. Live' = Live /\ \A i \in Live : Done(i)' = Done(i)
  BY DEF Live, Done
<1>2. TypeOK'
  <2>1. mishaps' \in [Ids -> SUBSET Mishaps]
    BY MishapsGrow DEF IInv
  <2>2. QED
    BY <1>1, <2>1 DEF IInv, TypeOK
<1>3. IdsInOrder'
  <2>1. \A s \in submits' : s.id < seq
    BY DEF IInv, IdsInOrder
  <2>2. \A c \in cancels' : c.id < seq
    BY DEF IInv, IdsInOrder
  <2>3. QED
    BY <1>1, <2>1, <2>2 DEF IInv, IdsInOrder
<1>4. SubmitsFit'
  BY <1>1 DEF IInv, SubmitsFit
<1>5. CallsFit'
  BY <1>1 DEF IInv, CallsFit
<1>6. OutcomesFit'
  BY <1>1 DEF IInv, OutcomesFit
<1>7. QED
  BY <1>2, <1>3, <1>4, <1>5, <1>6 DEF IInv

\* The daemon takes a submission under the next number, or refuses it.
LEMMA AcceptStep ==
    ASSUME IInv, NEW s \in submits, Accept(s) \/ Refuse(s)
    PROVE  IInv'
<1> DEFINE SubmitSet == [id : Ids, phase : {"sent", "ok", "err"}, num : Nums \cup {None}]
<1>0. /\ s \in SubmitSet /\ submits \subseteq SubmitSet /\ s.id \in Ids /\ s.id < seq /\ s.phase = "sent"
      /\ \A t \in submits : t.id = s.id => t = s
      /\ \A t, u \in submits : t.id = u.id => t = u
      /\ fate[s.id] = "none" /\ fate \in [Ids -> Fates]
      /\ s.id \in Live /\ rows[s.id].jobid = None
      /\ seq \in 0 .. MaxRows /\ nextNum \in 1 .. MaxRows + 1
  BY NewRowFields DEF IInv, TypeOK, IdsInOrder, SubmitsFit, Accept, Refuse
<1>1. /\ s.id \in Waiting /\ nextNum + Cardinality(Waiting) <= seq + 1
      /\ IsFiniteSet(Waiting) /\ Cardinality(Waiting) \in Nat
  BY <1>0, WaitingIsFinite DEF IInv, Numbered, Waiting
<1>2. Cardinality(Waiting \ {s.id}) = Cardinality(Waiting) - 1 /\ Cardinality(Waiting) >= 1
  <2>1. Cardinality(Waiting \ {s.id}) = Cardinality(Waiting) - 1 /\ IsFiniteSet(Waiting \ {s.id})
    BY <1>1, FS_RemoveElement
  <2>2. Cardinality(Waiting \ {s.id}) \in Nat
    BY <2>1, FS_CardinalityType
  <2>3. QED
    BY <1>1, <2>1, <2>2
<1>3. nextNum \in Nums /\ nextNum + 1 \in 1 .. MaxRows + 1
  BY <1>0, <1>1, <1>2 DEF Nums
<1>4. UNCHANGED <<rows, seq, run, poll, told, invalidated, cancels, restarts>> /\ MishapChange
  <2>1. UNCHANGED <<rows, seq, run, poll, told, invalidated, cancels, restarts>>
    BY DEF Accept, Refuse, ui, daemon, events
  <2>2. MishapChange
    BY <1>0 DEF Accept, Refuse, daemon, MishapChange, Mishaps
  <2>3. QED
    BY <2>1, <2>2
<1>5. \E new \in SubmitSet :
         /\ new.id = s.id /\ new.phase \in {"ok", "err"}
         /\ submits' = (submits \ {s}) \cup {new}
         /\ (Accept(s) /\ new.phase = "ok") => new.num = nextNum
         /\ Refuse(s) => new.phase = "err"
  <2>1. /\ [s EXCEPT !.phase = "ok", !.num = nextNum] \in SubmitSet
        /\ [s EXCEPT !.phase = "ok", !.num = nextNum].id = s.id
        /\ [s EXCEPT !.phase = "ok", !.num = nextNum].phase = "ok"
        /\ [s EXCEPT !.phase = "ok", !.num = nextNum].num = nextNum
        /\ [s EXCEPT !.phase = "err"] \in SubmitSet
        /\ [s EXCEPT !.phase = "err"].id = s.id
        /\ [s EXCEPT !.phase = "err"].phase = "err"
    BY <1>0, <1>3
  <2> DEFINE taken == [s EXCEPT !.phase = "ok", !.num = nextNum]
             failed == [s EXCEPT !.phase = "err"]
  <2>2. /\ Accept(s) => submits' \in {(submits \ {s}) \cup {taken}, (submits \ {s}) \cup {failed}}
        /\ Refuse(s) => submits' = (submits \ {s}) \cup {failed}
    BY DEF Accept, Refuse
  <2>3. /\ taken \in SubmitSet /\ taken.id = s.id /\ taken.phase = "ok" /\ taken.num = nextNum
        /\ failed \in SubmitSet /\ failed.id = s.id /\ failed.phase = "err"
    BY <2>1
  <2>4. ~(Accept(s) /\ Refuse(s))
    <3>1. Accept(s) => nextNum' = nextNum + 1
      BY DEF Accept
    <3>2. Refuse(s) => nextNum' = nextNum
      BY DEF Refuse, daemon
    <3>3. QED
      BY <1>0, <3>1, <3>2
  <2> HIDE DEF taken, failed, SubmitSet
  <2>5. QED
    BY <2>2, <2>3, <2>4
<1>6. PICK new \in SubmitSet :
         /\ new.id = s.id /\ new.phase \in {"ok", "err"}
         /\ submits' = (submits \ {s}) \cup {new}
         /\ (Accept(s) /\ new.phase = "ok") => new.num = nextNum
         /\ Refuse(s) => new.phase = "err"
  BY <1>5
<1> HIDE DEF SubmitSet
<1>7. /\ submits' \subseteq SubmitSet
      /\ \A t \in submits' : t.phase = "sent" => t \in submits /\ t.id # s.id
      /\ \A t \in submits' : t = new \/ (t \in submits /\ t.id # s.id)
      /\ \A t, u \in submits' : t.id = u.id => t = u
  <2>1. \A t \in submits' : t = new \/ (t \in submits /\ t.id # s.id)
    <3>1. /\ submits' = (submits \ {s}) \cup {new}
          /\ \A t \in submits : t.id = s.id => t = s
      BY <1>0, <1>6
    <3>2. ASSUME NEW t \in submits', t # new PROVE t \in submits /\ t.id # s.id
      <4>1. t \in submits /\ t # s
        BY <3>1, <3>2
      <4>2. QED
        BY <3>1, <4>1
    <3>3. QED
      BY <3>2
  <2>2. new.phase # "sent"
    BY <1>6
  <2>3. \A t \in submits' : t.phase = "sent" => t \in submits /\ t.id # s.id
    BY <2>1, <2>2
  <2>4. \A t, u \in submits' : t.id = u.id => t = u
    BY <1>0, <1>6, <2>1
  <2>5. submits' \subseteq SubmitSet
    BY <1>0, <1>6
  <2>6. QED
    BY <2>1, <2>3, <2>4, <2>5
<1>8. Waiting' = Waiting \ {s.id}
  <2>1. \A t \in submits : t.id # s.id => t \in submits'
    BY <1>6
  <2>2. QED
    BY <1>7, <2>1 DEF Waiting
<1>9. CASE Accept(s)
  <2>1. /\ listed' = Put(listed, nextNum, s.id)
        /\ nextNum' = nextNum + 1
        /\ fate' = [fate EXCEPT ![s.id] = "running"]
    BY <1>9 DEF Accept
  <2>2. /\ DOMAIN listed' = DOMAIN listed \cup {nextNum} /\ listed'[nextNum] = s.id
        /\ \A n \in DOMAIN listed : n # nextNum => listed'[n] = listed[n]
    BY <2>1 DEF Put
  <2>3. \A n \in DOMAIN listed : /\ n \in Nat /\ n < nextNum /\ n # nextNum /\ listed[n] \in Ids
                                 /\ listed[n] < seq
                                 /\ fate[listed[n]] \in {"running", "ok", "failed", "stopped"}
    BY <1>0 DEF IInv, TypeOK, ListFits, IdsInOrder, Nums
  <2>4. /\ fate' \in [Ids -> Fates] /\ fate'[s.id] = "running"
        /\ \A i \in Ids : i # s.id => fate'[i] = fate[i]
    BY <1>0, <2>1 DEF Fates
  <2>5. Numbered'
    BY <1>0, <1>1, <1>2, <1>4, <1>8, <2>1 DEF Numbered
  <2>6. ListFits'
    <3>1. \A n \in DOMAIN listed' :
             n < nextNum' /\ fate'[listed'[n]] \in {"running", "ok", "failed", "stopped"}
      BY <1>0, <2>1, <2>2, <2>3, <2>4
    <3>2. \A i \in Live : (rows[i].jobid # None /\ fate'[i] = "running") =>
             rows[i].jobid \in DOMAIN listed' /\ listed'[rows[i].jobid] = i
      <4>1. \A i \in Live : rows[i].jobid # None => i \in Ids /\ i # s.id
        BY <1>0 DEF IInv, TypeOK, Live
      <4>2. \A i \in Live : (rows[i].jobid # None /\ fate[i] = "running") =>
             rows[i].jobid \in DOMAIN listed /\ listed[rows[i].jobid] = i
        BY DEF IInv, ListFits
      <4>3. QED
        BY <2>2, <2>3, <2>4, <4>1, <4>2
    <3>3. \A t \in submits' : (t.phase = "ok" /\ fate'[t.id] = "running") =>
             t.num \in DOMAIN listed' /\ listed'[t.num] = t.id
      <4>1. \A t \in submits : t.id \in Ids
        BY DEF IInv, TypeOK
      <4>2. \A t \in submits : (t.phase = "ok" /\ fate[t.id] = "running") =>
             t.num \in DOMAIN listed /\ listed[t.num] = t.id
        BY DEF IInv, ListFits
      <4>3. QED
        BY <1>6, <1>7, <1>9, <2>2, <2>3, <2>4, <4>1, <4>2
    <3>4. QED
      BY <1>4, <3>1, <3>2, <3>3 DEF ListFits, Live
  <2>7. /\ DOMAIN listed' \subseteq Nums /\ \A n \in DOMAIN listed' : listed'[n] \in Ids
        /\ \A n \in DOMAIN listed' : listed'[n] < seq
    BY <1>0, <1>3, <2>2, <2>3 DEF IInv, TypeOK
  <2>8. \A t \in submits' : \E u \in submits :
              u.id = t.id /\ (t.phase = "sent" => u.phase = "sent" /\ fate'[t.id] = fate[t.id])
    <3>1. \A t \in submits : t.id \in Ids
      BY DEF IInv, TypeOK
    <3>2. QED
      BY <1>6, <1>7, <2>4, <3>1
  <2>9. \A i \in Ids : fate[i] = "none" /\ i >= seq => fate'[i] = "none"
    BY <1>0, <2>4 DEF Ids
  <2>10. /\ cancels' \subseteq [id : Ids, num : Nums, phase : {"sent", "back"}]
         /\ cancels' = cancels /\ restarts' \in 0 .. MaxRestarts
    BY <1>4 DEF IInv, TypeOK
  <2>11. QED
    BY <1>3, <1>4, <1>7, <2>1, <2>4, <2>5, <2>6, <2>7, <2>8, <2>9, <2>10, DaemonKeeps DEF SubmitSet
<1>10. CASE Refuse(s)
  <2>1. UNCHANGED <<listed, nextNum, fate>>
    BY <1>10 DEF Refuse, daemon
  <2>2. Numbered'
    BY <1>0, <1>1, <1>2, <1>4, <1>8, <2>1 DEF Numbered
  <2>3. ListFits'
    BY <1>4, <1>6, <1>7, <1>10, <2>1 DEF IInv, ListFits, Live
  <2>4. \A t \in submits' : \E u \in submits :
              u.id = t.id /\ (t.phase = "sent" => u.phase = "sent" /\ fate'[t.id] = fate[t.id])
    BY <1>6, <1>7, <2>1
  <2>5. /\ cancels' \subseteq [id : Ids, num : Nums, phase : {"sent", "back"}]
        /\ cancels' = cancels /\ restarts' \in 0 .. MaxRestarts
        /\ DOMAIN listed' \subseteq Nums /\ \A n \in DOMAIN listed' : listed'[n] \in Ids
        /\ \A n \in DOMAIN listed' : listed'[n] < seq
        /\ fate' \in [Ids -> Fates]
    BY <1>4, <2>1 DEF IInv, TypeOK, IdsInOrder
  <2>6. QED
    BY <1>0, <1>4, <1>7, <2>1, <2>2, <2>3, <2>4, <2>5, DaemonKeeps DEF SubmitSet
<1>11. QED
  BY <1>9, <1>10

\* A running job ends, by itself or because it was stopped.
LEMMA EndKeeps ==
    ASSUME IInv, NEW n \in DOMAIN listed, fate[listed[n]] = "running",
           NEW f \in {"ok", "failed", "stopped"},
           fate' = [fate EXCEPT ![listed[n]] = f],
           cancels' \subseteq [id : Ids, num : Nums, phase : {"sent", "back"}],
           \A c \in cancels' : \E d \in cancels : d.id = c.id /\ d.num = c.num,
           UNCHANGED <<rows, seq, run, submits, poll, listed, nextNum, restarts, mishaps, told,
                       invalidated>>
    PROVE  IInv'
<1> DEFINE i == listed[n]
<1>1. /\ i \in Ids /\ fate[i] = "running" /\ fate \in [Ids -> Fates]
      /\ \A m \in DOMAIN listed : listed[m] \in Ids /\ listed[m] < seq
      /\ DOMAIN listed \subseteq Nums
      /\ \A s \in submits : s.id \in Ids
      /\ DOMAIN rows \subseteq Ids
  BY DEF IInv, TypeOK, IdsInOrder
<1>2. /\ fate' \in [Ids -> Fates] /\ fate'[i] = f
      /\ \A j \in Ids : j # i => fate'[j] = fate[j]
  BY <1>1 DEF Fates
<1> HIDE DEF i
<1>3. ListFits'
  <2>1. \A j \in Ids : fate'[j] = "running" => fate[j] = "running"
    BY <1>1, <1>2
  <2>2. \A m \in DOMAIN listed' :
           m < nextNum' /\ fate'[listed'[m]] \in {"running", "ok", "failed", "stopped"}
    BY <1>1, <1>2 DEF IInv, ListFits
  <2>3. QED
    BY <1>1, <2>1, <2>2 DEF IInv, ListFits, Live
<1>4. Numbered'
  BY DEF IInv, Numbered, Waiting
<1>5. \A s \in submits' : \E t \in submits :
         t.id = s.id /\ (s.phase = "sent" => t.phase = "sent" /\ fate'[s.id] = fate[s.id])
  BY <1>1, <1>2 DEF IInv, SubmitsFit
<1>6. \A s, t \in submits' : s.id = t.id => s = t
  BY DEF IInv, SubmitsFit
<1>7. /\ nextNum' \in 1 .. MaxRows + 1 /\ restarts' \in 0 .. MaxRestarts
      /\ submits' \subseteq [id : Ids, phase : {"sent", "ok", "err"}, num : Nums \cup {None}]
      /\ listed' = listed
  BY DEF IInv, TypeOK
<1>8. MishapChange /\ \A j \in Ids : fate[j] = "none" /\ j >= seq => fate'[j] = "none"
  BY <1>1, <1>2 DEF MishapChange
<1>9. QED
  BY <1>1, <1>2, <1>3, <1>4, <1>5, <1>6, <1>7, <1>8, DaemonKeeps

LEMMA JobEndsStep ==
    ASSUME IInv, NEW n \in DOMAIN listed, JobEnds(n)
    PROVE  IInv'
<1>1. cancels' = cancels /\ cancels \subseteq [id : Ids, num : Nums, phase : {"sent", "back"}]
  BY DEF JobEnds, IInv, TypeOK
<1>2. /\ fate[listed[n]] = "running"
      /\ UNCHANGED <<rows, seq, run, submits, poll, listed, nextNum, restarts, mishaps, told,
                     invalidated>>
  BY DEF JobEnds, ui, events
<1>3. PICK f \in {"ok", "failed"} : fate' = [fate EXCEPT ![listed[n]] = f]
  BY DEF JobEnds
<1>4. f \in {"ok", "failed", "stopped"}
  OBVIOUS
<1>5. QED
  BY <1>1, <1>2, <1>3, <1>4, EndKeeps

\* The daemon forgets an ended job, or all of them; a restart also fails what it had not
\* taken and answers the stops in flight.
LEMMA ForgetKeeps ==
    ASSUME IInv, DOMAIN listed' \subseteq DOMAIN listed,
           \A n \in DOMAIN listed' : listed'[n] = listed[n],
           \A n \in DOMAIN listed : n \in DOMAIN listed' \/ fate'[listed[n]] # "running",
           nextNum' \in 1 .. MaxRows + 1, nextNum' <= nextNum,
           \A n \in DOMAIN listed' : n < nextNum',
           restarts' \in 0 .. MaxRestarts,
           fate' \in [Ids -> Fates],
           \A i \in Ids : fate'[i] = fate[i] \/ (fate[i] = "running" /\ fate'[i] = "lost"),
           \A n \in DOMAIN listed' : fate'[listed[n]] = fate[listed[n]],
           submits' \subseteq [id : Ids, phase : {"sent", "ok", "err"}, num : Nums \cup {None}],
           \A s \in submits' : s \in submits \/
              (s.phase = "err" /\ \E t \in submits : t.id = s.id /\ t.phase = "sent"),
           \A s, t \in submits' : s.id = t.id => s = t,
           cancels' \subseteq [id : Ids, num : Nums, phase : {"sent", "back"}],
           \A c \in cancels' : \E d \in cancels : d.id = c.id /\ d.num = c.num,
           MishapChange, UNCHANGED <<rows, seq, run, poll, told, invalidated>>
    PROVE  IInv'
<1>1. /\ \A n \in DOMAIN listed : listed[n] \in Ids /\ listed[n] < seq
      /\ DOMAIN listed \subseteq Nums
      /\ \A s \in submits : s.id \in Ids
      /\ DOMAIN rows \subseteq Ids
      /\ nextNum \in Nat /\ nextNum' \in Nat /\ seq \in Nat
  BY DEF IInv, TypeOK, IdsInOrder
<1>2. Numbered'
  <2>1. Waiting' \subseteq Waiting
    BY DEF Waiting
  <2>2. IsFiniteSet(Waiting) /\ Cardinality(Waiting) \in Nat
    BY WaitingIsFinite DEF IInv
  <2>3. IsFiniteSet(Waiting') /\ Cardinality(Waiting') <= Cardinality(Waiting)
    BY <2>1, <2>2, FS_Subset
  <2>4. Cardinality(Waiting') \in Nat
    BY <2>3, FS_CardinalityType
  <2>5. QED
    BY <1>1, <2>2, <2>3, <2>4 DEF IInv, Numbered
<1>3. \A i \in Ids : fate'[i] = "running" => fate[i] = "running"
  OBVIOUS
<1>4. ListFits'
  <2>1. \A n \in DOMAIN listed' :
           n < nextNum' /\ fate'[listed'[n]] \in {"running", "ok", "failed", "stopped"}
    BY DEF IInv, ListFits
  <2>2. \A i \in Live' : (rows'[i].jobid # None /\ fate'[i] = "running") =>
           rows'[i].jobid \in DOMAIN listed' /\ listed'[rows'[i].jobid] = i
    BY <1>1, <1>3 DEF IInv, ListFits, Live
  <2>3. \A s \in submits' : (s.phase = "ok" /\ fate'[s.id] = "running") =>
           s.num \in DOMAIN listed' /\ listed'[s.num] = s.id
    BY <1>1, <1>3 DEF IInv, ListFits
  <2>4. QED
    BY <2>1, <2>2, <2>3 DEF ListFits
<1>5. \A s \in submits' : \E t \in submits :
         t.id = s.id /\ (s.phase = "sent" => t.phase = "sent" /\ fate'[s.id] = fate[s.id])
  <2> SUFFICES ASSUME NEW s \in submits'
      PROVE \E t \in submits :
               t.id = s.id /\ (s.phase = "sent" => t.phase = "sent" /\ fate'[s.id] = fate[s.id])
    OBVIOUS
  <2>1. CASE s \in submits
    <3>1. s.phase = "sent" => fate[s.id] = "none"
      BY <2>1 DEF IInv, SubmitsFit
    <3>2. s.phase = "sent" => fate'[s.id] = fate[s.id]
      BY <1>1, <2>1, <3>1
    <3>3. QED
      BY <2>1, <3>2
  <2>2. CASE s \notin submits
    BY <2>2
  <2>3. QED
    BY <2>1, <2>2
<1>6. \A i \in Ids : fate[i] = "none" /\ i >= seq => fate'[i] = "none"
  OBVIOUS
<1>7. /\ DOMAIN listed' \subseteq Nums /\ \A n \in DOMAIN listed' : listed'[n] \in Ids
      /\ \A n \in DOMAIN listed' : listed'[n] < seq
  BY <1>1
<1>8. QED
  BY <1>2, <1>4, <1>5, <1>6, <1>7, DaemonKeeps

LEMMA ExpireStep ==
    ASSUME IInv, NEW n \in DOMAIN listed, Expire(n)
    PROVE  IInv'
<1>1. /\ fate[listed[n]] # "running" /\ listed' = Keep(listed, Nums \ {n})
      /\ UNCHANGED <<rows, seq, run, submits, cancels, poll, nextNum, restarts, fate, mishaps, told, invalidated>>
  BY DEF Expire, ui, events
<1>2. /\ DOMAIN listed' = DOMAIN listed \ {n}
      /\ \A m \in DOMAIN listed' : listed'[m] = listed[m]
  <2>1. DOMAIN listed \subseteq Nums
    BY DEF IInv, TypeOK
  <2>2. QED
    BY <1>1, <2>1 DEF Keep
<1>3. /\ nextNum \in 1 .. MaxRows + 1 /\ restarts \in 0 .. MaxRestarts
      /\ fate \in [Ids -> Fates] /\ nextNum <= nextNum /\ MishapChange
      /\ submits \subseteq [id : Ids, phase : {"sent", "ok", "err"}, num : Nums \cup {None}]
      /\ cancels \subseteq [id : Ids, num : Nums, phase : {"sent", "back"}]
      /\ \A s, t \in submits : s.id = t.id => s = t
      /\ \A m \in DOMAIN listed : m < nextNum
  BY <1>1 DEF IInv, TypeOK, SubmitsFit, ListFits, MishapChange
<1>4. QED
  BY <1>1, <1>2, <1>3, ForgetKeeps

LEMMA RestartStep ==
    ASSUME IInv, Restart
    PROVE  IInv'
<1> DEFINE SubmitSet == [id : Ids, phase : {"sent", "ok", "err"}, num : Nums \cup {None}]
           CancelSet == [id : Ids, num : Nums, phase : {"sent", "back"}]
<1>1. /\ restarts < MaxRestarts /\ restarts' = restarts + 1
      /\ listed' = <<>> /\ nextNum' = 1
      /\ fate' = [i \in Ids |-> IF fate[i] = "running" THEN "lost" ELSE fate[i]]
      /\ submits' = {IF s.phase = "sent" THEN [s EXCEPT !.phase = "err"] ELSE s : s \in submits}
      /\ cancels' = {[c EXCEPT !.phase = "back"] : c \in cancels}
      /\ UNCHANGED <<rows, seq, run, poll, told, invalidated>>
  BY DEF Restart, ui, events
<1>2. /\ submits \subseteq SubmitSet /\ cancels \subseteq CancelSet
      /\ nextNum \in 1 .. MaxRows + 1 /\ restarts \in 0 .. MaxRestarts /\ fate \in [Ids -> Fates]
      /\ \A n \in DOMAIN listed : listed[n] \in Ids
      /\ \A s, t \in submits : s.id = t.id => s = t
  BY DEF IInv, TypeOK, SubmitsFit
<1>3. DOMAIN listed' = {}
  BY <1>1
<1>4. \A s \in SubmitSet : /\ [s EXCEPT !.phase = "err"] \in SubmitSet
                           /\ [s EXCEPT !.phase = "err"].id = s.id
                           /\ [s EXCEPT !.phase = "err"].phase = "err"
  OBVIOUS
<1>5. \A c \in CancelSet : /\ [c EXCEPT !.phase = "back"] \in CancelSet
                           /\ [c EXCEPT !.phase = "back"].id = c.id
                           /\ [c EXCEPT !.phase = "back"].num = c.num
  OBVIOUS
<1>6. \A s \in submits' : \E t \in submits :
         /\ s = IF t.phase = "sent" THEN [t EXCEPT !.phase = "err"] ELSE t
         /\ s.id = t.id /\ s \in SubmitSet
         /\ s = t \/ (s.phase = "err" /\ t.phase = "sent")
  <2> HIDE DEF SubmitSet
  <2>1. \A s \in submits' : \E t \in submits :
           s = IF t.phase = "sent" THEN [t EXCEPT !.phase = "err"] ELSE t
    BY <1>1
  <2>2. ASSUME NEW s \in submits', NEW t \in submits,
               s = IF t.phase = "sent" THEN [t EXCEPT !.phase = "err"] ELSE t
        PROVE  /\ s.id = t.id /\ s \in SubmitSet
               /\ s = t \/ (s.phase = "err" /\ t.phase = "sent")
    <3>1. t \in SubmitSet
      BY <1>2
    <3>2. CASE t.phase = "sent"
      <4>1. s = [t EXCEPT !.phase = "err"]
        BY <2>2, <3>2
      <4>2. QED
        BY <1>4, <3>1, <3>2, <4>1
    <3>3. CASE t.phase # "sent"
      BY <2>2, <3>1, <3>3
    <3>4. QED
      BY <3>2, <3>3
  <2>3. QED
    BY <2>1, <2>2
<1>7. \A c \in cancels' : \E d \in cancels : c \in CancelSet /\ d.id = c.id /\ d.num = c.num
  <2> HIDE DEF CancelSet
  <2>1. \A c \in cancels' : \E d \in cancels : c = [d EXCEPT !.phase = "back"]
    BY <1>1
  <2>2. ASSUME NEW c \in cancels', NEW d \in cancels, c = [d EXCEPT !.phase = "back"]
        PROVE  c \in CancelSet /\ d.id = c.id /\ d.num = c.num
    BY <1>2, <1>5, <2>2
  <2>3. QED
    BY <2>1, <2>2
<1> HIDE DEF SubmitSet, CancelSet
<1>8. \A s, t \in submits' : s.id = t.id => s = t
  <2> SUFFICES ASSUME NEW s \in submits', NEW t \in submits', s.id = t.id PROVE s = t
    OBVIOUS
  <2>1. PICK u \in submits : /\ s = IF u.phase = "sent" THEN [u EXCEPT !.phase = "err"] ELSE u
                             /\ s.id = u.id
    BY <1>6
  <2>2. PICK v \in submits : /\ t = IF v.phase = "sent" THEN [v EXCEPT !.phase = "err"] ELSE v
                             /\ t.id = v.id
    BY <1>6
  <2>3. u = v
    BY <1>2, <2>1, <2>2
  <2>4. QED
    BY <2>1, <2>2, <2>3
<1>9. /\ fate' \in [Ids -> Fates]
      /\ \A i \in Ids : fate'[i] # "running"
      /\ \A i \in Ids : fate'[i] = fate[i] \/ (fate[i] = "running" /\ fate'[i] = "lost")
  BY <1>1, <1>2 DEF Fates
<1>10. /\ nextNum' \in 1 .. MaxRows + 1 /\ nextNum' <= nextNum
       /\ restarts' \in 0 .. MaxRestarts
       /\ MishapChange
  BY <1>1, <1>2 DEF MishapChange, Restart
<1>11. submits' \subseteq SubmitSet /\ cancels' \subseteq CancelSet
  BY <1>6, <1>7
<1>12. QED
  BY <1>1, <1>2, <1>3, <1>6, <1>7, <1>8, <1>9, <1>10, <1>11, ForgetKeeps DEF SubmitSet, CancelSet

\* A stop ends the job of that number if it runs; the answer is on its way either way.
LEMMA StopStep ==
    ASSUME IInv, NEW c \in cancels, Stop(c)
    PROVE  IInv'
<1> DEFINE CancelSet == [id : Ids, num : Nums, phase : {"sent", "back"}]
           back == [c EXCEPT !.phase = "back"]
<1>1. /\ cancels' = (cancels \ {c}) \cup {back}
      /\ UNCHANGED <<rows, seq, run, submits, poll, listed, nextNum, restarts, told, invalidated>>
  BY DEF Stop, ui, events
<1>1a. \/ /\ Runs(c.num) /\ fate' = [fate EXCEPT ![listed[c.num]] = "stopped"]
          /\ UNCHANGED mishaps
       \/ UNCHANGED fate /\ MishapChange
  <2>1. \A n \in DOMAIN listed : listed[n] \in Ids
    BY DEF IInv, TypeOK
  <2>2. QED
    BY <2>1 DEF Stop, Runs, MishapChange, Mishaps
<1>2. cancels \subseteq CancelSet /\ c \in CancelSet
  BY DEF IInv, TypeOK
<1>3. back \in CancelSet /\ back.id = c.id /\ back.num = c.num
  BY <1>2
<1> HIDE DEF CancelSet, back
<1>4. /\ cancels' \subseteq CancelSet
      /\ \A d \in cancels' : \E e \in cancels : e.id = d.id /\ e.num = d.num
  BY <1>1, <1>2, <1>3
<1>5. CASE /\ Runs(c.num) /\ fate' = [fate EXCEPT ![listed[c.num]] = "stopped"]
           /\ UNCHANGED mishaps
  BY <1>1, <1>4, <1>5, EndKeeps DEF CancelSet, Runs
<1>6. CASE UNCHANGED fate /\ MishapChange
  <2>1. /\ nextNum \in 1 .. MaxRows + 1 /\ restarts \in 0 .. MaxRestarts
        /\ fate \in [Ids -> Fates] /\ nextNum <= nextNum
        /\ submits \subseteq [id : Ids, phase : {"sent", "ok", "err"}, num : Nums \cup {None}]
        /\ \A s, t \in submits : s.id = t.id => s = t
        /\ \A m \in DOMAIN listed : m < nextNum
    BY DEF IInv, TypeOK, SubmitsFit, ListFits
  <2>2. QED
    BY <1>1, <1>4, <1>6, <2>1, ForgetKeeps DEF CancelSet
<1>7. QED
  BY <1>1a, <1>5, <1>6

-----------------------------------------------------------------------------
(* The invariant, and what it says *)

LEMMA NextIInv == IInv /\ [Next]_vars => IInv'
<1> SUFFICES ASSUME IInv, [Next]_vars PROVE IInv'
  OBVIOUS
<1>1. ASSUME Spawn PROVE IInv'
  BY <1>1, StartStep
<1>2. ASSUME NEW i \in Live, Retry(i) \/ ClearJob(i) \/ Cancel(i) PROVE IInv'
  BY <1>2, StartStep, UserStep
<1>3. ASSUME ClearFinished PROVE IInv'
  BY <1>3, UserStep
<1>4. ASSUME NEW s \in submits, Accept(s) \/ Refuse(s) \/ OnJobSubmitted(s) PROVE IInv'
  BY <1>4, AcceptStep, SubmittedStep
<1>5. ASSUME NEW c \in cancels, Stop(c) \/ OnCancelled(c) PROVE IInv'
  BY <1>5, StopStep, CancelledStep
<1>6. ASSUME Poller PROVE IInv'
  BY <1>6, PollStep, ApplyStep DEF Poller
<1>7. ASSUME NEW n \in DOMAIN listed, JobEnds(n) \/ Expire(n) PROVE IInv'
  BY <1>7, JobEndsStep, ExpireStep
<1>8. ASSUME Restart PROVE IInv'
  BY <1>8, RestartStep
<1>9. CASE UNCHANGED vars
  BY <1>9 DEF vars, ui, daemon, events, IInv, TypeOK, IdsInOrder, SubmitsFit, Numbered, Waiting,
              CallsFit, OutcomesFit, ListFits, Live, Done
<1>10. QED
  BY <1>1, <1>2, <1>3, <1>4, <1>5, <1>6, <1>7, <1>8, <1>9 DEF Next

LEMMA AlwaysIInv == Spec => []IInv
<1>1. QED
  BY InitIInv, NextIInv, PTL DEF Spec

\* The end of an operation is announced at most once, whichever of the submission, the
\* poller and a cancellation sees it, and however they interleave.
THEOREM ToldOnceAlways == Spec => []ToldOnce
<1>1. IInv => ToldOnce
  <2> SUFFICES ASSUME IInv PROVE ToldOnce
    OBVIOUS
  <2>1. Len(<<>>) <= 1 /\ Len(<<"ok">>) <= 1 /\ Len(<<"failed">>) <= 1
    OBVIOUS
  <2>2. \A i \in Ids : told[i] \in {<<>>, <<"ok">>, <<"failed">>}
    BY DEF IInv, OutcomesFit
  <2>3. \A i \in Ids : Len(told[i]) <= 1
    BY <2>1, <2>2
  <2>4. QED
    BY <2>3 DEF IInv, ToldOnce
<1>2. QED
  BY AlwaysIInv, <1>1, PTL

\* A row that shows success had its success announced and the listings it changed
\* refreshed, and a failure is shown exactly where one was announced.
THEOREM SuccessAlwaysRefreshes == Spec => []SuccessRefreshes
<1>1. IInv => SuccessRefreshes
  BY DEF IInv, OutcomesFit, SuccessRefreshes, Live
<1>2. QED
  BY AlwaysIInv, <1>1, PTL

-----------------------------------------------------------------------------
(* How the parts of the state can change in one step *)

\* The ways a row can be, after a step: as before, new, given the number of its job,
\* failed because its submission failed, cancelled, or settled by the poller.
AsBefore(i) == i \in Live /\ rows'[i] = rows[i] /\ told'[i] = told[i]
Enqueued(i) == i \notin Live /\ i = seq /\ rows'[i] = NewRow /\ told'[i] = <<>>
GivenNumber(i) ==
    /\ i \in Live /\ rows[i] = NewRow
    /\ \E s \in submits : /\ s.id = i /\ s.phase = "ok"
                          /\ rows'[i] = [rows[i] EXCEPT !.jobid = s.num]
    /\ told'[i] = told[i]
NotSubmitted(i) ==
    /\ i \in Live /\ rows[i] = NewRow
    /\ \E s \in submits : s.id = i /\ s.phase = "err"
    /\ rows'[i] = [rows[i] EXCEPT !.done = TRUE, !.error = TRUE]
    /\ told'[i] = <<"failed">>
CancelledNow(i) ==
    /\ i \in Live
    /\ \E c \in cancels \ cancels' : c.id = i /\ c.phase = "back"
    /\ rows'[i] = [rows[i] EXCEPT !.done = TRUE, !.cancelled = TRUE]
    /\ told'[i] = told[i]
SettledNow(i) ==
    /\ i \in Live /\ ~Done(i) /\ poll.at = "apply" /\ i = Asked[1]
    /\ poll.status \in {"ok", "failed"}
    /\ rows'[i] = [rows[i] EXCEPT !.done = TRUE, !.error = (poll.status = "failed")]
    /\ told'[i] = <<poll.status>>

RowChange(i) == \/ AsBefore(i) \/ Enqueued(i) \/ GivenNumber(i) \/ NotSubmitted(i)
                \/ CancelledNow(i) \/ SettledNow(i)

\* What is announced is announced for a row that stays.
RowsChange ==
    /\ \A i \in DOMAIN rows' : RowChange(i)
    /\ \A i \in Ids : i \notin DOMAIN rows' => told'[i] = told[i]

LEMMA RowSteps ==
    ASSUME IInv, [Next]_vars
    PROVE  RowsChange
<1>0. told \in [Ids -> Seq({"ok", "failed"})] /\ Live \subseteq Ids
  BY DEF IInv, TypeOK, Live
<1>1. ASSUME NEW K, K \subseteq Live, rows' = Keep(rows, K), told' = told
      PROVE  RowsChange
  BY <1>1, KeepEffect DEF RowsChange, RowChange, AsBefore
<1>2. ASSUME UNCHANGED <<rows, told>> PROVE RowsChange
  BY <1>2 DEF RowsChange, RowChange, AsBefore, Live
<1>3. ASSUME NEW kept, NEW op, DOMAIN kept \subseteq Live,
             \A i \in DOMAIN kept : kept[i] = rows[i], Enqueue(kept, op)
      PROVE  RowsChange
  <2>1. /\ seq \in Ids /\ seq \notin Live /\ rows'[seq] = NewRow
        /\ \A i \in DOMAIN rows' : i # seq => i \in Live /\ rows'[i] = rows[i]
    BY <1>3, EnqueueEffect DEF IInv
  <2>2. told' = told /\ told[seq] = <<>>
    BY <1>3, <2>1 DEF Enqueue, events, IInv, TypeOK, IdsInOrder
  <2>3. QED
    BY <2>1, <2>2 DEF RowsChange, RowChange, AsBefore, Enqueued
<1>4. CASE Spawn
  BY <1>3, <1>4 DEF Spawn, Live
<1>5. ASSUME NEW i \in Live, Retry(i) PROVE RowsChange
  <2>1. DOMAIN Keep(rows, Live \ {i}) \subseteq Live
    BY DEF Keep, Live
  <2>2. \A j \in DOMAIN Keep(rows, Live \ {i}) : Keep(rows, Live \ {i})[j] = rows[j]
    BY DEF Keep, Live
  <2>3. Enqueue(Keep(rows, Live \ {i}), run[i])
    BY <1>5 DEF Retry
  <2>4. QED
    BY <1>3, <2>1, <2>2, <2>3
<1>6. ASSUME NEW i \in Live, ClearJob(i) PROVE RowsChange
  <2>1. rows' = Keep(rows, Live \ {i}) /\ told' = told /\ Live \ {i} \subseteq Live
    BY <1>6 DEF ClearJob, events
  <2>2. QED
    BY <1>1, <2>1
<1>7. ASSUME NEW i \in Live, Cancel(i) PROVE RowsChange
  BY <1>2, <1>7 DEF Cancel, ui, events
<1>8. CASE ClearFinished
  <2>1. rows' = Keep(rows, Live \ Finished) /\ told' = told /\ Live \ Finished \subseteq Live
    BY <1>8 DEF ClearFinished, events
  <2>2. QED
    BY <1>1, <2>1
<1>9. ASSUME NEW s \in submits, Accept(s) \/ Refuse(s) PROVE RowsChange
  BY <1>2, <1>9 DEF Accept, Refuse, ui, events
<1>10. ASSUME NEW s \in submits, OnJobSubmitted(s) PROVE RowsChange
  <2> DEFINE i == s.id
  <2>1. /\ i \in Live /\ i \in Ids /\ rows[i] = NewRow /\ told[i] = <<>>
    BY DEF IInv, SubmitsFit, TypeOK
  <2>2. CASE s.phase = "ok"
    <3>1. rows' = [rows EXCEPT ![i].jobid = s.num] /\ told' = told
      BY <1>10, <2>1, <2>2 DEF OnJobSubmitted
    <3>2. /\ DOMAIN rows' = Live /\ \A j \in Live : j # i => rows'[j] = rows[j]
          /\ rows'[i] = [rows[i] EXCEPT !.jobid = s.num]
      BY <2>1, <3>1 DEF Live
    <3>3. RowChange(i)
      BY <2>1, <2>2, <3>1, <3>2 DEF RowChange, GivenNumber
    <3> HIDE DEF i
    <3>4. \A j \in DOMAIN rows' : RowChange(j)
      BY <3>1, <3>2, <3>3 DEF RowChange, AsBefore
    <3>5. QED
      BY <3>1, <3>4 DEF RowsChange
  <2>3. CASE s.phase # "ok"
    <3>1. /\ s.phase = "err"
          /\ rows' = [rows EXCEPT ![i].done = TRUE, ![i].error = TRUE]
          /\ told' = [told EXCEPT ![i] = Append(told[i], "failed")]
      BY <1>10, <2>1, <2>3 DEF OnJobSubmitted
    <3>2. /\ DOMAIN rows' = Live /\ \A j \in Live : j # i => rows'[j] = rows[j]
          /\ rows'[i] = [rows[i] EXCEPT !.done = TRUE, !.error = TRUE]
      BY <2>1, <3>1 DEF Live
    <3>3. told'[i] = <<"failed">> /\ \A j \in Ids : j # i => told'[j] = told[j]
      BY <1>0, <2>1, <3>1, Announcements
    <3>4. RowChange(i)
      BY <2>1, <3>1, <3>2, <3>3 DEF RowChange, NotSubmitted
    <3> HIDE DEF i
    <3>5. \A j \in DOMAIN rows' : RowChange(j)
      BY <1>0, <3>2, <3>3, <3>4 DEF RowChange, AsBefore
    <3>6. \A j \in Ids : j \notin DOMAIN rows' => told'[j] = told[j]
      BY <2>1, <3>2, <3>3 DEF i
    <3>7. QED
      BY <3>5, <3>6 DEF RowsChange
  <2>4. QED
    BY <2>2, <2>3
<1>11. ASSUME NEW c \in cancels, Stop(c) PROVE RowsChange
  BY <1>2, <1>11 DEF Stop, ui, events
<1>12. ASSUME NEW c \in cancels, OnCancelled(c) PROVE RowsChange
  <2>1. CASE c.id \notin Live
    BY <1>2, <1>12, <2>1 DEF OnCancelled, events
  <2>2. CASE c.id \in Live
    <3> DEFINE i == c.id
    <3>1. /\ c.phase = "back" /\ told' = told /\ c \in cancels \ cancels'
          /\ rows' = [rows EXCEPT ![i].done = TRUE, ![i].cancelled = TRUE]
      BY <1>12, <2>2 DEF OnCancelled, events
    <3>2. /\ DOMAIN rows' = Live /\ \A j \in Live : j # i => rows'[j] = rows[j]
          /\ rows'[i] = [rows[i] EXCEPT !.done = TRUE, !.cancelled = TRUE]
      BY <2>2, <3>1 DEF Live
    <3>3. RowChange(i)
      BY <2>2, <3>1, <3>2 DEF RowChange, CancelledNow
    <3> HIDE DEF i
    <3>4. \A j \in DOMAIN rows' : RowChange(j)
      BY <3>1, <3>2, <3>3 DEF RowChange, AsBefore
    <3>5. QED
      BY <3>1, <3>4 DEF RowsChange
  <2>3. QED
    BY <2>1, <2>2
<1>13. CASE Poller
  <2>1. CASE PollListed \/ PollStatus
    BY <1>2, <2>1 DEF PollListed, PollStatus, ui, events
  <2>2. CASE PollRetain
    <3>1. \E K : K \subseteq Live /\ rows' = Keep(rows, K)
      <4> DEFINE K == {i \in Live : \/ poll.live = None
                                    \/ rows[i].jobid = None
                                    \/ rows[i].jobid \in poll.live}
      <4>1. K \subseteq Live /\ rows' = Keep(rows, K)
        BY <2>2 DEF PollRetain
      <4>2. QED
        BY <4>1
    <3>2. told' = told
      BY <2>2 DEF PollRetain, events
    <3>3. QED
      BY <1>1, <3>1, <3>2
  <2>3. CASE PollApply
    <3> DEFINE i == Asked[1]
    <3>1. CASE UNCHANGED <<rows, told>>
      BY <1>2, <3>1
    <3>2. CASE Settles(i, poll.status) /\ SettleRow(i, poll.status)
      <4>1. i \in Live /\ ~Done(i) /\ poll.status \in {"ok", "failed"} /\ poll.at = "apply"
        BY <2>3, <3>2 DEF Settles, PollApply
      <4>2. /\ DOMAIN rows' = Live /\ \A j \in Live : j # i => rows'[j] = rows[j]
            /\ told'[i] = <<poll.status>> /\ \A j \in Ids : j # i => told'[j] = told[j]
        BY <3>2, <4>1, SettleEffect
      <4>3. rows'[i] = [rows[i] EXCEPT !.done = TRUE, !.error = (poll.status = "failed")]
        BY <3>2, <4>1 DEF SettleRow, Live
      <4>4. RowChange(i)
        BY <4>1, <4>2, <4>3 DEF RowChange, SettledNow
      <4> HIDE DEF i
      <4>5. \A j \in DOMAIN rows' : RowChange(j)
        BY <1>0, <4>2, <4>4 DEF RowChange, AsBefore
      <4>6. \A j \in Ids : j \notin DOMAIN rows' => told'[j] = told[j]
        BY <4>1, <4>2
      <4>7. QED
        BY <4>5, <4>6 DEF RowsChange
    <3>3. QED
      BY <2>3, <3>1, <3>2 DEF PollApply, events
  <2>4. QED
    BY <1>13, <2>1, <2>2, <2>3 DEF Poller
<1>14. ASSUME NEW n \in DOMAIN listed, JobEnds(n) \/ Expire(n) PROVE RowsChange
  BY <1>2, <1>14 DEF JobEnds, Expire, ui, events
<1>15. CASE Restart
  BY <1>2, <1>15 DEF Restart, ui, events
<1>16. CASE UNCHANGED vars
  BY <1>2, <1>16 DEF vars, ui, events
<1>17. QED
  BY <1>4, <1>5, <1>6, <1>7, <1>8, <1>9, <1>10, <1>11, <1>12, <1>13, <1>14, <1>15, <1>16 DEF Next

\* A settled row stays settled, with the error and the job it has: no late answer, of
\* the poller, of a submission or of a cancellation, turns a failure into a success; and
\* what it shows changes to Cancelled only by the answer to a stop the user asked of it.
THEOREM DoneStaysFinal == Spec => DoneIsFinal
<1> DEFINE Marked(i) == rows'[i].cancelled /\ \E c \in cancels \ cancels' :
                                                  c.id = i /\ c.phase = "back"
<1>1. IInv /\ [Next]_vars =>
         \A i \in Live \cap DOMAIN rows' :
            /\ Done(i) => rows'[i].done /\ rows'[i].error = rows[i].error
            /\ rows[i].jobid # None => rows'[i].jobid = rows[i].jobid
            /\ rows'[i].cancelled # rows[i].cancelled => Marked(i)
  <2> SUFFICES ASSUME IInv, [Next]_vars, NEW i \in Live, i \in DOMAIN rows'
               PROVE  /\ Done(i) => rows'[i].done /\ rows'[i].error = rows[i].error
                      /\ rows[i].jobid # None => rows'[i].jobid = rows[i].jobid
                      /\ rows'[i].cancelled # rows[i].cancelled => Marked(i)
    OBVIOUS
  <2>1. RowChange(i)
    BY RowSteps DEF RowsChange
  <2>2. rows[i] \in Row
    BY DEF IInv, TypeOK
  <2>3. CASE AsBefore(i)
    BY <2>3 DEF AsBefore, Done
  <2>4. CASE Enqueued(i)
    BY <2>4 DEF Enqueued
  <2>5. CASE GivenNumber(i)
    BY <2>5, NewRowFields DEF GivenNumber, Done
  <2>6. CASE NotSubmitted(i)
    BY <2>2, <2>6, NewRowFields DEF NotSubmitted, Done, Row
  <2>7. CASE CancelledNow(i)
    BY <2>2, <2>7 DEF CancelledNow, Row
  <2>8. CASE SettledNow(i)
    BY <2>2, <2>8 DEF SettledNow, Row
  <2>9. QED
    BY <2>1, <2>3, <2>4, <2>5, <2>6, <2>7, <2>8 DEF RowChange
<1>2. IInv /\ [Next]_vars =>
         \A i \in Live \cap DOMAIN rows' :
            /\ Done(i) => rows'[i].done /\ rows'[i].error = rows[i].error
            /\ rows[i].jobid # None => rows'[i].jobid = rows[i].jobid
            /\ rows'[i].cancelled # rows[i].cancelled =>
                  /\ rows'[i].cancelled
                  /\ \E c \in cancels \ cancels' : c.id = i /\ c.phase = "back"
  BY <1>1
<1>3. QED
  BY AlwaysIInv, <1>2, PTL DEF Spec, DoneIsFinal

\* A job starts when its submission is taken, once, and ends for good.
FateChange(i) ==
    \/ fate'[i] = fate[i]
    \/ fate[i] = "running" /\ fate'[i] \in {"ok", "failed", "stopped", "lost"}
    \/ fate[i] = "none" /\ fate'[i] = "running" /\ \E s \in submits : s.id = i /\ s.phase = "sent"

\* A submission in flight was there, or is of a new row, or was taken under the next
\* number, or has failed: because its answer was lost, or without a job.
SubmitChange(s) ==
    \/ s \in submits
    \/ s.id \notin Live /\ s.phase = "sent"
    \/ /\ \E t \in submits : t.id = s.id /\ t.phase = "sent"
       /\ \/ /\ s.phase = "ok" /\ s.num = nextNum /\ nextNum' = nextNum + 1
             /\ fate'[s.id] = "running"
             /\ nextNum \in DOMAIN listed' /\ listed'[nextNum] = s.id
          \/ /\ s.phase = "err"
             /\ \/ "reply" \in Fallible /\ "reply" \in mishaps'[s.id]
                \/ fate'[s.id] = "none"

\* The table of the daemon gets the next number, or loses some, unless it is restarted.
ListChange ==
    \/ /\ nextNum' >= nextNum
       /\ \A n \in DOMAIN listed' :
             \/ n \in DOMAIN listed /\ listed'[n] = listed[n]
             \/ n = nextNum /\ nextNum' = nextNum + 1 /\ \E s \in submits :
                   s.id = listed'[n] /\ s.phase = "sent"
    \/ \A i \in Ids : fate[i] # "none" => "restart" \in mishaps'[i]

LEMMA DaemonSteps ==
    ASSUME IInv, [Next]_vars
    PROVE  /\ \A i \in Ids : FateChange(i)
           /\ \A s \in submits' : SubmitChange(s)
           /\ ListChange /\ MishapChange
<1> DEFINE Goal == /\ \A i \in Ids : FateChange(i)
                   /\ \A s \in submits' : SubmitChange(s)
                   /\ ListChange /\ MishapChange
<1>0. /\ fate \in [Ids -> Fates] /\ nextNum \in Nat /\ restarts \in Nat
      /\ \A s \in submits : s.id \in Ids /\ (s.phase = "sent" => fate[s.id] = "none")
      /\ \A n \in DOMAIN listed : listed[n] \in Ids
      /\ mishaps \in [Ids -> SUBSET Mishaps]
      /\ submits \subseteq [id : Ids, phase : {"sent", "ok", "err"}, num : Nums \cup {None}]
  BY DEF IInv, TypeOK, SubmitsFit
<1>1. ASSUME UNCHANGED daemon, submits' \subseteq submits PROVE Goal
  BY <1>0, <1>1 DEF daemon, FateChange, SubmitChange, ListChange, MishapChange
<1>2. ASSUME NEW kept, NEW op, Enqueue(kept, op) PROVE Goal
  <2>1. /\ submits' = submits \cup {[id |-> seq, phase |-> "sent", num |-> None]}
        /\ UNCHANGED daemon /\ seq < MaxRows
    BY <1>2 DEF Enqueue
  <2>2. seq \notin Live
    BY <2>1 DEF IInv, TypeOK, IdsInOrder, Ids, Live
  <2>3. QED
    BY <1>0, <2>1, <2>2 DEF daemon, FateChange, SubmitChange, ListChange, MishapChange
<1>3. CASE Spawn \/ \E i \in Live : Retry(i)
  BY <1>2, <1>3 DEF Spawn, Retry
<1>4. CASE \/ \E i \in Live : ClearJob(i) \/ Cancel(i)
           \/ ClearFinished
           \/ \E s \in submits : OnJobSubmitted(s)
           \/ \E c \in cancels : OnCancelled(c)
  BY <1>1, <1>4 DEF ClearJob, Cancel, ClearFinished, OnJobSubmitted, OnCancelled
<1>5. CASE Poller
  BY <1>1, <1>5 DEF Poller, PollListed, PollRetain, PollStatus, PollApply
<1>6. ASSUME NEW s \in submits, Accept(s) PROVE Goal
  <2> DEFINE taken == [s EXCEPT !.phase = "ok", !.num = nextNum]
             failed == [s EXCEPT !.phase = "err"]
  <2>1. /\ s.phase = "sent" /\ listed' = Put(listed, nextNum, s.id) /\ nextNum' = nextNum + 1
        /\ fate' = [fate EXCEPT ![s.id] = "running"]
        /\ \/ submits' = (submits \ {s}) \cup {taken} /\ UNCHANGED mishaps
           \/ /\ submits' = (submits \ {s}) \cup {failed}
              /\ "reply" \in Fallible /\ mishaps' = [mishaps EXCEPT ![s.id] = @ \cup {"reply"}]
    BY <1>6 DEF Accept
  <2>2. /\ taken.id = s.id /\ taken.phase = "ok" /\ taken.num = nextNum
        /\ failed.id = s.id /\ failed.phase = "err"
    BY <1>0
  <2>3. /\ DOMAIN listed' = DOMAIN listed \cup {nextNum} /\ listed'[nextNum] = s.id
        /\ \A n \in DOMAIN listed : n # nextNum => listed'[n] = listed[n]
    BY <2>1 DEF Put
  <2> HIDE DEF taken, failed
  <2>4. \A i \in Ids : FateChange(i)
    BY <1>0, <2>1 DEF FateChange
  <2>5. \A t \in submits' : SubmitChange(t)
    <3>1. fate'[s.id] = "running"
      BY <1>0, <2>1
    <3>3. SubmitChange(taken)
      BY <2>1, <2>2, <2>3, <3>1 DEF SubmitChange
    <3>5. mishaps' = [mishaps EXCEPT ![s.id] = @ \cup {"reply"}] => "reply" \in mishaps'[s.id]
      BY <1>0
    <3>6. CASE submits' = (submits \ {s}) \cup {taken}
      BY <3>3, <3>6 DEF SubmitChange
    <3>7. CASE /\ submits' = (submits \ {s}) \cup {failed}
               /\ "reply" \in Fallible /\ mishaps' = [mishaps EXCEPT ![s.id] = @ \cup {"reply"}]
      <4>1. SubmitChange(failed)
        BY <2>1, <2>2, <3>5, <3>7 DEF SubmitChange
      <4>2. QED
        BY <3>7, <4>1 DEF SubmitChange
    <3>8. QED
      BY <2>1, <3>6, <3>7
  <2>6. ListChange
    BY <1>0, <2>1, <2>3 DEF ListChange
  <2>7. MishapChange
    BY <1>0, <2>1 DEF MishapChange, Mishaps
  <2>8. QED
    BY <2>4, <2>5, <2>6, <2>7
<1>7. ASSUME NEW s \in submits, Refuse(s) PROVE Goal
  <2> DEFINE failed == [s EXCEPT !.phase = "err"]
  <2>1. /\ s.phase = "sent" /\ UNCHANGED daemon
        /\ submits' \subseteq submits \cup {failed}
    BY <1>7 DEF Refuse
  <2>2. failed.id = s.id /\ failed.phase = "err"
    BY <1>0
  <2> HIDE DEF failed
  <2>3. QED
    BY <1>0, <2>1, <2>2 DEF daemon, FateChange, SubmitChange, ListChange, MishapChange
<1>8. ASSUME NEW n \in DOMAIN listed, JobEnds(n) PROVE Goal
  BY <1>0, <1>8 DEF JobEnds, FateChange, SubmitChange, ListChange, MishapChange
<1>9. ASSUME NEW n \in DOMAIN listed, Expire(n) PROVE Goal
  BY <1>0, <1>9 DEF Expire, Keep, FateChange, SubmitChange, ListChange, MishapChange
<1>10. ASSUME NEW c \in cancels, Stop(c) PROVE Goal
  <2>1. (\A i \in Ids : FateChange(i)) /\ MishapChange
    BY <1>0, <1>10 DEF Stop, Runs, FateChange, MishapChange, Mishaps
  <2>2. ListChange /\ \A s \in submits' : SubmitChange(s)
    BY <1>0, <1>10 DEF Stop, SubmitChange, ListChange
  <2>3. QED
    BY <2>1, <2>2
<1>11. CASE Restart
  <2>1. /\ mishaps' = [i \in Ids |-> IF fate[i] = "none" THEN mishaps[i]
                                      ELSE mishaps[i] \cup {"restart"}]
        /\ fate' = [i \in Ids |-> IF fate[i] = "running" THEN "lost" ELSE fate[i]]
        /\ submits' = {IF s.phase = "sent" THEN [s EXCEPT !.phase = "err"] ELSE s : s \in submits}
    BY <1>11 DEF Restart
  <2>2. \A i \in Ids : FateChange(i)
    BY <2>1 DEF FateChange
  <2>3. ASSUME NEW s \in submits' PROVE SubmitChange(s)
    <3>1. PICK t \in submits : s = IF t.phase = "sent" THEN [t EXCEPT !.phase = "err"] ELSE t
      BY <2>1
    <3>2. CASE t.phase = "sent"
      <4>1. s = [t EXCEPT !.phase = "err"]
        BY <3>1, <3>2
      <4>2. s.id = t.id /\ s.phase = "err"
        BY <1>0, <4>1
      <4>3. fate'[s.id] = "none"
        BY <1>0, <2>1, <3>2, <4>2
      <4>4. QED
        BY <3>2, <4>2, <4>3 DEF SubmitChange
    <3>3. CASE t.phase # "sent"
      BY <3>1, <3>3 DEF SubmitChange
    <3>4. QED
      BY <3>2, <3>3
  <2>4. ListChange
    BY <1>0, <2>1 DEF ListChange
  <2>5. MishapChange
    BY <2>1 DEF MishapChange
  <2>6. QED
    BY <2>2, <2>3, <2>4, <2>5
<1>12. CASE UNCHANGED vars
  BY <1>1, <1>12 DEF vars
<1>13. QED
  BY <1>3, <1>4, <1>5, <1>6, <1>7, <1>8, <1>9, <1>10, <1>11, <1>12 DEF Next

\* An answer waits to be applied because it waited before, or because it was just given.
LEMMA PollerSteps ==
    ASSUME IInv, [Next]_vars, poll'.at = "apply"
    PROVE  /\ Asked' = Asked /\ Asked \in poll.queue
           /\ DOMAIN rows' \subseteq Live \cup {seq} /\ Asked[1] # seq
           /\ \/ poll' = poll
              \/ /\ UNCHANGED <<rows, fate, listed, told>>
                 /\ Asked[1] \in Live => rows[Asked[1]].jobid = Asked[2]
                 /\ poll'.status \in {StatusOf(Asked[2]), "unknown"}
<1>0. /\ poll \in Polls
      /\ \A i \in DOMAIN rows' : RowChange(i)
  BY RowSteps DEF IInv, TypeOK, RowsChange
<1>1. poll' = poll \/ PollStatus
  <2>1. ASSUME PollListed PROVE poll'.at # "apply"
    BY <1>0, <2>1 DEF PollListed, Polls
  <2>2. ASSUME PollRetain PROVE poll'.at # "apply"
    <3>1. PICK q : poll' \in {Idle, [Idle EXCEPT !.at = "status", !.queue = q]}
      BY <2>2 DEF PollRetain
    <3>2. Idle.at = "list" /\ [Idle EXCEPT !.at = "status", !.queue = q].at = "status"
      BY DEF Idle
    <3>3. QED
      BY <3>1, <3>2
  <2>3. ASSUME PollApply PROVE poll'.at # "apply"
    <3>1. PICK q : poll' \in {Idle, [Idle EXCEPT !.at = "status", !.queue = q]}
      BY <2>3 DEF PollApply
    <3>2. Idle.at = "list" /\ [Idle EXCEPT !.at = "status", !.queue = q].at = "status"
      BY DEF Idle
    <3>3. QED
      BY <3>1, <3>2
  <2>4. ASSUME \/ Spawn \/ ClearFinished \/ Restart
               \/ \E i \in Live : Retry(i) \/ ClearJob(i) \/ Cancel(i)
               \/ \E n \in DOMAIN listed : JobEnds(n) \/ Expire(n)
        PROVE  poll' = poll
    BY <2>4 DEF Spawn, ClearFinished, Restart, Retry, ClearJob, Cancel, JobEnds, Expire, Enqueue
  <2>5. ASSUME \/ \E s \in submits : Accept(s) \/ Refuse(s) \/ OnJobSubmitted(s)
               \/ \E c \in cancels : Stop(c) \/ OnCancelled(c)
        PROVE  poll' = poll
    BY <2>5 DEF Accept, Refuse, OnJobSubmitted, Stop, OnCancelled
  <2>6. QED
    BY <2>1, <2>2, <2>3, <2>4, <2>5 DEF Next, Poller, vars
<1>2. poll'.queue = poll.queue /\ poll.queue # {}
  <2>1. CASE poll' = poll
    BY <2>1 DEF IInv, CallsFit
  <2>2. CASE PollStatus
    BY <1>0, <2>2 DEF PollStatus, Polls, IInv, CallsFit
  <2>3. QED
    BY <1>1, <2>1, <2>2
<1>3. Asked' = Asked
  BY <1>2 DEF Asked
<1>4. Asked \in poll.queue
  BY <1>2, AskedIsQueued DEF IInv
<1>5. Asked[1] # seq
  <2>1. Asked[1] \in Nat /\ Asked[1] < seq
    BY <1>4, QueueType DEF IInv, IdsInOrder, Ids
  <2>2. QED
    BY <2>1
<1>6. DOMAIN rows' \subseteq Live \cup {seq}
  BY <1>0 DEF RowChange, AsBefore, Enqueued, GivenNumber, NotSubmitted, CancelledNow, SettledNow
<1>7. ASSUME PollStatus
      PROVE  /\ UNCHANGED <<rows, fate, listed, told>>
             /\ Asked[1] \in Live => rows[Asked[1]].jobid = Asked[2]
             /\ poll'.status \in {StatusOf(Asked[2]), "unknown"}
  <2>1. UNCHANGED <<rows, fate, listed, told>>
    BY <1>7 DEF PollStatus, ui, daemon, events
  <2>2. Asked[1] \in Live => rows[Asked[1]].jobid = Asked[2]
    BY <1>4 DEF IInv, CallsFit
  <2>3. poll'.status \in {StatusOf(Asked[2]), "unknown"}
    BY <1>0, <1>7 DEF PollStatus, Polls
  <2>4. QED
    BY <2>1, <2>2, <2>3
<1>8. QED
  BY <1>1, <1>3, <1>4, <1>5, <1>6, <1>7

-----------------------------------------------------------------------------
(* An operation runs once, but for jobs whose answer was lost *)

\* An error is shown only for what does not run any more, or never did.
LEMMA ErrorsStep ==
    ASSUME IInv, ErrorsAreOver, [Next]_vars
    PROVE  ErrorsAreOver'
<1>0. /\ \A i \in Ids : FateChange(i)
      /\ \A s \in submits' : SubmitChange(s)
      /\ \A i \in DOMAIN rows' : RowChange(i)
      /\ \A s \in submits : s.id \in Ids
      /\ DOMAIN rows \subseteq Ids /\ \A i \in Live : rows[i] \in Row
      /\ IInv'
      /\ \A i \in Ids : Heard(i)' => Heard(i)
  BY DaemonSteps, RowSteps, NextIInv, MishapsGrow DEF RowsChange, IInv, TypeOK, Heard
<1>1. \A i \in Live : rows[i] # NewRow => \A s \in submits : s.id # i
  BY DEF IInv, SubmitsFit
<1>2. \A i \in Ids : fate'[i] = "running" /\ fate[i] # "running" =>
         \E s \in submits : s.id = i /\ s.phase = "sent"
  BY <1>0 DEF FateChange
<1>3. ASSUME NEW s \in submits', s.phase = "err", Heard(s.id)' PROVE fate'[s.id] = "none"
  <2>1. CASE s \in submits
    <3>1. s.id \in Ids /\ fate[s.id] = "none"
      BY <1>0, <1>3, <2>1 DEF ErrorsAreOver
    <3>2. \A t \in submits : t.id = s.id => t = s
      BY <2>1 DEF IInv, SubmitsFit
    <3>3. fate'[s.id] # "running"
      BY <1>2, <1>3, <3>1, <3>2
    <3>4. QED
      BY <1>0, <3>1, <3>3 DEF FateChange
  <2>2. CASE s \notin submits
    BY <1>0, <1>3, <2>2 DEF SubmitChange, Heard
  <2>3. QED
    BY <2>1, <2>2
<1>4. ASSUME NEW i \in DOMAIN rows', rows'[i].error, Heard(i)' PROVE fate'[i] # "running"
  <2>1. RowChange(i)
    BY <1>0
  <2>2. CASE Enqueued(i)
    BY <1>4, <2>2, NewRowFields DEF Enqueued
  <2>3. CASE i \in Live
    <3>1. i \in Ids /\ rows[i] \in Row
      BY <1>0, <2>3 DEF Live
    <3>2. rows[i].error => fate[i] # "running" /\ rows[i] # NewRow
      BY <1>0, <1>4, <2>3, <3>1, NewRowFields DEF ErrorsAreOver, HeardRuns
    <3>3. CASE rows[i].error
      BY <1>1, <1>2, <2>3, <3>1, <3>2, <3>3
    <3>4. CASE ~rows[i].error
      <4>1. NotSubmitted(i) \/ (SettledNow(i) /\ poll.status = "failed")
        <5>1. ~AsBefore(i) /\ ~Enqueued(i)
          BY <1>4, <2>3, <3>4 DEF AsBefore, Enqueued
        <5>2. ~GivenNumber(i)
          BY <1>4, <3>1, <3>4 DEF GivenNumber, Row
        <5>3. ~CancelledNow(i)
          BY <1>4, <3>1, <3>4 DEF CancelledNow, Row
        <5>4. SettledNow(i) => poll.status = "failed"
          BY <1>4, <3>1 DEF SettledNow, Row
        <5>5. QED
          BY <2>1, <5>1, <5>2, <5>3, <5>4 DEF RowChange
      <4>2. CASE NotSubmitted(i)
        <5>1. PICK s \in submits : s.id = i /\ s.phase = "err"
          BY <4>2 DEF NotSubmitted
        <5>2. fate[i] = "none" /\ \A t \in submits : t.id = i => t.phase = "err"
          BY <1>0, <1>4, <3>1, <5>1 DEF ErrorsAreOver, IInv, SubmitsFit
        <5>3. QED
          BY <1>2, <3>1, <5>2
      <4>3. CASE SettledNow(i) /\ poll.status = "failed"
        <5>1. fate[i] # "running" /\ Asked \in poll.queue /\ i = Asked[1]
          BY <2>3, <4>3, AskedIsQueued DEF SettledNow, ErrorsAreOver, IInv, CallsFit
        <5>2. rows[i].jobid \in Nums
          BY <2>3, <5>1, QueueType DEF IInv, CallsFit
        <5>3. rows[i] # NewRow
          BY <5>2, NewRowFields DEF Nums
        <5>4. QED
          BY <1>1, <1>2, <2>3, <3>1, <5>1, <5>3
      <4>4. QED
        BY <4>1, <4>2, <4>3
    <3>5. QED
      BY <3>3, <3>4
  <2>4. QED
    BY <2>1, <2>2, <2>3 DEF RowChange, AsBefore, GivenNumber, NotSubmitted, CancelledNow, SettledNow
<1>5. ASSUME poll'.at = "apply", poll'.status = "failed", Asked'[1] \in Live'
      PROVE  fate'[Asked'[1]] # "running"
  <2> DEFINE i == Asked[1]
  <2>1. /\ Asked' = Asked /\ i \in Live /\ i \in Ids
        /\ \/ poll' = poll
           \/ /\ UNCHANGED <<rows, fate, listed, told>>
              /\ Asked[1] \in Live => rows[Asked[1]].jobid = Asked[2]
              /\ poll'.status \in {StatusOf(Asked[2]), "unknown"}
    BY <1>0, <1>5, PollerSteps DEF Live
  <2>2. rows[i].jobid \in Nums
    BY <1>5, <2>1, PollerSteps, QueueType DEF IInv, CallsFit
  <2>3. rows[i] # NewRow
    BY <2>2, NewRowFields DEF Nums
  <2>4. CASE poll' = poll
    BY <1>1, <1>2, <1>5, <2>1, <2>3, <2>4 DEF ErrorsAreOver
  <2>5. CASE poll' # poll
    <3>1. /\ fate' = fate /\ rows[i].jobid = Asked[2]
          /\ StatusOf(Asked[2]) = "failed"
      BY <1>5, <2>1, <2>5
    <3>2. fate[i] = "running" => Asked[2] \in DOMAIN listed /\ listed[Asked[2]] = i
      BY <2>1, <2>2, <3>1, NewRowFields DEF IInv, ListFits, Nums
    <3>3. QED
      BY <2>1, <3>1, <3>2 DEF StatusOf
  <2>6. QED
    BY <2>1, <2>4, <2>5
<1>6. QED
  BY <1>3, <1>4, <1>5 DEF ErrorsAreOver, HeardRuns, Live

\* A retry replaces a row whose operation does not run.
LEMMA RunsOnceStep ==
    ASSUME IInv, ErrorsAreOver, RunsOnce, [Next]_vars
    PROVE  RunsOnce'
<1>0. /\ \A i \in Ids : FateChange(i)
      /\ \A s \in submits : s.id \in Ids /\ s.id \in Live
      /\ run \in [Ids -> Ids] /\ DOMAIN rows \subseteq Ids
      /\ seq \in Nat /\ \A i \in Ids : i \in Nat
      /\ \A i \in Ids : i >= seq => i \notin Live /\ fate[i] = "none"
      /\ \A i \in Ids : i < seq => run[i] < seq
      /\ IInv'
      /\ \A i \in Ids : Heard(i)' => Heard(i)
  <2>0. \A i \in Ids : Heard(i)' => Heard(i)
    BY DaemonSteps, MishapsGrow DEF IInv, Heard
  <2>1. \A i \in Ids : FateChange(i)
    BY DaemonSteps
  <2>2. IInv'
    BY NextIInv
  <2>3. /\ \A s \in submits : s.id \in Ids /\ s.id \in Live
        /\ run \in [Ids -> Ids] /\ DOMAIN rows \subseteq Ids
    BY DEF IInv, TypeOK, SubmitsFit
  <2>4. seq \in Nat /\ \A i \in Ids : i \in Nat
    BY DEF IInv, TypeOK, Ids
  <2>5. /\ \A i \in Ids : i >= seq => i \notin Live /\ fate[i] = "none"
        /\ \A i \in Ids : i < seq => run[i] < seq
    BY DEF IInv, IdsInOrder
  <2>6. QED
    BY <2>0, <2>1, <2>2, <2>3, <2>4, <2>5
<1>1. \A i \in Ids : (fate'[i] = "running" /\ fate[i] # "running") => i \in Live
  BY <1>0 DEF FateChange
<1>2. ASSUME UNCHANGED <<seq, run>> PROVE RunsOnce'
  <2>1. DOMAIN rows' \subseteq Live
    <3>1. \A i \in DOMAIN rows' : RowChange(i) /\ i \in Ids
      BY <1>0, RowSteps DEF RowsChange, IInv, TypeOK
    <3>2. \A i \in DOMAIN rows' : i # seq
      BY <1>0, <1>2, <3>1 DEF IInv, IdsInOrder, Live
    <3>3. QED
      BY <3>1, <3>2 DEF RowChange, AsBefore, Enqueued, GivenNumber, NotSubmitted, CancelledNow,
                        SettledNow
  <2>2. \A i \in Ids : Engaged(i)' => Engaged(i)
    BY <1>0, <1>1, <2>1 DEF Engaged, HeardRuns, Live
  <2>3. QED
    BY <1>2, <2>2, SMTT(30) DEF RunsOnce
<1>3. ASSUME NEW kept, NEW op, op \in Ids, DOMAIN kept \subseteq Live,
             \A i \in DOMAIN kept : kept[i] = rows[i], Enqueue(kept, op),
             \A i \in Ids : ((i \in DOMAIN kept \/ HeardRuns(i)) /\ i # seq) => run[i] # op
      PROVE  RunsOnce'
  <2>1. /\ seq \in Ids /\ DOMAIN rows' \subseteq DOMAIN kept \cup {seq}
        /\ run' = [run EXCEPT ![seq] = op] /\ fate' = fate /\ mishaps' = mishaps
    BY <1>3, EnqueueEffect DEF IInv, Enqueue, daemon
  <2>2. \A i \in Ids : i # seq => (Engaged(i)' => (i \in DOMAIN kept \/ HeardRuns(i)))
    BY <2>1 DEF Engaged, HeardRuns, Heard, Live
  <2>3. \A i \in Ids : i # seq => (Engaged(i)' => Engaged(i))
    BY <1>3, <2>2 DEF Engaged
  <2>4. /\ \A i \in Ids : i # seq => run'[i] = run[i]
        /\ run'[seq] = op
    BY <1>0, <2>1
  <2>5. \A i \in Ids : (i # seq /\ Engaged(i)') => run'[i] # run'[seq]
    BY <1>3, <2>2, <2>4
  <2>6. \A i, j \in Ids : (i # seq /\ j # seq /\ Engaged(i)' /\ Engaged(j)' /\ run'[i] = run'[j]) => i = j
    BY <2>3, <2>4 DEF RunsOnce
  <2>7. QED
    BY <2>1, <2>5, <2>6 DEF RunsOnce
<1>4. CASE Spawn
  <2>1. Enqueue(rows, seq) /\ seq \in Ids
    BY <1>0, <1>4 DEF Spawn, Enqueue, Ids
  <2>2. \A i \in Ids : (i \in Live \/ HeardRuns(i)) => run[i] # seq
    <3> SUFFICES ASSUME NEW i \in Ids, i \in Live \/ HeardRuns(i) PROVE run[i] # seq
      OBVIOUS
    <3>1. i < seq /\ run[i] \in Nat
      BY <1>0 DEF HeardRuns
    <3>2. QED
      BY <1>0, <3>1
  <2>3. QED
    BY <1>3, <2>1, <2>2 DEF Live
<1>5. ASSUME NEW i \in Live, Retry(i) PROVE RunsOnce'
  <2> DEFINE kept == Keep(rows, Live \ {i})
  <2>1. DOMAIN kept = Live \ {i} /\ \A j \in DOMAIN kept : kept[j] = rows[j]
    BY DEF Keep, Live
  <2>2. rows[i].error /\ Enqueue(kept, run[i])
    BY <1>5 DEF Retry, CanRetry
  <2>3. ~HeardRuns(i) /\ i \in Ids
    BY <1>0, <2>2 DEF ErrorsAreOver, Live
  <2> HIDE DEF kept
  <2>4. \A j \in Ids : (j \in DOMAIN kept \/ HeardRuns(j)) => run[j] # run[i]
    BY <1>5, <2>1, <2>3 DEF RunsOnce, Engaged
  <2>5. run[i] \in Ids
    BY <1>0, <2>3
  <2>6. DOMAIN kept \subseteq Live
    BY <2>1
  <2>7. QED
    BY <1>3, <2>1, <2>2, <2>4, <2>5, <2>6
<1>6. CASE UNCHANGED vars
  BY <1>2, <1>6 DEF vars, ui
<1>7. CASE Next /\ ~Spawn /\ ~\E i \in Live : Retry(i)
  <2>1. UNCHANGED <<seq, run>>
    BY <1>7 DEF Next, Poller, ui, ClearJob, Cancel, ClearFinished, Accept, Refuse, OnJobSubmitted,
                Stop, OnCancelled, PollListed, PollRetain, PollStatus, PollApply, JobEnds, Expire,
                Restart
  <2>2. QED
    BY <1>2, <2>1, Zenon
<1>8. QED
  BY <1>4, <1>5, <1>6, <1>7

\* Two copies of an operation never run, but where an answer was lost: a retry is
\* offered only where the job is over, or never started (retry_selected_tasks).
THEOREM NeverRunsTwice == Spec => []NoDoubleRun
<1>1. Init => ErrorsAreOver /\ RunsOnce
  <2> SUFFICES ASSUME Init PROVE ErrorsAreOver /\ RunsOnce
    OBVIOUS
  <2>1. poll.at = "list" /\ Live = {} /\ submits = {}
    BY DEF Init, Idle, Live
  <2>2. \A i \in Ids : fate[i] = "none"
    BY DEF Init
  <2>3. QED
    BY <2>1, <2>2 DEF ErrorsAreOver, RunsOnce, Engaged, HeardRuns
<1>2. IInv /\ (ErrorsAreOver /\ RunsOnce) /\ [Next]_vars => (ErrorsAreOver /\ RunsOnce)'
  BY ErrorsStep, RunsOnceStep
<1>3. RunsOnce => NoDoubleRun
  BY DEF RunsOnce, NoDoubleRun, Engaged, HeardRuns
<1>4. QED
  BY AlwaysIInv, <1>1, <1>2, <1>3, PTL DEF Spec

-----------------------------------------------------------------------------
(* A row that can tell its job from others reports that job *)

\* One daemon does not give a number again; a replaced one leaves its rows without a
\* trace.
LEMMA NumbersStep ==
    ASSUME IInv, NumbersFit, [Next]_vars
    PROVE  NumbersFit'
<1>0. /\ \A s \in submits' : SubmitChange(s)
      /\ \A i \in DOMAIN rows' : RowChange(i)
      /\ \A i \in Live : rows[i] \in Row
      /\ nextNum \in Nat /\ nextNum' \in Nat /\ IInv'
      /\ \A s \in submits : s.id \in Live /\ rows[s.id] = NewRow
  <2>1. IInv'
    BY NextIInv
  <2>2. nextNum \in Nat /\ nextNum' \in Nat
    BY <2>1 DEF IInv, TypeOK
  <2>3. /\ \A i \in Live : rows[i] \in Row
        /\ \A s \in submits : s.id \in Live /\ rows[s.id] = NewRow
    BY DEF IInv, TypeOK, SubmitsFit
  <2>4. QED
    BY DaemonSteps, RowSteps, <2>1, <2>2, <2>3 DEF RowsChange
<1>1. /\ ListChange /\ \A i \in Ids : FateChange(i)
      /\ \A i \in Ids : Traced(i)' => Traced(i)
      /\ DOMAIN rows \subseteq Ids /\ \A s \in submits : s.id \in Ids
  BY DaemonSteps, MishapsGrow DEF IInv, TypeOK, Traced
<1>2. \A i \in Ids : fate[i] # "none" => fate'[i] # "none"
  BY <1>1 DEF FateChange
\* What a number is worth to a row that keeps its trace.
<1>3. ASSUME NEW n \in Nums, NEW i \in Ids, Traced(i)', fate[i] # "none",
             Traced(i) => n < nextNum /\ (n \in DOMAIN listed => listed[n] = i)
      PROVE  n < nextNum' /\ (n \in DOMAIN listed' => listed'[n] = i)
  <2>1. "restart" \notin mishaps'[i] /\ Traced(i)
    BY <1>1, <1>3 DEF Traced
  <2>2. /\ nextNum' >= nextNum
        /\ \A m \in DOMAIN listed' :
              \/ m \in DOMAIN listed /\ listed'[m] = listed[m]
              \/ m = nextNum
    BY <1>1, <1>3, <2>1 DEF ListChange
  <2>3. QED
    BY <1>0, <1>3, <2>1, <2>2 DEF Nums
<1>4. \A i \in Live : rows[i].jobid # None =>
         /\ rows[i].jobid \in Nums /\ fate[i] # "none" /\ i \in Ids
         /\ Traced(i) => /\ rows[i].jobid < nextNum
                         /\ rows[i].jobid \in DOMAIN listed => listed[rows[i].jobid] = i
  BY <1>0, <1>1 DEF NumbersFit, Row, Live
<1>5. \A s \in submits : s.num \in Nums \cup {None}
  BY DEF IInv, TypeOK
<1>6. ASSUME NEW i \in DOMAIN rows', rows'[i].jobid # None
      PROVE  /\ fate'[i] # "none"
             /\ Traced(i)' => /\ rows'[i].jobid < nextNum'
                              /\ rows'[i].jobid \in DOMAIN listed' => listed'[rows'[i].jobid] = i
  <2>1. CASE Enqueued(i)
    BY <1>6, <2>1, NewRowFields DEF Enqueued
  <2>2. CASE GivenNumber(i)
    <3>1. PICK s \in submits : /\ s.id = i /\ s.phase = "ok"
                               /\ rows'[i] = [rows[i] EXCEPT !.jobid = s.num]
      BY <2>2 DEF GivenNumber
    <3>2. rows[i] \in Row /\ i \in Ids
      BY <1>0, <1>1, <2>2 DEF GivenNumber, Live
    <3>3. rows'[i].jobid = s.num
      BY <3>1, <3>2 DEF Row
    <3>4. s.num \in Nums
      BY <1>5, <1>6, <3>3
    <3>5. /\ fate[i] # "none"
          /\ Traced(i) => s.num < nextNum /\ (s.num \in DOMAIN listed => listed[s.num] = i)
      BY <3>1 DEF NumbersFit
    <3>6. QED
      BY <1>2, <1>3, <3>2, <3>3, <3>4, <3>5
  <2>3. CASE AsBefore(i) \/ NotSubmitted(i) \/ CancelledNow(i) \/ SettledNow(i)
    <3>1. i \in Live /\ rows[i] \in Row
      BY <1>0, <2>3 DEF AsBefore, NotSubmitted, CancelledNow, SettledNow
    <3>2. rows'[i].jobid = rows[i].jobid
      BY <2>3, <3>1 DEF AsBefore, NotSubmitted, CancelledNow, SettledNow, Row
    <3>3. QED
      BY <1>2, <1>3, <1>4, <1>6, <3>1, <3>2
  <2>4. QED
    BY <1>0, <2>1, <2>2, <2>3 DEF RowChange
<1>7. ASSUME NEW s \in submits', s.phase = "ok"
      PROVE  /\ s.num \in Nums /\ fate'[s.id] # "none"
             /\ Traced(s.id)' => /\ s.num < nextNum'
                                 /\ s.num \in DOMAIN listed' => listed'[s.num] = s.id
  <2>1. CASE s \in submits
    <3>1. /\ s.num \in Nums /\ fate[s.id] # "none" /\ s.id \in Ids
          /\ Traced(s.id) => s.num < nextNum /\ (s.num \in DOMAIN listed => listed[s.num] = s.id)
      BY <1>1, <1>7, <2>1 DEF NumbersFit
    <3>2. QED
      BY <1>2, <1>3, <3>1
  <2>2. CASE s \notin submits
    <3>1. /\ s.num = nextNum /\ nextNum' = nextNum + 1 /\ fate'[s.id] = "running"
          /\ nextNum \in DOMAIN listed' /\ listed'[nextNum] = s.id
      BY <1>0, <1>7, <2>2 DEF SubmitChange
    <3>2. s.num \in Nums
      BY <1>0, <3>1 DEF IInv, TypeOK
    <3>3. QED
      BY <1>0, <3>1, <3>2
  <2>3. QED
    BY <2>1, <2>2
<1>8. \A i \in Live' : rows'[i].jobid # None =>
         /\ fate'[i] # "none"
         /\ Traced(i)' => /\ rows'[i].jobid < nextNum'
                          /\ rows'[i].jobid \in DOMAIN listed' => listed'[rows'[i].jobid] = i
  BY <1>6 DEF Live
<1>9. QED
  BY <1>7, <1>8 DEF NumbersFit

\* What the poller is about to say of a row is what became of its own job.
LEMMA AnswersStep ==
    ASSUME IInv, NumbersFit, AnswersFit, [Next]_vars
    PROVE  AnswersFit'
<1>0. /\ \A i \in Ids : FateChange(i)
      /\ \A s \in submits' : SubmitChange(s)
      /\ \A s \in submits : s.id \in Ids
      /\ \A s, t \in submits : s.id = t.id => s = t
      /\ DOMAIN rows \subseteq Ids /\ \A i \in Live : rows[i] \in Row
      /\ \A i \in Ids : Traced(i)' => Traced(i)
  BY DaemonSteps, MishapsGrow DEF IInv, TypeOK, SubmitsFit, Traced
<1>1. \A i \in Live : rows[i].jobid # None => \A s \in submits : s.id # i
  BY NewRowFields DEF IInv, SubmitsFit
<1>2. ASSUME NEW s \in submits', s.phase = "err", Traced(s.id)' PROVE fate'[s.id] = "none"
  <2>1. CASE s \in submits
    <3>1. s.id \in Ids /\ fate[s.id] = "none"
      BY <1>0, <1>2, <2>1 DEF AnswersFit
    <3>2. \A t \in submits : t.id = s.id => t.phase = "err"
      BY <1>0, <1>2, <2>1
    <3>3. FateChange(s.id)
      BY <1>0, <3>1
    <3>4. QED
      BY <3>1, <3>2, <3>3 DEF FateChange
  <2>2. CASE s \notin submits
    BY <1>0, <1>2, <2>2 DEF SubmitChange, Traced
  <2>3. QED
    BY <2>1, <2>2
<1>3. ASSUME poll'.at = "apply", Asked'[1] \in Live', Traced(Asked[1])'
      PROVE  /\ poll'.status = "ok" => fate'[Asked'[1]] = "ok"
             /\ poll'.status = "failed" => fate'[Asked'[1]] \in {"failed", "stopped"}
  <2> DEFINE i == Asked[1]
  <2>1. /\ Asked' = Asked /\ Asked \in poll.queue /\ i \in Live /\ i \in Ids
        /\ \/ poll' = poll
           \/ /\ UNCHANGED <<rows, fate, listed, told>>
              /\ Asked[1] \in Live => rows[Asked[1]].jobid = Asked[2]
              /\ poll'.status \in {StatusOf(Asked[2]), "unknown"}
    BY <1>0, <1>3, PollerSteps DEF Live
  <2>2. rows[i].jobid = Asked[2] /\ Asked[2] \in Nums
    BY <2>1, QueueType DEF IInv, CallsFit
  <2>3. rows[i].jobid # None
    BY <2>2 DEF Nums
  <2>4. FateChange(i) /\ \A s \in submits : s.id # i
    BY <1>0, <1>1, <2>1, <2>3
  <2>5. CASE poll' = poll
    <3>1. Traced(i)
      BY <1>0, <1>3, <2>1
    <3>2. QED
      BY <1>3, <2>1, <2>4, <2>5, <3>1 DEF AnswersFit, FateChange
  <2>6. CASE poll' # poll
    <3>1. fate' = fate /\ poll'.status \in {StatusOf(Asked[2]), "unknown"}
      BY <2>1, <2>6
    <3>2. Asked[2] \in DOMAIN listed => listed[Asked[2]] = i
      <4>1. Traced(i)
        BY <1>0, <1>3, <2>1
      <4>2. QED
        BY <2>1, <2>2, <2>3, <4>1 DEF NumbersFit
    <3>3. fate[i] = "stopped" \/ fate[i] # "stopped"
      OBVIOUS
    <3>4. QED
      BY <2>1, <3>1, <3>2 DEF StatusOf
  <2>7. QED
    BY <2>1, <2>5, <2>6
<1>4. (poll'.at = "apply" /\ Asked'[1] \in Live' /\ Traced(Asked[1])') =>
         /\ poll'.status = "ok" => fate'[Asked'[1]] = "ok"
         /\ poll'.status = "failed" => fate'[Asked'[1]] \in {"failed", "stopped"}
  BY <1>3
<1>5. QED
  BY <1>2, <1>4 DEF AnswersFit

\* What was announced for a row is what became of its job.
LEMMA ReportsStep ==
    ASSUME IInv, AnswersFit, RowReportsItsOwnJob, [Next]_vars
    PROVE  RowReportsItsOwnJob'
<1>0. /\ \A i \in Ids : FateChange(i)
      /\ \A i \in DOMAIN rows' : RowChange(i)
      /\ \A i \in Ids : i \notin DOMAIN rows' => told'[i] = told[i]
      /\ \A s \in submits : told[s.id] = <<>>
      /\ \A i \in Ids : Traced(i)' => Traced(i)
  BY DaemonSteps, RowSteps, MishapsGrow DEF RowsChange, IInv, SubmitsFit, Traced
<1> SUFFICES ASSUME NEW i \in Ids, Traced(i)'
             PROVE  /\ told'[i] = <<"ok">> => fate'[i] = "ok"
                    /\ told'[i] = <<"failed">> => fate'[i] \in {"none", "failed", "stopped"}
  BY DEF RowReportsItsOwnJob
<1>1. FateChange(i) /\ Traced(i)
  BY <1>0
<1>2. ASSUME told'[i] = told[i]
      PROVE  /\ told'[i] = <<"ok">> => fate'[i] = "ok"
             /\ told'[i] = <<"failed">> => fate'[i] \in {"none", "failed", "stopped"}
  <2>1. told[i] = <<"ok">> \/ told[i] = <<"failed">> => \A s \in submits : s.id # i
    BY <1>0, Announcements
  <2>2. QED
    BY <1>1, <1>2, <2>1 DEF FateChange, RowReportsItsOwnJob
<1>3. CASE i \notin DOMAIN rows'
  BY <1>0, <1>2, <1>3
<1>4. CASE i \in DOMAIN rows'
  <2>1. RowChange(i)
    BY <1>0, <1>4
  <2>2. CASE AsBefore(i) \/ GivenNumber(i) \/ CancelledNow(i)
    BY <1>2, <2>2 DEF AsBefore, GivenNumber, CancelledNow
  <2>3. CASE Enqueued(i)
    BY <2>3, Announcements DEF Enqueued
  <2>4. CASE NotSubmitted(i)
    <3>1. PICK s \in submits : s.id = i /\ s.phase = "err"
      BY <2>4 DEF NotSubmitted
    <3>2. fate[i] = "none" /\ \A t \in submits : t.id = i => t.phase = "err"
      BY <1>1, <3>1 DEF AnswersFit, IInv, SubmitsFit
    <3>3. fate'[i] = "none"
      BY <1>1, <3>2 DEF FateChange
    <3>4. QED
      BY <2>4, <3>3, Announcements DEF NotSubmitted
  <2>5. CASE SettledNow(i)
    <3>1. /\ i \in Live /\ i = Asked[1] /\ poll.at = "apply"
          /\ poll.status \in {"ok", "failed"} /\ told'[i] = <<poll.status>>
      BY <2>5 DEF SettledNow
    <3>2. /\ poll.status = "ok" => fate[i] = "ok"
          /\ poll.status = "failed" => fate[i] \in {"failed", "stopped"}
      BY <1>1, <3>1 DEF AnswersFit
    <3>3. fate'[i] = fate[i]
      BY <1>1, <3>1, <3>2 DEF FateChange
    <3>4. QED
      BY <3>1, <3>2, <3>3, Announcements
  <2>6. QED
    BY <2>1, <2>2, <2>3, <2>4, <2>5 DEF RowChange
<1>5. QED
  BY <1>3, <1>4

\* Whatever fails, and however many daemons there were before, what a row reports is
\* what became of its own job, unless the answer with its number was lost or the daemon
\* that ran the job was replaced: a new one numbers its jobs from 1 again, and such a
\* row may then report the job of another.
THEOREM RowAlwaysReportsItsOwnJob == Spec => []RowReportsItsOwnJob
<1> DEFINE Own == NumbersFit /\ AnswersFit /\ RowReportsItsOwnJob
<1>1. Init => Own
  <2> SUFFICES ASSUME Init PROVE Own
    OBVIOUS
  <2>1. poll.at = "list" /\ Live = {} /\ submits = {}
    BY DEF Init, Idle, Live
  <2>2. \A i \in Ids : told[i] = <<>>
    BY DEF Init
  <2>3. QED
    BY <2>1, <2>2, Announcements DEF NumbersFit, AnswersFit, RowReportsItsOwnJob
<1>2. IInv /\ Own /\ [Next]_vars => Own'
  BY NumbersStep, AnswersStep, ReportsStep
<1>3. Own => RowReportsItsOwnJob
  OBVIOUS
<1> HIDE DEF Own
<1>4. QED
  BY AlwaysIInv, <1>1, <1>2, <1>3, PTL DEF Spec

-----------------------------------------------------------------------------
(* A cancelled row is stopped, unless the stop failed *)

\* A cancellation comes back when the job of its row has ended, or never ran, or the
\* stop has failed.
LEMMA StopsStep ==
    ASSUME IInv, StopsFit, [Next]_vars
    PROVE  StopsFit'
<1>0. /\ \A i \in Ids : FateChange(i)
      /\ \A i \in DOMAIN rows' : RowChange(i)
      /\ \A i \in Live : rows[i].jobid # None => \A s \in submits : s.id # i
      /\ cancels \subseteq [id : Ids, num : Nums, phase : {"sent", "back"}]
      /\ \A c \in cancels : c.id < seq
      /\ fate \in [Ids -> Fates]
      /\ \A n \in DOMAIN listed : listed[n] \in Ids
      /\ mishaps \in [Ids -> SUBSET Mishaps]
      /\ \A i \in Ids : "stop" \in mishaps[i] => "stop" \in mishaps'[i]
  BY DaemonSteps, RowSteps, NewRowFields, MishapsGrow
     DEF RowsChange, IInv, TypeOK, IdsInOrder, SubmitsFit
<1> SUFFICES ASSUME NEW c \in cancels', c.phase = "back", c.id \in DOMAIN rows',
                    "stop" \notin mishaps'[c.id]
             PROVE  fate'[c.id] # "running"
  BY DEF StopsFit, Live
<1>1. ASSUME NEW d \in cancels, d.id = c.id
      PROVE  /\ c.id \in Live /\ c.id \in Ids /\ rows[c.id].jobid = d.num
             /\ fate[c.id] # "running" => fate'[c.id] # "running"
  <2>1. c.id \in Ids /\ c.id < seq /\ d.num # None
    BY <1>0, <1>1 DEF Nums
  <2>2. c.id \in Live
    <3>1. c.id \in Live \/ c.id = seq
      BY <1>0 DEF RowChange, AsBefore, Enqueued, GivenNumber, NotSubmitted, CancelledNow, SettledNow
    <3>2. c.id # seq
      BY <2>1 DEF Ids
    <3>3. QED
      BY <3>1, <3>2, Zenon
  <2>3. rows[c.id].jobid = d.num
    BY <1>1, <2>2 DEF IInv, CallsFit
  <2>4. fate[c.id] # "running" => fate'[c.id] # "running"
    BY <1>0, <2>1, <2>2, <2>3 DEF FateChange
  <2>5. QED
    BY <2>1, <2>2, <2>3, <2>4
<1>2. CASE c \in cancels
  <2>1. /\ c.id \in Live /\ (fate[c.id] # "running" => fate'[c.id] # "running")
        /\ "stop" \notin mishaps[c.id]
    BY <1>0, <1>1, <1>2
  <2>2. QED
    BY <1>2, <2>1 DEF StopsFit
<1>3. ASSUME NEW d \in cancels, Stop(d), c \notin cancels PROVE fate'[c.id] # "running"
  <2>1. c = [d EXCEPT !.phase = "back"]
    BY <1>3 DEF Stop
  <2>2. c.id = d.id
    BY <1>0, <2>1
  <2>3. /\ c.id \in Live /\ c.id \in Ids /\ rows[c.id].jobid = d.num /\ d.num \in Nums
        /\ fate[c.id] # "running" => fate'[c.id] # "running"
    BY <1>0, <1>1, <2>2
  <2>4. fate[c.id] = "running" => d.num \in DOMAIN listed /\ listed[d.num] = c.id
    BY <2>3 DEF IInv, ListFits, Nums
  <2>5. CASE fate[c.id] = "running"
    <3>1. \/ fate' = [fate EXCEPT ![c.id] = "stopped"]
          \/ mishaps' = [mishaps EXCEPT ![c.id] = @ \cup {"stop"}]
      BY <1>3, <2>4, <2>5 DEF Stop, Runs
    <3>2. QED
      BY <1>0, <2>3, <3>1
  <2>6. QED
    BY <2>3, <2>5
<1>4. ASSUME Restart PROVE fate'[c.id] # "running"
  <2>1. /\ cancels' = {[d EXCEPT !.phase = "back"] : d \in cancels}
        /\ fate' = [i \in Ids |-> IF fate[i] = "running" THEN "lost" ELSE fate[i]]
    BY <1>4 DEF Restart
  <2>2. PICK d \in cancels : c = [d EXCEPT !.phase = "back"]
    BY <2>1
  <2>3. c.id \in Ids
    BY <1>0, <2>2
  <2>4. QED
    BY <2>1, <2>3
<1>5. CASE c \notin cancels /\ ~Restart /\ ~\E d \in cancels : Stop(d)
  <2>1. ASSUME NEW i \in Live, Cancel(i) PROVE FALSE
    <3>1. cancels' = cancels \cup {[id |-> i, num |-> rows[i].jobid, phase |-> "sent"]}
      BY <2>1 DEF Cancel
    <3>2. c = [id |-> i, num |-> rows[i].jobid, phase |-> "sent"]
      BY <1>5, <3>1, Zenon
    <3>3. QED
      BY <3>2
  <2>2. ASSUME \/ Spawn \/ ClearFinished \/ Poller
               \/ \E i \in Live : Retry(i) \/ ClearJob(i)
               \/ \E s \in submits : Accept(s) \/ Refuse(s) \/ OnJobSubmitted(s)
               \/ \E d \in cancels : OnCancelled(d)
               \/ \E n \in DOMAIN listed : JobEnds(n) \/ Expire(n)
               \/ UNCHANGED vars
        PROVE  cancels' \subseteq cancels
    BY <2>2 DEF Spawn, Enqueue, ClearFinished, Poller, PollListed, PollRetain, PollStatus, PollApply,
                Retry, ClearJob, Accept, Refuse, OnJobSubmitted, OnCancelled, JobEnds, Expire, vars
  <2>3. QED
    BY <1>5, <2>1, <2>2 DEF Next
<1>6. QED
  BY <1>2, <1>3, <1>4, <1>5

\* Nothing of a row that shows Cancelled runs on, although the number it was stopped
\* under may have been used before, or be used again, unless a stop of that job failed.
THEOREM CancelledIsAlwaysStopped == Spec => []CancelledMeansStopped
<1>1. Init => StopsFit /\ CancelledMeansStopped
  <2> SUFFICES ASSUME Init PROVE StopsFit /\ CancelledMeansStopped
    OBVIOUS
  <2>1. Live = {} /\ cancels = {}
    BY DEF Init, Live
  <2>2. QED
    BY <2>1 DEF StopsFit, CancelledMeansStopped
<1>2. IInv /\ StopsFit /\ CancelledMeansStopped /\ [Next]_vars => CancelledMeansStopped'
  <2> SUFFICES ASSUME IInv, StopsFit, CancelledMeansStopped, [Next]_vars,
                      NEW i \in DOMAIN rows', rows'[i].cancelled, "stop" \notin mishaps'[i]
               PROVE  fate'[i] # "running"
    BY DEF CancelledMeansStopped, Live
  <2>1. /\ RowChange(i) /\ (i \in Ids => FateChange(i))
        /\ i \in Live => i \in Ids /\ rows[i] \in Row /\ "stop" \notin mishaps[i]
    BY RowSteps, DaemonSteps, MishapsGrow DEF RowsChange, IInv, TypeOK, Live
  <2>2. ASSUME i \in Live, rows[i] # NewRow, fate[i] # "running"
        PROVE  fate'[i] # "running"
    <3>1. \A s \in submits : s.id # i
      BY <2>2 DEF IInv, SubmitsFit
    <3>2. QED
      BY <2>1, <2>2, <3>1 DEF FateChange
  <2>3. CASE Enqueued(i)
    BY <2>3, NewRowFields DEF Enqueued
  <2>4. CASE CancelledNow(i)
    <3>1. PICK c \in cancels : c.id = i /\ c.phase = "back"
      BY <2>4 DEF CancelledNow
    <3>2. i \in Live /\ fate[i] # "running" /\ rows[i].jobid = c.num
      BY <2>1, <2>4, <3>1 DEF CancelledNow, StopsFit, IInv, CallsFit
    <3>3. rows[i] # NewRow
      BY <3>2, NewRowFields DEF IInv, TypeOK, Nums
    <3>4. QED
      BY <2>2, <3>2, <3>3
  <2>5. CASE AsBefore(i) \/ GivenNumber(i) \/ NotSubmitted(i) \/ SettledNow(i)
    <3>1. i \in Live /\ rows[i] \in Row
      BY <2>1, <2>5 DEF AsBefore, GivenNumber, NotSubmitted, SettledNow
    <3>2. rows'[i].cancelled = rows[i].cancelled
      <4>1. CASE AsBefore(i)
        BY <4>1 DEF AsBefore
      <4>2. CASE GivenNumber(i)
        BY <3>1, <4>2 DEF GivenNumber, Row
      <4>3. CASE NotSubmitted(i)
        BY <3>1, <4>3 DEF NotSubmitted, Row
      <4>4. CASE SettledNow(i)
        BY <3>1, <4>4 DEF SettledNow, Row
      <4>5. QED
        BY <2>5, <4>1, <4>2, <4>3, <4>4
    <3>3. rows[i] # NewRow /\ fate[i] # "running"
      BY <2>1, <3>1, <3>2, NewRowFields DEF CancelledMeansStopped
    <3>4. QED
      BY <2>2, <3>1, <3>3
  <2>6. QED
    BY <2>1, <2>3, <2>4, <2>5 DEF RowChange
<1>3. IInv /\ (StopsFit /\ CancelledMeansStopped) /\ [Next]_vars
         => (StopsFit /\ CancelledMeansStopped)'
  BY <1>2, StopsStep
<1>4. QED
  BY AlwaysIInv, <1>1, <1>3, PTL DEF Spec
=============================================================================
