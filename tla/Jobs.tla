-------------------------------- MODULE Jobs --------------------------------
(***************************************************************************)
(* The task list of the UI (ui/src/transfers.rs) over rclone's async jobs. *)
(*                                                                         *)
(* A row is created when the user starts an operation; its submission, its *)
(* cancellation and a poller that runs for ever each call the daemon and   *)
(* apply the answer on the UI thread later, interleaved with everything    *)
(* else.  The daemon is external: it numbers its jobs from 1, lists them   *)
(* until they expire, and forgets all of them when it is restarted.        *)
(*                                                                         *)
(* Bounds: MaxRows (operations started, retries included), MaxRestarts and *)
(* MaxCancels; MaxFinished is 200 in the code.                             *)
(*                                                                         *)
(* Operators named Mut... are mutants, bugs the next definition could have; *)
(* nothing uses them but the check that the properties notice them.        *)
(***************************************************************************)
EXTENDS Values, Naturals, Sequences, FiniteSets

CONSTANTS
    MaxRows,
    MaxFinished,  \* MAX_FINISHED of trim_history
    MaxRestarts,
    MaxCancels,   \* cancellations in flight at a time
    Mutating,     \* the operations spawned with reload_on_done: subset of Ids
    Fallible      \* the calls that may fail: subset of Calls, see below

\* What may fail: a call refused ("submit") or its answer lost ("reply"), and the
\* three other calls of the task list.
Calls == {"submit", "reply", "list", "status", "stop"}

ASSUME JobsAssumption ==
    /\ MaxRows \in Nat \ {0}
    /\ MaxFinished \in Nat
    /\ MaxRestarts \in Nat
    /\ MaxCancels \in Nat
    /\ Fallible \subseteq Calls
    /\ Mutating \subseteq 0 .. MaxRows - 1
    /\ None \notin Nat

Ids == 0 .. MaxRows - 1  \* Job.id, drawn from Jobs.seq
Nums == 1 .. MaxRows     \* rclone's job ids

VARIABLES
    rows,        \* Jobs.items, as a function of Job.id (its order is the order of ids)
    seq,         \* Jobs.seq
    run,         \* Job.run: the operation a row (re)runs, named by the row that first ran it
    submits,     \* submissions in flight: [id, phase, num]
    cancels,     \* job/stop calls in flight: [id, num, phase]
    poll,        \* the poller: [at, live, queue, status]
    listed,      \* external: the daemon's job table, number -> row whose job it is
    nextNum,     \* external: the daemon's job counter
    restarts,    \* external: how often the daemon was restarted
    fate,        \* history: what became of each row's own job
    mishaps,     \* history: what went wrong for the job of each row, see below
    told,        \* history: the Finished events of each row
    invalidated  \* history: the rows whose directories were invalidated

ui     == <<rows, seq, run>>
daemon == <<listed, nextNum, restarts, fate, mishaps>>
events == <<told, invalidated>>
vars   == <<ui, submits, cancels, poll, daemon, events>>

Row == [jobid : Nums \cup {None}, done : BOOLEAN, cancelled : BOOLEAN, error : BOOLEAN]
Fates == {"none", "running", "ok", "failed", "stopped", "lost"}

\* The answer that gave its number was lost, its daemon was replaced, a stop of it
\* failed while it ran.
Mishaps == {"reply", "restart", "stop"}
Answers == {"unknown", "running", "ok", "failed"}
Polls == [at : {"list", "retain", "status", "apply"}, live : (SUBSET Nums) \cup {None},
          queue : SUBSET (Ids \X Nums), status : Answers]

Live == DOMAIN rows
Done(i) == rows[i].done
Finished == {i \in Live : Done(i)}

\* Functions with finite domains: drop some rows, add one.
Keep(f, S) == [i \in DOMAIN f \cap S |-> f[i]]
Put(f, i, x) == [j \in DOMAIN f \cup {i} |-> IF j = i THEN x ELSE f[j]]

Idle == [at |-> "list", live |-> None, queue |-> {}, status |-> "unknown"]

TypeOK ==
    /\ DOMAIN rows \subseteq Ids
    /\ \A i \in Live : rows[i] \in Row
    /\ seq \in 0 .. MaxRows
    /\ run \in [Ids -> Ids]
    /\ submits \subseteq [id : Ids, phase : {"sent", "ok", "err"}, num : Nums \cup {None}]
    /\ cancels \subseteq [id : Ids, num : Nums, phase : {"sent", "back"}]
    /\ poll \in Polls
    /\ DOMAIN listed \subseteq Nums /\ \A n \in DOMAIN listed : listed[n] \in Ids
    /\ nextNum \in 1 .. MaxRows + 1
    /\ restarts \in 0 .. MaxRestarts
    /\ fate \in [Ids -> Fates] /\ mishaps \in [Ids -> SUBSET Mishaps]
    /\ told \in [Ids -> Seq({"ok", "failed"})]
    /\ invalidated \subseteq Ids

Init ==
    /\ rows = <<>> /\ seq = 0 /\ run = [i \in Ids |-> i]
    /\ submits = {} /\ cancels = {} /\ poll = Idle
    /\ listed = <<>> /\ nextNum = 1 /\ restarts = 0
    /\ fate = [i \in Ids |-> "none"] /\ mishaps = [i \in Ids |-> {}]
    /\ told = [i \in Ids |-> <<>>] /\ invalidated = {}

-----------------------------------------------------------------------------
(* Starting and retrying operations *)

\* trim_history: the oldest finished rows beyond MaxFinished go; ids grow, so
\* the oldest are the smallest.
Trimmed(f) ==
    LET fin == {i \in DOMAIN f : f[i].done}
    IN  Keep(f, {i \in DOMAIN f :
            f[i].done => Cardinality({j \in fin : j > i}) < MaxFinished})

\* enqueue, after `kept` of the old rows
Enqueue(kept, op) ==
    /\ seq < MaxRows
    /\ seq' = seq + 1
    /\ rows' = Trimmed(Put(kept, seq,
                  [jobid |-> None, done |-> FALSE, cancelled |-> FALSE, error |-> FALSE]))
    /\ run' = [run EXCEPT ![seq] = op]
    /\ submits' = submits \cup {[id |-> seq, phase |-> "sent", num |-> None]}
    /\ UNCHANGED <<cancels, poll, daemon, events>>

Spawn == Enqueue(rows, seq)

MutCanRetryRunning(i) == ~rows[i].cancelled

\* The UI offers retry on rows that are done with an error.
CanRetry(i) == Done(i) /\ rows[i].error

Retry(i) ==
    /\ CanRetry(i)
    /\ Enqueue(Keep(rows, Live \ {i}), run[i])

OnJobSubmitted(s) ==
    /\ s.phase \in {"ok", "err"}
    /\ submits' = submits \ {s}
    /\ IF s.id \notin Live
       THEN UNCHANGED <<rows, told>>
       ELSE \/ /\ s.phase = "ok"
               /\ rows' = [rows EXCEPT ![s.id].jobid = s.num]
               /\ UNCHANGED told
            \/ /\ s.phase = "err"
               /\ rows' = [rows EXCEPT ![s.id].done = TRUE, ![s.id].error = TRUE]
               /\ told' = [told EXCEPT ![s.id] = Append(@, "failed")]
    /\ UNCHANGED <<seq, run, cancels, poll, daemon, invalidated>>

-----------------------------------------------------------------------------
(* Clearing and cancelling *)

\* clear_job: the UI offers it on done rows.
ClearJob(i) ==
    /\ Done(i)
    /\ rows' = Keep(rows, Live \ {i})
    /\ UNCHANGED <<seq, run, submits, cancels, poll, daemon, events>>

ClearFinished ==
    /\ Finished # {}
    /\ rows' = Keep(rows, Live \ Finished)
    /\ UNCHANGED <<seq, run, submits, cancels, poll, daemon, events>>

\* cancel, once the user has confirmed.  The question is asked of a running row
\* and the row may settle while it is open, so any row may be cancelled.
Cancel(i) ==
    /\ rows[i].jobid # None
    /\ Cardinality(cancels) < MaxCancels
    /\ cancels' = cancels \cup {[id |-> i, num |-> rows[i].jobid, phase |-> "sent"]}
    /\ UNCHANGED <<ui, submits, poll, daemon, events>>

MutOnCancelledUnmarked(c) ==
    /\ c.phase = "back"
    /\ cancels' = cancels \ {c}
    /\ rows' = IF c.id \in Live THEN [rows EXCEPT ![c.id].done = TRUE] ELSE rows
    /\ UNCHANGED <<seq, run, submits, poll, daemon, events>>

MutOnCancelledAtOnce(c) ==
    /\ cancels' = cancels \ {c}
    /\ rows' = IF c.id \in Live
               THEN [rows EXCEPT ![c.id].done = TRUE, ![c.id].cancelled = TRUE]
               ELSE rows
    /\ UNCHANGED <<seq, run, submits, poll, daemon, events>>

\* Its answer, success or failure: the code does not look which.
OnCancelled(c) ==
    /\ c.phase = "back"
    /\ cancels' = cancels \ {c}
    /\ rows' = IF c.id \in Live
               THEN [rows EXCEPT ![c.id].done = TRUE, ![c.id].cancelled = TRUE]
               ELSE rows
    /\ UNCHANGED <<seq, run, submits, poll, daemon, events>>

-----------------------------------------------------------------------------
(* The poller *)

\* Every second: job/list answers with the numbers it tracks, or fails.
PollListed ==
    /\ poll.at = "list"
    /\ \/ poll' = [poll EXCEPT !.at = "retain", !.live = DOMAIN listed]
       \/ /\ "list" \in Fallible
          /\ poll' = [poll EXCEPT !.at = "retain", !.live = None]
    /\ UNCHANGED <<ui, submits, cancels, daemon, events>>

MutPollRetainAll ==
    LET active == {i \in Live : ~Done(i) /\ rows[i].jobid # None}
    IN  /\ poll.at = "retain"
        /\ poll' = IF active = {} THEN Idle
                   ELSE [Idle EXCEPT !.at = "status",
                                     !.queue = {<<i, rows[i].jobid>> : i \in active}]
        /\ UNCHANGED <<ui, submits, cancels, daemon, events>>

\* Drop the rows the answer does not list, collect the running ones.
PollRetain ==
    LET kept == {i \in Live : \/ poll.live = None
                              \/ rows[i].jobid = None
                              \/ rows[i].jobid \in poll.live}
        active == {i \in kept : ~Done(i) /\ rows[i].jobid # None}
    IN  /\ poll.at = "retain"
        /\ rows' = Keep(rows, kept)
        /\ poll' = IF active = {} THEN Idle
                   ELSE [Idle EXCEPT !.at = "status",
                                     !.queue = {<<i, rows[i].jobid>> : i \in active}]
        /\ UNCHANGED <<seq, run, submits, cancels, daemon, events>>

\* The rows are asked for in the order of the list.
Asked == CHOOSE q \in poll.queue : \A r \in poll.queue : q[1] <= r[1]

\* What job/status says of number n now.
StatusOf(n) ==
    IF n \notin DOMAIN listed THEN "unknown"
    ELSE IF fate[listed[n]] = "stopped" THEN "failed" ELSE fate[listed[n]]

MutPollStatusErrorIsFailure ==
    /\ poll.at = "status"
    /\ \/ poll' = [poll EXCEPT !.at = "apply", !.status = StatusOf(Asked[2])]
       \/ /\ "status" \in Fallible
          /\ poll' = [poll EXCEPT !.at = "apply", !.status = "failed"]
    /\ UNCHANGED <<ui, submits, cancels, daemon, events>>

PollStatus ==
    /\ poll.at = "status"
    /\ \/ poll' = [poll EXCEPT !.at = "apply", !.status = StatusOf(Asked[2])]
       \/ /\ "status" \in Fallible
          /\ poll' = [poll EXCEPT !.at = "apply", !.status = "unknown"]
    /\ UNCHANGED <<ui, submits, cancels, daemon, events>>

MutSettleTwice(i, answer) ==
    /\ rows' = [rows EXCEPT ![i].done = answer = "ok", ![i].error = answer = "failed"]
    /\ told' = [told EXCEPT ![i] = Append(@, answer)]
    /\ invalidated' = IF answer = "ok" /\ run[i] \in Mutating
                      THEN invalidated \cup {i} ELSE invalidated

\* What an answer does to row i: it settles, is announced, and the listings it
\* changed are refreshed.
SettleRow(i, answer) ==
    /\ rows' = [rows EXCEPT ![i].done = TRUE, ![i].error = answer = "failed"]
    /\ told' = [told EXCEPT ![i] = Append(@, answer)]
    /\ invalidated' = IF answer = "ok" /\ run[i] \in Mutating
                      THEN invalidated \cup {i} ELSE invalidated

MutSettlesAlways(i, answer) == i \in Live /\ answer \in {"ok", "failed"}

\* A cancellation may have settled the row between the question and the answer.
Settles(i, answer) == i \in Live /\ ~Done(i) /\ answer \in {"ok", "failed"}

\* Apply one answer; then the next row, or sleep.
PollApply ==
    LET i == Asked[1]
        rest == poll.queue \ {Asked}
    IN  /\ poll.at = "apply"
        /\ poll' = IF rest = {} THEN Idle
                   ELSE [Idle EXCEPT !.at = "status", !.queue = rest]
        /\ \/ Settles(i, poll.status) /\ SettleRow(i, poll.status)
           \/ ~Settles(i, poll.status) /\ UNCHANGED <<rows, events>>
        /\ UNCHANGED <<seq, run, submits, cancels, daemon>>

-----------------------------------------------------------------------------
(* The daemon (external) *)

\* An async call is accepted: a job runs from now on, its number is the answer,
\* unless the answer is lost on the way.
Accept(s) ==
    /\ s.phase = "sent"
    /\ listed' = Put(listed, nextNum, s.id)
    /\ nextNum' = nextNum + 1
    /\ fate' = [fate EXCEPT ![s.id] = "running"]
    /\ \/ /\ submits' = (submits \ {s}) \cup {[s EXCEPT !.phase = "ok", !.num = nextNum]}
          /\ UNCHANGED mishaps
       \/ /\ "reply" \in Fallible
          /\ submits' = (submits \ {s}) \cup {[s EXCEPT !.phase = "err"]}
          /\ mishaps' = [mishaps EXCEPT ![s.id] = @ \cup {"reply"}]
    /\ UNCHANGED <<ui, cancels, poll, restarts, events>>

Refuse(s) ==
    /\ s.phase = "sent"
    /\ "submit" \in Fallible
    /\ submits' = (submits \ {s}) \cup {[s EXCEPT !.phase = "err"]}
    /\ UNCHANGED <<ui, cancels, poll, daemon, events>>

JobEnds(n) ==
    /\ fate[listed[n]] = "running"
    /\ \E f \in {"ok", "failed"} : fate' = [fate EXCEPT ![listed[n]] = f]
    /\ UNCHANGED <<ui, submits, cancels, poll, listed, nextNum, restarts, mishaps, events>>

\* A job that has ended is listed until it expires.
Expire(n) ==
    /\ fate[listed[n]] # "running"
    /\ listed' = Keep(listed, Nums \ {n})
    /\ UNCHANGED <<ui, submits, cancels, poll, nextNum, restarts, fate, mishaps, events>>

Runs(n) == n \in DOMAIN listed /\ fate[listed[n]] = "running"

\* job/stop: a running job of that number ends, unless the call fails; otherwise
\* nothing happens.
Stop(c) ==
    /\ c.phase = "sent"
    /\ cancels' = (cancels \ {c}) \cup {[c EXCEPT !.phase = "back"]}
    /\ \/ /\ Runs(c.num)
          /\ fate' = [fate EXCEPT ![listed[c.num]] = "stopped"]
          /\ UNCHANGED mishaps
       \/ /\ Runs(c.num) /\ "stop" \in Fallible
          /\ mishaps' = [mishaps EXCEPT ![listed[c.num]] = @ \cup {"stop"}]
          /\ UNCHANGED fate
       \/ /\ ~Runs(c.num)
          /\ UNCHANGED <<fate, mishaps>>
    /\ UNCHANGED <<ui, submits, poll, listed, nextNum, restarts, events>>

\* The daemon is replaced: its jobs die with it, the submissions it had not answered
\* fail, and the new one counts from 1 again.
Restart ==
    /\ restarts < MaxRestarts
    /\ restarts' = restarts + 1
    /\ listed' = <<>> /\ nextNum' = 1
    /\ fate' = [i \in Ids |-> IF fate[i] = "running" THEN "lost" ELSE fate[i]]
    /\ mishaps' = [i \in Ids |-> IF fate[i] = "none" THEN mishaps[i]
                                 ELSE mishaps[i] \cup {"restart"}]
    /\ submits' = {IF s.phase = "sent" THEN [s EXCEPT !.phase = "err"] ELSE s : s \in submits}
    /\ cancels' = {[c EXCEPT !.phase = "back"] : c \in cancels}
    /\ UNCHANGED <<ui, poll, events>>

Poller == PollListed \/ PollRetain \/ PollStatus \/ PollApply

Next ==
    \/ Spawn
    \/ \E i \in Live : Retry(i) \/ ClearJob(i) \/ Cancel(i)
    \/ ClearFinished
    \/ \E s \in submits : Accept(s) \/ Refuse(s) \/ OnJobSubmitted(s)
    \/ \E c \in cancels : Stop(c) \/ OnCancelled(c)
    \/ Poller
    \/ \E n \in DOMAIN listed : JobEnds(n) \/ Expire(n)
    \/ Restart

Spec == Init /\ [][Next]_vars

\* The poller's loop never stops, calls are answered, completions run, and
\* rclone's jobs come to an end.
Fairness ==
    /\ WF_vars(Poller)
    /\ \A i \in Ids :
          /\ WF_vars(\E s \in submits : s.id = i /\ (Accept(s) \/ Refuse(s)))
          /\ WF_vars(\E s \in submits : s.id = i /\ OnJobSubmitted(s))
    /\ \A n \in Nums : WF_vars(n \in DOMAIN listed /\ JobEnds(n))

FairSpec == Spec /\ Fairness

-----------------------------------------------------------------------------
(* Properties *)

\* The daemon accepted the job of i and the answer came, as far as there was one.
Heard(i) == "reply" \notin mishaps[i]

\* Retrying never runs an operation a second time while it still runs: retry
\* is offered on rows with an error, and a row gets an error only when its job
\* is over or never started, whatever was refused, polled in vain, stopped or
\* restarted.  Two copies of a move or a sync would race.  (Of two copies one is
\* of a job whose answer was lost: its row shows an error and can be retried.)
NoDoubleRun ==
    \A i, j \in Ids :
        (fate[i] = "running" /\ fate[j] = "running" /\ run[i] = run[j])
            => i = j \/ ~Heard(i) \/ ~Heard(j)

\* The user is told of the end of an operation at most once, although the end
\* may be seen by the submission, the poller or a cancellation.
ToldOnce == TypeOK /\ \A i \in Ids : Len(told[i]) <= 1

\* Every success that was announced refreshed the listings it changed, also when a
\* cancellation marked its row or the row is gone; a row shows success only after that
\* announcement, and an error exactly when a failure was announced.
SuccessRefreshes ==
    /\ \A i \in Ids : (told[i] = <<"ok">> /\ run[i] \in Mutating) => i \in invalidated
    /\ \A i \in Live :
          /\ (Done(i) /\ ~rows[i].error /\ ~rows[i].cancelled) => told[i] = <<"ok">>
          /\ rows[i].error <=> told[i] = <<"failed">>

\* A settled row stays settled with the error it has or has not, and keeps its job.
\* Only the answer to a stop the user asked of that very row may change what else it
\* shows, to Cancelled, and that stays; it may come after the row was told as finished
\* (transfers.rs:354-357 does not look).
DoneIsFinal ==
    [][\A i \in Live \cap DOMAIN rows' :
          /\ Done(i) => rows'[i].done /\ rows'[i].error = rows[i].error
          /\ rows[i].jobid # None => rows'[i].jobid = rows[i].jobid
          /\ rows'[i].cancelled # rows[i].cancelled =>
                /\ rows'[i].cancelled
                /\ \E c \in cancels \ cancels' : c.id = i /\ c.phase = "back"]_vars

\* Starting an operation bounds the history: finished rows are dropped oldest
\* first, and "active jobs are never dropped" (transfers.rs:324).
EnqueueTrims ==
    [][seq' # seq =>
          LET fin == {i \in DOMAIN rows' : rows'[i].done}
              gone == {i \in Live : i \notin DOMAIN rows' /\ ~CanRetry(i)}
          IN  /\ Cardinality(fin) <= MaxFinished
              /\ \A i \in gone : Done(i) /\ \A j \in fin : i < j]_vars

\* The row of i can tell its job from the others.
Traced(i) == mishaps[i] \cap {"reply", "restart"} = {}

\* A row reports the outcome of its own job ("state mirrors rclone's job",
\* transfers.rs:36), never that of another with the same number, whatever daemons came
\* and went before: unless the answer with its number was lost, or the daemon that ran
\* it was replaced, after which nothing in the code tells the new daemon's jobs from it.
RowReportsItsOwnJob ==
    \A i \in Ids : Traced(i) =>
        /\ told[i] = <<"ok">> => fate[i] = "ok"
        /\ told[i] = <<"failed">> => fate[i] \in {"none", "failed", "stopped"}

\* The same of every row, which the code does not keep.
EveryRowReportsItsOwnJob ==
    \A i \in Ids :
        /\ told[i] = <<"ok">> => fate[i] = "ok"
        /\ told[i] = <<"failed">> => fate[i] \in {"none", "failed", "stopped"}

\* A row marked cancelled has no job that runs on unseen, whichever of several stops,
\* of restarts and of the job's own end came first: unless a stop of it failed, which
\* transfers.rs:352 does not look at.
CancelledMeansStopped ==
    \A i \in Live :
        (rows[i].cancelled /\ "stop" \notin mishaps[i]) => fate[i] # "running"

\* "User-stopped: shown as a neutral Cancelled" (transfers.rs:45): what is shown as
\* cancelled did not come to its own end, and does not run.
CancelledWasStopped == \A i \in Live : rows[i].cancelled => fate[i] \in {"stopped", "lost"}

\* "drop any job it no longer tracks (finished + expired, or gone after a daemon
\* restart)" (transfers.rs:141-142): no row disappears while its job runs.
LiveJobKeepsItsRow ==
    [][\A i \in Live \ DOMAIN rows' : fate[i] = "running" => Done(i)]_vars

\* "User-stopped: shown as a neutral Cancelled, not a failure" (transfers.rs:45):
\* an operation the user stopped is not announced as failed.
CancelIsNeutral == \A i \in Ids : fate[i] = "stopped" => told[i] # <<"failed">>

\* No row waits for ever: it settles or leaves the list, also when the daemon
\* that ran its job is gone.
EveryRowSettles == \A i \in Ids : (i \in Live /\ ~Done(i)) ~> (i \notin Live \/ Done(i))
=============================================================================
