-------------------------------- MODULE Tasks --------------------------------
(***************************************************************************)
(* The Tasks panel (ui/src/tasks_pane.rs), its menu (menus.rs) and the     *)
(* commands on many rows (jobs/ops.rs): what they do to the list of tasks  *)
(* while it changes under the selection, an open menu or an open question. *)
(* What the tracker does by itself is Jobs; here a row settles in one step. *)
(*                                                                         *)
(* A row holds a number that is never used again, the operation it runs    *)
(* (a retry runs the same one), and how far it is; that it was cancelled    *)
(* only changes how it is drawn.  The menu's items that copy a command or  *)
(* show a folder change no task and are left out.                          *)
(*                                                                         *)
(* Operators named Mut... are mutants, bugs the next definition could have. *)
(***************************************************************************)
EXTENDS Values, Naturals, Sequences, FiniteSets, SequencesExt

CONSTANTS
    KeptFinished, \* MAX_FINISHED of trim_history
    MaxTasks     \* bound on the rows ever made

ASSUME TasksAssumption == KeptFinished \in Nat /\ MaxTasks \in Nat

VARIABLES
    tasks,      \* Jobs.items: the oldest first
    taskSeq,    \* Jobs.seq
    picked,     \* TasksPane.sel: the set
    taskMenu,   \* the open menu: the rows it was opened over, and its items
    question,   \* the open confirmation: what it will do, to which rows
    stopping,   \* rows whose job_stop is under way
    tasksShown, \* dock_is(Panel::Tasks)
    succeeded   \* history: the operations that succeeded

tskVars == <<tasks, taskSeq, picked, taskMenu, question, stopping, tasksShown,
             succeeded>>

RowsOf(q) == ToSet(q)
IdsOf(q) == {t.id : t \in ToSet(q)}
DoneRows(q) == {t.id : t \in {u \in ToSet(q) : u.done}}
Failed == {t.id : t \in {u \in ToSet(tasks) : u.done /\ u.error}}
Running == IdsOf(tasks) \ DoneRows(tasks)
WithoutRows(q, ids) == KeepOnly(q, {t \in RowsOf(q) : t.id \notin ids})

TaskInit ==
    /\ tasks = <<>> /\ taskSeq = 0
    /\ picked = {} /\ taskMenu = None /\ question = None
    /\ stopping = {} /\ tasksShown = FALSE /\ succeeded = {}

-----------------------------------------------------------------------------
(* The list *)

\* trim_history: the oldest finished rows over the bound go.
TrimHistory(q) ==
    WithoutRows(q, {i \in DoneRows(q) :
        Cardinality({j \in DoneRows(q) : j <= i}) + KeptFinished <= Cardinality(DoneRows(q))})

NewRow(id, op) ==
    [id |-> id, op |-> op, given |-> FALSE, done |-> FALSE, error |-> FALSE]

Enqueued(at, op) ==
    [list |-> TrimHistory(Append(at.list, NewRow(at.seq, op))), seq |-> at.seq + 1]

Retried(at, id) ==
    IF id \notin IdsOf(at.list) THEN at
    ELSE LET row == CHOOSE t \in RowsOf(at.list) : t.id = id
         IN  Enqueued([at EXCEPT !.list = WithoutRows(@, {id})], row.op)

Become(at) == tasks' = at.list /\ taskSeq' = at.seq
Now == [list |-> tasks, seq |-> taskSeq]

\* One after the other, the oldest first.
RetriedAll(ids) ==
    LET after[n \in 0 .. taskSeq] ==
            IF n = 0 THEN Now
            ELSE IF n - 1 \in ids THEN Retried(after[n - 1], n - 1) ELSE after[n - 1]
    IN  after[taskSeq]

RetryRows(ids) ==
    /\ taskSeq + Cardinality(ids) <= MaxTasks
    /\ Become(RetriedAll(ids))
    /\ UNCHANGED tasksShown

\* clear_job and clear_finished: an emptied panel closes.
ClearRows(ids) ==
    /\ tasks' = WithoutRows(tasks, ids) /\ taskSeq' = taskSeq
    /\ tasksShown' = (tasksShown /\ tasks' # <<>>)

Amend(id, Upd(_)) ==
    tasks' = [i \in DOMAIN tasks |-> IF tasks[i].id = id THEN Upd(tasks[i]) ELSE tasks[i]]

SpawnTask ==
    /\ taskSeq < MaxTasks
    /\ Become(Enqueued(Now, taskSeq))
    /\ UNCHANGED <<picked, taskMenu, question, stopping, tasksShown, succeeded>>

TaskSubmitted ==
    /\ \E t \in RowsOf(tasks) :
           /\ ~t.given /\ ~t.done
           /\ \/ Amend(t.id, LAMBDA u : [u EXCEPT !.given = TRUE])
              \/ Amend(t.id, LAMBDA u : [u EXCEPT !.done = TRUE, !.error = TRUE])
    /\ UNCHANGED <<taskSeq, picked, taskMenu, question, stopping, tasksShown, succeeded>>

TaskSettles ==
    /\ \E t \in RowsOf(tasks) :
           /\ t.given /\ ~t.done
           /\ \/ /\ Amend(t.id, LAMBDA u : [u EXCEPT !.done = TRUE])
                 /\ succeeded' = succeeded \cup {t.op}
              \/ /\ Amend(t.id, LAMBDA u : [u EXCEPT !.done = TRUE, !.error = TRUE])
                 /\ UNCHANGED succeeded
    /\ UNCHANGED <<taskSeq, picked, taskMenu, question, stopping, tasksShown>>

\* The daemon tracks the job no longer, and the poll drops the row.
TaskForgotten ==
    /\ \E t \in RowsOf(tasks) : t.given /\ tasks' = WithoutRows(tasks, {t.id})
    /\ UNCHANGED <<taskSeq, picked, taskMenu, question, stopping, tasksShown, succeeded>>

TaskStopped ==
    /\ \E id \in stopping :
           /\ stopping' = stopping \ {id}
           /\ Amend(id, LAMBDA u : [u EXCEPT !.done = TRUE])
    /\ UNCHANGED <<taskSeq, picked, taskMenu, question, tasksShown, succeeded>>

-----------------------------------------------------------------------------
(* The selection *)

\* Showing or hiding the panel; hidden, it is not drawn and not healed (bound: with
\* no menu or question open).
ToggleTasks ==
    /\ taskMenu = None /\ question = None
    /\ tasksShown' = ~tasksShown
    /\ UNCHANGED <<tasks, taskSeq, picked, taskMenu, question, stopping, succeeded>>

Pick(set) ==
    /\ tasksShown /\ taskMenu = None /\ question = None
    /\ picked' = set
    /\ UNCHANGED <<tasks, taskSeq, taskMenu, question, stopping, tasksShown, succeeded>>

\* A click, one with the modifier that toggles, and one with Shift, whose anchor may be
\* any row here.
PickRow ==
    \E id \in IdsOf(tasks) :
        \/ Pick({id})
        \/ Pick(SymDiff(picked, {id}))
        \/ \E from \in IdsOf(tasks) :
               Pick({i \in IdsOf(tasks) : i \in (from .. id) \cup (id .. from)})

PickAll == Pick(IdsOf(tasks))
PickNone == picked # {} /\ Pick({})

\* A frame drops picked rows that are gone.
HealPicked ==
    /\ tasksShown
    /\ picked' = picked \cap IdsOf(tasks)
    /\ UNCHANGED <<tasks, taskSeq, taskMenu, question, stopping, tasksShown, succeeded>>

-----------------------------------------------------------------------------
(* The menu and the questions *)

\* Items for the rows that are there when it opens; they keep the numbers.
OpenTaskMenu ==
    /\ tasksShown /\ taskMenu = None /\ question = None
    /\ \E id \in IdsOf(tasks) : picked' = IF id \in picked THEN picked ELSE {id}
    /\ taskMenu' =
           [ids   |-> picked',
            one   |-> Cardinality(picked' \cap IdsOf(tasks)) = 1,
            items |-> {k \in {"retry", "cancel", "remove"} :
                         picked' \cap (CASE k = "retry"  -> Failed
                                         [] k = "cancel" -> Running
                                         [] k = "remove" -> DoneRows(tasks)) # {}}]
    /\ UNCHANGED <<tasks, taskSeq, question, stopping, tasksShown, succeeded>>

CloseTaskMenu ==
    /\ taskMenu # None /\ taskMenu' = None
    /\ UNCHANGED <<tasks, taskSeq, picked, question, stopping, tasksShown, succeeded>>

\* Of one row the item acts on that row, of many on those it still fits; the bug
\* takes the rows it was opened over.
MutFitting(ids, k) == ids
Fitting(ids, k) ==
    ids \cap (CASE k = "retry"  -> Failed
                [] k = "remove" -> DoneRows(tasks)
                [] k = "cancel" -> Running)

\* The one row among those the menu was opened over.
Sole(ids) == ids \cap IdsOf(tasks)

ChooseItem ==
    /\ taskMenu # None /\ taskMenu' = None
    /\ \E k \in taskMenu.items :
           LET ids == IF taskMenu.one THEN Sole(taskMenu.ids) ELSE Fitting(taskMenu.ids, k)
           IN  \/ k = "retry" /\ RetryRows(ids) /\ UNCHANGED question
               \/ k = "remove" /\ ClearRows(ids) /\ UNCHANGED question
               \/ /\ k = "cancel"
                  /\ question' = IF ids = {} THEN question ELSE [does |-> "stop", ids |-> ids]
                  /\ UNCHANGED <<tasks, taskSeq, tasksShown>>
    /\ UNCHANGED <<picked, stopping, succeeded>>

\* The buttons of a row
RowButton ==
    /\ tasksShown /\ taskMenu = None /\ question = None
    /\ \/ \E id \in Failed : RetryRows({id})
       \/ \E id \in DoneRows(tasks) : ClearRows({id})
    /\ UNCHANGED <<picked, taskMenu, question, stopping, succeeded>>

AskClearFinished ==
    /\ tasksShown /\ taskMenu = None /\ question = None
    /\ DoneRows(tasks) # {}
    /\ question' = [does |-> "clear"]
    /\ UNCHANGED <<tasks, taskSeq, picked, taskMenu, stopping, tasksShown, succeeded>>

\* Jobs::cancel asks the daemon to stop a row that has a job.
AcceptQuestion ==
    /\ question # None /\ question' = None
    /\ \/ /\ question.does = "stop"
          /\ stopping' = stopping \cup
                 {t.id : t \in {u \in RowsOf(tasks) : u.id \in question.ids /\ u.given}}
          /\ UNCHANGED <<tasks, taskSeq, tasksShown>>
       \/ question.does = "clear" /\ ClearRows(DoneRows(tasks)) /\ UNCHANGED stopping
    /\ UNCHANGED <<picked, taskMenu, succeeded>>

DropQuestion ==
    /\ question # None /\ question' = None
    /\ UNCHANGED <<tasks, taskSeq, picked, taskMenu, stopping, tasksShown, succeeded>>

TaskNext ==
    \/ SpawnTask \/ TaskSubmitted \/ TaskSettles \/ TaskForgotten \/ TaskStopped
    \/ ToggleTasks \/ PickRow \/ PickAll \/ PickNone \/ HealPicked
    \/ OpenTaskMenu \/ CloseTaskMenu \/ ChooseItem \/ RowButton
    \/ AskClearFinished \/ AcceptQuestion \/ DropQuestion

TaskSpec == TaskInit /\ [][TaskNext]_tskVars

-----------------------------------------------------------------------------
(* Properties *)

\* "Retrying a running/done-ok job would duplicate it" (jobs/ops.rs:580) and
\* "running ones are left untouched": however the list changed since a menu was
\* opened or a question asked, no row that runs is taken off the list by the panel,
\* no operation runs in two rows, and none runs again once it succeeded.
SparesWhatRuns ==
    [][ /\ ~TaskForgotten => Running \subseteq IdsOf(tasks')
        /\ \A new \in RowsOf(tasks') :
               new.id \notin IdsOf(tasks) =>
                   /\ new.op \notin succeeded
                   /\ \A old \in RowsOf(tasks') : old.op = new.op => old = new ]_tskVars
=============================================================================
