------------------------------- MODULE Palette ------------------------------
(***************************************************************************)
(* The command palette (ui/src/command_palette.rs) on the reusable picker  *)
(* (ui/src/components/picker.rs): a text, the rows matched to it, and a    *)
(* flow that collects a task's arguments one stage at a time, completing   *)
(* paths from listings that arrive later.                                  *)
(*                                                                         *)
(* Rows are matched when a stage starts and when a frame is drawn after    *)
(* the text changed or a listing came; between two frames the keyboard     *)
(* confirms a row that may be older than the text.  Ranking and fuzzy      *)
(* scores are left out: any row may be the selected one.                   *)
(*                                                                         *)
(* Operators named Mut... are mutants, bugs the next definition could have. *)
(***************************************************************************)
EXTENDS Values, Naturals, Sequences, SequencesExt

CONSTANTS
    Tasks,   \* task -> the kinds of its arguments, in order
    Content, \* <<remote, folder>> -> the entries listed there, <<path, is_dir>>
    Top      \* the folder at a remote's root

Listed == DOMAIN Content
Hosts == {k[1] : k \in Listed}
Kinds == {"SourcePath", "DestDir", "Name", "Remote"}

ASSUME PaletteAssumption ==
    /\ \A t \in DOMAIN Tasks : Tasks[t] \in Seq(Kinds) /\ Tasks[t] # <<>>
    /\ \A r \in Hosts : <<r, Top>> \in Listed
    /\ \A k \in Listed : k = <<k[1], k[2]>> /\ \A e \in Content[k] : e[2] \in BOOLEAN
    /\ None \notin DOMAIN Tasks /\ None \notin Kinds /\ None \notin Listed

VARIABLES
    up,        \* whether the palette is open
    task,      \* the task whose arguments are collected; None among the commands
    collected, \* its arguments so far
    query,     \* the text
    matched,   \* Picker.last_query, the text at the last frame
    choices,   \* delegate.rows
    waited,    \* Picker.was_loading
    loadedKey, \* loaded_key
    key,       \* path_query: the folder asked for
    known,     \* path_query: the folders listed
    flying,    \* path_query: the folders being listed
    ran        \* the last task run and its arguments

palVars == <<up, task, collected, query, matched, choices, waited,
             loadedKey, key, known, flying, ran>>

\* A text: empty, words, a remote after "@", a folder after "/", or remote:folder.
Text(kind, r, d) == [kind |-> kind, remote |-> r, dir |-> d]
Empty == Text("empty", None, None)
QueryTexts ==
    {Empty, Text("words", None, None), Text("at", None, None)}
        \cup {Text("slash", None, k[2]) : k \in Listed}
        \cup {Text("path", k[1], k[2]) : k \in Listed}

PalInit ==
    /\ up = FALSE /\ task = None /\ collected = <<>>
    /\ query = Empty /\ matched = Empty /\ choices = {} /\ waited = FALSE
    /\ loadedKey = None /\ key = None /\ known = {} /\ flying = {}
    /\ ran = None

Stage == IF task = None THEN None ELSE Tasks[task][Len(collected) + 1]
IsLoading(k, kn, fl) == k # None /\ k \notin kn /\ k \in fl

-----------------------------------------------------------------------------
(* Matching *)

\* A row and the value it stands for; from names the folder an entry came from.
Row(kind, r, p, d) == [row |-> kind, remote |-> r, path |-> p, dir |-> d, from |-> None]

RemoteRows(kind) == {Row(kind, r, Top, TRUE) : r \in Hosts}

\* entry_rows: what is listed for k, offered as of remote r; empty while it loads.
EntryRows(k, r, files, kind) ==
    IF k \in known
    THEN {[Row(kind, r, e[1], e[2]) EXCEPT !.from = k] : e \in {x \in Content[k] : files \/ x[2]}}
    ELSE {}

\* ensure_listing; the bug compares the folder and forgets the remote.
MutSameKey(a, b) == a # None /\ a[2] = b[2]
SameKey(a, b) == a = b

Ensure(k) ==
    IF SameKey(loadedKey, k)
    THEN UNCHANGED <<loadedKey, key, known, flying>>
    ELSE /\ loadedKey' = k /\ key' = k
         /\ flying' = IF k \in known THEN flying ELSE flying \cup {k}
         /\ UNCHANGED known

Unload == loadedKey' = None /\ UNCHANGED <<key, known, flying>>

\* What the commands offer for a plain text.
CommandRows ==
    {Row("Task", t, None, FALSE) : t \in DOMAIN Tasks} \cup {Row("Action", None, None, FALSE)}

\* update_matches for stage s and text q, here the open remote.
Match(s, q, here) ==
    CASE s = "Name" ->
            /\ choices' = IF q.kind = "empty" THEN {} ELSE {Row("UseName", None, None, FALSE)}
            /\ Unload
      [] s = "Remote" -> choices' = RemoteRows("PickRemote") /\ Unload
      [] s \in {"SourcePath", "DestDir"} /\ q.kind # "path" ->
            choices' = RemoteRows("Remote") /\ Unload
      [] s \in {"SourcePath", "DestDir"} /\ q.kind = "path" ->
            /\ Ensure(<<q.remote, q.dir>>)
            /\ choices' = {Row("UseFolder", q.remote, q.dir, TRUE)}
                              \cup EntryRows(key', q.remote, s = "SourcePath", "Entry")
      [] s = None /\ q.kind = "at" -> choices' = RemoteRows("GotoRemote") /\ Unload
      [] s = None /\ q.kind = "slash" ->
            IF here = None \/ <<here, q.dir>> \notin Listed
            THEN choices' = {} /\ UNCHANGED <<loadedKey, key, known, flying>>
            ELSE /\ Ensure(<<here, q.dir>>)
                 /\ choices' = EntryRows(key', here, FALSE, "GotoPath")
      [] s = None /\ q.kind \in {"empty", "words", "path"} ->
            choices' = CommandRows /\ UNCHANGED <<loadedKey, key, known, flying>>

\* A change of the stage forgets the folder matched last, then
\* Picker::reset_for_stage; the bug forgets to match the rows again.
MutStartStage(s) == query' = Empty /\ matched' = Empty /\ UNCHANGED <<choices, waited, loadedKey, key, known, flying>>
StartStage(s) ==
    /\ query' = Empty /\ matched' = Empty
    /\ IF s = None THEN choices' = CommandRows /\ Unload ELSE Match(s, Empty, None)
    /\ UNCHANGED waited

-----------------------------------------------------------------------------
(* Operations *)

\* toggle_palette, with nothing else over the window (module Dialogs).
OpenPalette ==
    /\ ~up /\ up' = TRUE
    /\ task' = None /\ collected' = <<>>
    /\ query' = Empty /\ matched' = Empty /\ waited' = FALSE
    /\ loadedKey' = None /\ key' = None /\ known' = {} /\ flying' = {}
    /\ choices' = {Row("Task", t, None, FALSE) : t \in DOMAIN Tasks}
    /\ UNCHANGED ran

\* The Dismiss event, Esc or a click outside: the palette and its calls are gone.
Closed ==
    /\ up' = FALSE
    /\ task' = None /\ collected' = <<>>
    /\ query' = Empty /\ matched' = Empty /\ choices' = {} /\ waited' = FALSE
    /\ loadedKey' = None /\ key' = None /\ known' = {} /\ flying' = {}

DismissPalette == up /\ Closed /\ UNCHANGED ran

Type ==
    /\ up
    /\ query' \in QueryTexts \ {query}
    /\ UNCHANGED <<up, task, collected, matched, choices, waited, loadedKey, key, known, flying, ran>>

\* Picker::render: matched again when the text changed, or a listing is awaited or
\* has just come.
DrawPalette ==
    /\ up
    /\ query # matched \/ IsLoading(key, known, flying) \/ waited
    /\ \E here \in Hosts \cup {None} : Match(Stage, query, here)
    /\ matched' = query
    /\ waited' = IsLoading(key, known, flying)
    /\ UNCHANGED <<up, task, collected, query, ran>>

ListingComes ==
    /\ \E k \in flying : flying' = flying \ {k} /\ known' \in {known, known \cup {k}}
    /\ UNCHANGED <<up, task, collected, query, matched, choices, waited, loadedKey, key, ran>>

Argument(c) == [name |-> c.row = "UseName", remote |-> c.remote, path |-> c.path,
                dir |-> c.dir, from |-> c.from]

\* push_arg
PushArg(c) ==
    LET args == Append(collected, Argument(c))
    IN  IF Len(args) < Len(Tasks[task])
        THEN /\ collected' = args /\ task' = task /\ up' = up
             /\ StartStage(Tasks[task][Len(args) + 1])
             /\ UNCHANGED ran
        ELSE Closed /\ ran' = [task |-> task, args |-> args]

\* Confirmed::SetQuery: the text follows, its rows at the next frame.
Descend(r, d) ==
    /\ query' = Text("path", r, d)
    /\ UNCHANGED <<up, task, collected, matched, choices, waited, loadedKey, key, known, flying, ran>>

ConfirmRow ==
    /\ up
    /\ \E c \in choices :
           \/ /\ c.row = "Task"
              /\ task' = c.remote /\ collected' = <<>> /\ up' = up
              /\ StartStage(Tasks[c.remote][1])
              /\ UNCHANGED ran
           \/ c.row = "Remote" /\ Descend(c.remote, Top)
           \/ c.row = "Entry" /\ c.dir /\ <<c.remote, c.path>> \in Listed /\ Descend(c.remote, c.path)
           \/ /\ c.row \in {"UseFolder", "UseName", "PickRemote"} \/ (c.row = "Entry" /\ ~c.dir)
              /\ task # None /\ PushArg(c)
           \/ c.row \in {"Action", "GotoRemote", "GotoPath"} /\ Closed /\ UNCHANGED ran

\* Backspace on an empty text.
StepBack ==
    /\ up /\ query = Empty /\ task # None
    /\ collected' = IF collected = <<>> THEN <<>> ELSE Front(collected)
    /\ task' = IF collected = <<>> THEN None ELSE task
    /\ StartStage(IF collected = <<>> THEN None ELSE Tasks[task][Len(collected)])
    /\ UNCHANGED <<up, ran>>

PalNext ==
    \/ OpenPalette \/ DismissPalette \/ Type \/ DrawPalette \/ ListingComes
    \/ ConfirmRow \/ StepBack

PalSpec == PalInit /\ [][PalNext]_palVars

-----------------------------------------------------------------------------
(* Properties *)

PalTypeOK ==
    /\ task \in DOMAIN Tasks \cup {None}
    /\ IF task = None THEN collected = <<>> ELSE Len(collected) < Len(Tasks[task])
    /\ known \cup flying \subseteq Listed

FitsKind(a, kind) ==
    CASE kind = "Name" -> a.name
      [] kind = "DestDir" -> ~a.name /\ a.dir
      [] kind = "SourcePath" -> ~a.name
      [] kind = "Remote" -> ~a.name /\ a.path = Top

\* A task runs with all its arguments, each of the kind its stage asked for, and a
\* path completed from a listing is of the remote that was listed: neither a stage
\* taken back nor a listing that comes late mixes rows of two stages or two remotes.
\* The operations it runs delete and overwrite at these paths.
RunsWhatWasAsked ==
    ran # None =>
        /\ Len(ran.args) = Len(Tasks[ran.task])
        /\ \A i \in DOMAIN ran.args :
               /\ FitsKind(ran.args[i], Tasks[ran.task][i])
               /\ ran.args[i].from # None => ran.args[i].from[1] = ran.args[i].remote
=============================================================================
