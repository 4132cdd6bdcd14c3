------------------------------- MODULE Preview -------------------------------
(***************************************************************************)
(* The preview panel (ui/src/preview.rs) and the right dock it sits in     *)
(* (workspace/dock.rs).  One panel mirrors the cursor of the focused tab:  *)
(* it reads a file once, keeps what it read, and totals a folder on        *)
(* request.  Reads of the same file may overlap and answer in any order.   *)
(*                                                                         *)
(* A subject is a path on a remote, a file or a folder.  Operators named   *)
(* Mut... are mutants, bugs the next definition could have.                *)
(***************************************************************************)
EXTENDS Values, Naturals, Sequences, SequencesExt, Functions

CONSTANTS
    Panes,      \* explorers of the open tabs
    Kind,       \* subject -> what classify and its size make of it
    CacheCap,   \* CACHE_CAP
    MaxReads,   \* bound on the reads of one subject, or its totals, in flight
    MaxNotices  \* bound on the changes of the cursors

Subjects == DOMAIN Kind

ASSUME PreviewAssumption ==
    /\ Kind \in [Subjects -> {"image", "text", "info", "large"}]
    /\ CacheCap \in Nat \ {0} /\ MaxReads \in Nat \ {0}
    /\ None \notin Subjects

VARIABLES
    under,    \* pane -> the cursor's entry, else the open folder; None at home
    focused,  \* the focused tab's pane
    panel,    \* DockState.panel
    watched,  \* PreviewPane.explorer
    subject,  \* current: its remote and path
    shown,    \* current.state
    total,    \* current.dir_size
    picture,  \* what the ImageView holds
    kept,     \* PreviewPane.cache, the oldest first
    reads,    \* subject -> reads in flight
    totals,   \* subject -> totals in flight
    notices   \* how many times a cursor has changed

dock == <<focused, panel>>
current == <<subject, shown, total>>
flights == <<reads, totals>>
preVars == <<under, dock, watched, current, picture, kept, flights, notices>>

\* What a read ends in: an error, or one of the contents the file had.
Showing(s, b) == [of |-> s, body |-> b]
Loaded(s) == {Showing(s, "error"), Showing(s, "good")}
Nothing == Showing(None, "nothing")
IsImage(x) == x.body = "good" /\ Kind[x.of] = "image"

PreInit ==
    /\ under = [p \in Panes |-> None]
    /\ focused \in Panes /\ watched = focused /\ panel = None
    /\ subject = None /\ shown = Nothing /\ total = "idle"
    /\ picture = Nothing /\ kept = <<>>
    /\ reads = [s \in Subjects |-> 0] /\ totals = [s \in Subjects |-> 0]
    /\ notices = 0

Keys(c) == {c[i].of : i \in DOMAIN c}
PlaceOf(s) == CHOOSE i \in DOMAIN kept : kept[i].of = s
CacheGet(s) == kept[PlaceOf(s)]
\* What was kept under the key of e goes, e comes last.
Promoted(e) == Append(IF e.of \in Keys(kept) THEN RemoveAt(kept, PlaceOf(e.of)) ELSE kept, e)

\* show_state
ShowState(x) == picture' = IF IsImage(x) THEN x ELSE picture

\* The cache keeps the CacheCap latest.
CachePut(e) == LET c == Promoted(e) IN IF Len(c) > CacheCap THEN Tail(c) ELSE c

-----------------------------------------------------------------------------
(* Operations *)

\* refresh: s is what the cursor of the watched pane is on.
Refresh(s) ==
    IF s = None
    THEN /\ subject' = None /\ shown' = Nothing /\ total' = "idle"
         /\ UNCHANGED <<picture, kept, reads>>
    ELSE IF s = subject
    THEN UNCHANGED <<current, picture, kept, reads>>
    ELSE /\ subject' = s /\ total' = "idle"
         /\ IF s \in Keys(kept)
            THEN /\ shown' = CacheGet(s)
                 /\ ShowState(CacheGet(s))
                 /\ kept' = Promoted(CacheGet(s))
                 /\ UNCHANGED reads
            ELSE /\ shown' = Showing(s, IF Kind[s] \in {"info", "large"} THEN Kind[s] ELSE "loading")
                 /\ reads' = IF shown'.body = "loading" THEN [reads EXCEPT ![s] = @ + 1] ELSE reads
                 /\ reads'[s] <= MaxReads
                 /\ UNCHANGED <<picture, kept>>

\* A gesture, a navigation or a listing: the explorer notifies whoever observes it.
CursorMoves(p) ==
    /\ notices < MaxNotices /\ notices' = notices + 1
    /\ \E s \in Subjects \cup {None} : under' = [under EXCEPT ![p] = s]
    /\ IF p = watched
       THEN Refresh(under'[p]) /\ UNCHANGED totals
       ELSE UNCHANGED <<current, picture, kept, flights>>
    /\ UNCHANGED <<dock, watched>>

\* The frame settles the cursor (module Explorer) without a notice.
FrameMovesCursor(p) ==
    /\ notices < MaxNotices /\ notices' = notices + 1
    /\ under[p] # None
    /\ \E s \in Subjects : under' = [under EXCEPT ![p] = s]
    /\ UNCHANGED <<dock, watched, current, picture, kept, flights>>

\* set_explorer
Watch(p) == watched' = p /\ Refresh(under[p]) /\ UNCHANGED totals

\* show_panel and toggle_panel; Esc and the close button show none.
ShowPanel(to) ==
    /\ panel' = IF to = panel THEN None ELSE to
    /\ IF panel' = "Preview" THEN Watch(focused)
       ELSE UNCHANGED <<watched, current, picture, kept, flights>>
    /\ UNCHANGED <<under, focused, notices>>

\* open_preview: a file was opened.
OpenPreview ==
    /\ panel' = "Preview"
    /\ Watch(focused)
    /\ UNCHANGED <<under, focused, notices>>

\* focused_group_changed: retarget_preview
FocusTab(p) ==
    /\ p # focused /\ focused' = p
    /\ IF panel = "Preview" THEN Watch(p)
       ELSE UNCHANGED <<watched, current, picture, kept, flights>>
    /\ UNCHANGED <<under, panel, notices>>

\* Does an answer about s concern what is shown; the bug does not ask.
MutIsCurrent(s) == subject # None
IsCurrent(s) == s = subject

\* on_loaded
OnLoaded(s) ==
    /\ reads[s] > 0 /\ reads' = [reads EXCEPT ![s] = @ - 1]
    /\ \E e \in Loaded(s) :
           /\ IF IsCurrent(s)
              THEN shown' = e /\ ShowState(e)
              ELSE UNCHANGED <<shown, picture>>
           /\ kept' = CachePut(e)
    /\ UNCHANGED <<under, dock, watched, subject, total, totals, notices>>

\* calculate_dir_size: offered for a folder whose total is not known or under way.
CalculateDirSize ==
    /\ panel = "Preview" /\ subject # None /\ Kind[subject] = "info" /\ total = "idle"
    /\ totals[subject] < MaxReads
    /\ total' = "loading"
    /\ totals' = [totals EXCEPT ![subject] = @ + 1]
    /\ UNCHANGED <<under, dock, watched, subject, shown, picture, kept, reads, notices>>

OnTotal(s) ==
    /\ totals[s] > 0 /\ totals' = [totals EXCEPT ![s] = @ - 1]
    /\ total' = IF IsCurrent(s) THEN "done" ELSE total
    /\ UNCHANGED <<under, dock, watched, subject, shown, picture, kept, reads, notices>>

PreNext ==
    \/ \E p \in Panes : CursorMoves(p) \/ FrameMovesCursor(p) \/ FocusTab(p)
    \/ \E to \in {"Preview", "Tasks"} : ShowPanel(to)
    \/ OpenPreview
    \/ \E s \in Subjects : OnLoaded(s) \/ OnTotal(s)
    \/ CalculateDirSize

PreSpec == PreInit /\ [][PreNext]_preVars

-----------------------------------------------------------------------------
(* Properties *)

PreTypeOK ==
    /\ under \in [Panes -> Subjects \cup {None}]
    /\ focused \in Panes /\ watched \in Panes
    /\ panel \in {None, "Preview", "Tasks"} /\ total \in {"idle", "loading", "done"}
    /\ subject \in Subjects \cup {None}
    /\ reads \in [Subjects -> 0 .. MaxReads] /\ totals \in [Subjects -> 0 .. MaxReads]

\* What the panel shows is about its subject, however late and in whatever order the
\* reads answer: the content and the picture are the subject's own, a
\* spinner has a read or a total that will end it, and the cache holds every key
\* once, with its own content, within its limit.
PreviewMatchesSubject ==
    /\ PreTypeOK
    /\ panel = "Preview" => watched = focused
    /\ shown.of = subject
    /\ IsImage(shown) => picture = shown
    /\ shown.body = "loading" => reads[subject] > 0
    /\ total = "loading" => totals[subject] > 0
    /\ Len(kept) <= CacheCap
    /\ \A i, j \in DOMAIN kept : kept[i].of = kept[j].of => i = j

\* preview.rs:119: "every selection/navigation change notifies the explorer, so
\* observing it keeps the subject in sync".
PreviewFollowsCursor == panel = "Preview" => subject = under[focused]
=============================================================================
