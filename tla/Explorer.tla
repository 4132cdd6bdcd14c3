------------------------------ MODULE Explorer ------------------------------
(***************************************************************************)
(* One file-list pane (ui/src/explorer): what it lists, the filter and the *)
(* subfolder search over it, the selection by path, the cursor by row, the *)
(* row to land on, the rubber band, and the frame that reconciles them.    *)
(*                                                                         *)
(* Every handler runs on the UI thread; a frame is drawn some time after,  *)
(* so several handlers may run between two frames.  A listing arrives at   *)
(* any moment, in any order and with any rows (module Query says when, and *)
(* what a cache may serve).  An entry is the pair of its folder and its    *)
(* name; the name is unique in the folder only.  Rows are numbered from 1. *)
(*                                                                         *)
(* Operators named Mut... are mutants, bugs the next definition could have; *)
(* nothing uses them but the check that the properties notice them.        *)
(***************************************************************************)
EXTENDS Values, Naturals, Sequences, SequencesExt

CONSTANTS
    Files,   \* entries <<folder, name>> the remote may hold
    Below,   \* folder -> the folders a search from it descends into
    Hit,     \* search text -> the names it matches
    MaxRows, \* bound on the rows of one listing
    MaxBurst \* bound on the handlers that run between two frames

Folders == DOMAIN Below
Texts == DOMAIN Hit
Names == {e[2] : e \in Files}

ASSUME ExplorerAssumption ==
    /\ Files \subseteq Folders \X Names
    /\ \A f \in Folders : f \in Below[f] /\ Below[f] \subseteq Folders
    /\ \A t \in Texts : Hit[t] \subseteq Names
    /\ MaxRows \in Nat \ {0}
    /\ MaxBurst \in Nat \ {0}
    /\ None \notin Folders \cup Texts \cup Names
    /\ None \notin Files /\ None \notin Texts \X Nat

VARIABLES
    at,       \* Explorer.remote and path; None on the welcome screen
    rows,     \* dir_query.data() for at
    text,     \* Explorer.search; None when empty
    searched, \* Explorer.searched
    hits,     \* search_query.data() for (at, searched)
    view,     \* Explorer.view, the rows that pass the filter
    viewSig,  \* Explorer.view_sig
    sel,      \* Selection.set
    anchor,   \* Selection.anchor
    cursor,   \* Explorer.entry_sel
    base,     \* Marquee.base while a rubber band is dragged
    pending,  \* Explorer.pending_select
    burst     \* how many handlers have run since the last frame

listing == <<at, rows, text, searched, hits>>
filter == <<view, viewSig>>
choice == <<sel, anchor, cursor>>
vars == <<listing, filter, choice, base, pending, burst>>

drawn == burst = 0

InFolder(f) == {e \in Files : e[1] = f}
Found(f, t) == {e \in Files : e[1] \in Below[f] /\ e[2] \in Hit[t]}

\* Listings of members of S: any order, every entry at most once.
Lists ==
    [S \in SUBSET Files |->
        {q \in UNION {[1 .. n -> S] : n \in 0 .. MaxRows} : IsInjective(q)}]

Init ==
    /\ at = None /\ rows = None
    /\ text = None /\ searched = None /\ hits = None
    /\ view = <<>> /\ viewSig = None
    /\ sel = {} /\ anchor = None /\ cursor = None
    /\ base = None /\ pending = None
    /\ burst = 0

-----------------------------------------------------------------------------
(* What is displayed *)

RowsOrNone == IF rows = None THEN <<>> ELSE rows
RecursiveIntent == searched # None /\ searched = text
RecursiveShowing == RecursiveIntent /\ hits # None

\* Explorer::entries, v standing for the filtered view.
Displayed(v) ==
    IF RecursiveShowing THEN hits ELSE IF text # None THEN v ELSE RowsOrNone

Entries == Displayed(view)
Rows(q) == DOMAIN q
Paths(q) == Range(q)

\* The row cursor_name and cursor_entry read.
CursorName == IF cursor \in Rows(Entries) THEN Entries[cursor][2] ELSE None

\* rebuild_search_view: "unchanged" is judged by the text and the number of rows.
FilterIsOld == viewSig # <<text, Len(RowsOrNone)>>

Filtered ==
    IF ~RecursiveShowing /\ text # None /\ FilterIsOld
    THEN [rows |-> KeepOnly(RowsOrNone, {e \in Files : e[2] \in Hit[text]}),
          sig  |-> <<text, Len(RowsOrNone)>>]
    ELSE [rows |-> view, sig |-> viewSig]

-----------------------------------------------------------------------------
(* Selection, over the rows q *)

\* Explorer::select_only; an index past the rows clears.
SelectOnly(q, ix) ==
    IF ix \in Rows(q)
    THEN sel' = {q[ix]} /\ anchor' = q[ix] /\ cursor' = ix
    ELSE sel' = {} /\ anchor' = None /\ cursor' = None

LeadIfSelected(ix) == cursor' = IF sel' = {} THEN None ELSE ix

ToggleAt(q, ix) ==
    /\ IF ix \in Rows(q)
       THEN /\ sel' = IF q[ix] \in sel THEN sel \ {q[ix]} ELSE sel \cup {q[ix]}
            /\ anchor' = q[ix]
       ELSE UNCHANGED <<sel, anchor>>
    /\ LeadIfSelected(ix)

Between(a, b) == IF a <= b THEN a .. b ELSE b .. a

\* Selection::range_to: the anchor stays, or is the row when its own is gone.
SelectRangeTo(q, ix) ==
    /\ IF ix \in Rows(q)
       THEN IF anchor \in Paths(q)
            THEN /\ \E a \in Rows(q) :
                        q[a] = anchor /\ sel' = {q[i] : i \in Between(a, ix)}
                 /\ UNCHANGED anchor
            ELSE /\ sel' = {q[ix]}
                 /\ anchor' = IF anchor = None THEN None ELSE q[ix]
       ELSE UNCHANGED <<sel, anchor>>
    /\ LeadIfSelected(ix)

Clear == sel' = {} /\ anchor' = None /\ cursor' = None

-----------------------------------------------------------------------------
(* Handlers.  Each leaves the next frame to be drawn. *)

Handler == burst < MaxBurst /\ burst' = burst + 1

\* The handlers that only move the selection.
Choosing == Handler /\ UNCHANGED <<listing, filter, pending>>

MutResetSearchKeepsSig ==
    /\ text' = None /\ searched' = None /\ hits' = None
    /\ UNCHANGED viewSig

ResetSearch ==
    /\ text' = None /\ searched' = None /\ hits' = None
    /\ viewSig' = None

\* show: the cache may hold the folder's rows already.  A band that is dragged
\* while a shortcut navigates goes on (bound: unless it started over a selection).
Show(f, want) ==
    /\ base \in {None, {}}
    /\ ResetSearch
    /\ at' = f
    /\ Clear
    /\ pending' = want
    /\ \/ f = None /\ rows' = None /\ burst' = 0
       \/ f # None /\ rows' \in Lists[InFolder(f)] \cup {None} /\ Handler
    /\ UNCHANGED <<view, base>>

\* A fetch of the open folder (first load, poll, reload, invalidation) answers, or
\* a poll after an invalidation finds nothing in the cache (bound: not under a band
\* or a filter, or where one has been).
Deliver ==
    /\ at # None
    /\ \/ rows' \in Lists[InFolder(at)] \ {rows}
       \/ rows' = None /\ rows # None /\ base = None /\ text = None /\ viewSig = None
    /\ Handler
    /\ UNCHANGED <<at, text, searched, hits, filter, choice, base, pending>>

\* choose_sort: the current rows change places, the cursor's row is to be kept.
ChooseSort ==
    /\ at # None
    /\ pending' = CursorName
    /\ IF rows = None
       THEN UNCHANGED rows
       ELSE rows' \in {q \in Lists[Paths(rows)] : Len(q) = Len(rows)}
    /\ Handler
    /\ UNCHANGED <<at, text, searched, hits, filter, choice, base>>

\* The search field's text changed.
TypeSearch(t) ==
    /\ at # None /\ t # text
    /\ text' = t
    /\ Handler
    /\ UNCHANGED <<at, rows, searched, hits, filter, choice, base, pending>>

\* run_search: an earlier search may have left its hits in the cache.
RunSearch ==
    /\ at # None
    /\ \/ /\ text = None
          /\ searched' = None /\ hits' = None
       \/ /\ text # None
          /\ searched' = text
          /\ hits' \in IF searched = text THEN {hits, None}
                       ELSE {None} \cup Lists[Found(at, text)]
    /\ Handler
    /\ UNCHANGED <<at, rows, text, filter, choice, base, pending>>

ToggleSubfolderSearch ==
    /\ RecursiveIntent
    /\ searched' = None /\ hits' = None
    /\ Handler
    /\ UNCHANGED <<at, rows, text, filter, choice, base, pending>>

SearchAnswers ==
    /\ searched # None /\ hits = None
    /\ hits' \in Lists[Found(at, searched)]
    /\ Handler
    /\ UNCHANGED <<at, rows, text, searched, filter, choice, base, pending>>

\* close_search, and toggle_search when the field is open.
CloseSearch ==
    /\ at # None
    /\ ResetSearch
    /\ Handler
    /\ UNCHANGED <<at, rows, view, choice, base, pending>>

\* The button that drags the band is down: no other press of it.
Click(ix) ==
    /\ base = None
    /\ \/ SelectOnly(Entries, ix)
       \/ ToggleAt(Entries, ix)
       \/ SelectRangeTo(Entries, ix)
    /\ Choosing /\ UNCHANGED base

\* A right click keeps a selection that contains the row.
RightClick(ix) ==
    /\ ix \in Rows(Entries) => Entries[ix] \notin sel
    /\ SelectOnly(Entries, ix)
    /\ Choosing /\ UNCHANGED base

\* A press on empty space deselects; one with a modifier keeps the selection.
Press ==
    /\ base = None /\ sel # {}
    /\ Clear
    /\ Choosing /\ UNCHANGED base

SelectAll ==
    /\ at # None
    /\ sel' = Paths(Entries)
    /\ LeadIfSelected(IF cursor = None THEN 1 ELSE cursor)
    /\ Choosing /\ UNCHANGED <<anchor, base>>

Min2(a, b) == IF a <= b THEN a ELSE b

\* select_next and select_prev, with shift held or not.
Step(first, to) ==
    /\ Entries # <<>>
    /\ \/ cursor = None /\ SelectOnly(Entries, first)
       \/ /\ cursor # None
          /\ SelectOnly(Entries, to) \/ SelectRangeTo(Entries, to)
    /\ Choosing /\ UNCHANGED base

SelectNext == Step(1, IF cursor = None THEN 1 ELSE Min2(cursor + 1, Len(Entries)))
SelectPrev == Step(Len(Entries), IF cursor \in {None, 1} THEN 1 ELSE cursor - 1)

CollapseSelection ==
    /\ cursor # None
    /\ SelectOnly(Entries, cursor)
    /\ Choosing /\ UNCHANGED base

SelectFirstIfEmpty ==
    /\ sel = {} /\ Entries # <<>>
    /\ SelectOnly(Entries, 1)
    /\ Choosing /\ UNCHANGED base

\* apply_marquee when the band misses every row, or the list is not laid out.
BandOverNothing(b) ==
    /\ sel' = b
    /\ cursor' = None

\* apply_marquee over rows lo..hi; the lead is the end the pointer is at.
BandOver(b, lo, hi) ==
    /\ sel' = b \cup {Entries[i] : i \in lo .. hi}
    /\ cursor' \in {lo, hi}

\* drag_marquee, and the autoscroll tick that re-derives the band.
DragMarquee ==
    /\ base = None => Entries # <<>>
    /\ base' \in IF base = None THEN {sel, {}} ELSE {base}
    /\ \/ BandOverNothing(base')
       \/ \E lo, hi \in Rows(Entries) : lo <= hi /\ BandOver(base', lo, hi)
    /\ Choosing /\ UNCHANGED anchor

EndMarquee ==
    /\ base # None
    /\ base' = None
    /\ Choosing /\ UNCHANGED choice

\* set_pending: a rename or a new folder was submitted.
SetPending(n) ==
    /\ at # None
    /\ pending' = n
    /\ Handler
    /\ UNCHANGED <<listing, filter, choice, base>>

-----------------------------------------------------------------------------
(* The frame: rebuild_search_view, then resolve_selection *)

MutKeepWhatRemains(q) ==
    /\ UNCHANGED sel
    /\ anchor' = IF anchor \in Paths(q) THEN anchor ELSE None
    /\ cursor' = IF sel' = {} \/ cursor = None THEN None
                 ELSE IF Len(q) = 0 THEN 1 ELSE Min2(cursor, Len(q))

\* Paths that are gone leave the selection; the cursor stays within the rows.
KeepWhatRemains(q) ==
    /\ sel' = sel \cap Paths(q)
    /\ anchor' = IF sel = {} \/ anchor \in Paths(q) THEN anchor ELSE None
    /\ cursor' = IF sel' = {} \/ cursor = None THEN None ELSE Min2(cursor, Len(q))

Named(q, n) == {i \in Rows(q) : q[i][2] = n}

MutResolveSelection(q) ==
    \/ rows = None /\ UNCHANGED <<choice, pending>>
    \/ /\ rows # None
       /\ pending' = None
       /\ SelectOnly(q, IF cursor = None THEN Len(q) + 1 ELSE cursor)

ResolveSelection(q) ==
    \/ rows = None /\ UNCHANGED <<choice, pending>>
    \/ /\ rows # None
       /\ pending' = None
       /\ IF pending # None /\ Named(q, pending) # {}
          THEN \E i \in Named(q, pending) :
                  (\A j \in Named(q, pending) : i <= j) /\ SelectOnly(q, i)
          ELSE KeepWhatRemains(q)

Frame ==
    /\ at # None /\ ~drawn
    /\ view' = Filtered.rows
    /\ viewSig' = Filtered.sig
    /\ ResolveSelection(Displayed(view'))
    /\ burst' = 0
    /\ UNCHANGED <<listing, base>>

Next ==
    \/ \E f \in Folders, n \in Names \cup {None} : Show(f, n)
    \/ at # None /\ Show(None, None)
    \/ Deliver \/ ChooseSort
    \/ \E t \in Texts \cup {None} : TypeSearch(t)
    \/ RunSearch \/ ToggleSubfolderSearch \/ SearchAnswers \/ CloseSearch
    \/ \E ix \in 1 .. MaxRows : at # None /\ (Click(ix) \/ RightClick(ix))
    \/ Press \/ SelectAll \/ SelectNext \/ SelectPrev
    \/ CollapseSelection \/ SelectFirstIfEmpty
    \/ (at # None /\ DragMarquee) \/ EndMarquee
    \/ \E n \in Names : SetPending(n)
    \/ Frame

Spec == Init /\ [][Next]_vars

-----------------------------------------------------------------------------
(* Properties *)

TypeOK ==
    /\ at \in Folders \cup {None}
    /\ rows = None \/ rows \in Lists[InFolder(at)]
    /\ text \in Texts \cup {None} /\ searched \in Texts \cup {None}
    /\ hits = None \/ hits \in Lists[Found(at, searched)]
    /\ view \in Lists[Files]
    /\ viewSig = None \/ viewSig \in Texts \X (0 .. MaxRows)
    /\ sel \subseteq Files /\ anchor \in Files \cup {None}
    /\ cursor \in (1 .. MaxRows) \cup {None}
    /\ base = None \/ base \subseteq Files
    /\ pending \in Names \cup {None}
    /\ burst \in 0 .. MaxBurst

\* After a frame over a loaded listing the selection and the cursor are about
\* the rows on display, whatever rows came, went or moved since the last frame
\* (mod.rs, resolve_selection: "keep the cursor in range and consistent").
Settled ==
    /\ TypeOK
    /\ drawn /\ rows # None =>
         /\ sel \subseteq Paths(Entries)
         /\ cursor # None => cursor \in Rows(Entries) /\ sel # {}

\* What a frame lists lies in the open folder, or below it for a subfolder
\* search, and passes the filter typed: a filter or a search of the folder left
\* behind never shows through.
RowsOfThisFolder ==
    drawn =>
        /\ \A e \in Paths(Entries) :
               /\ e[1] \in IF RecursiveShowing THEN Below[at] ELSE {at}
               /\ text # None => e[2] \in Hit[text]

\* Only the user's own gestures select: a listing that arrives, a sort, a filter,
\* a search's answer or a frame adds nothing to what the next delete or paste
\* acts on, except the row a rename, a new folder or a navigation named.
OnlyGesturesSelect ==
    [][\/ sel' \subseteq sel \cup {e \in Files : e[2] = pending}
       \/ ~(Deliver \/ ChooseSort \/ SearchAnswers \/ Frame \/ CloseSearch)]_vars

\* mod.rs:70 of the cursor: "Invariant: Some iff sel is non-empty".
CursorIffSelected == cursor # None <=> sel # {}

\* search.rs:29 of the filtered rows: the rebuild is skipped when "query and dir
\* entries are unchanged", so what is listed is the filter of the listing, in order.
FilterIsOfListing ==
    drawn /\ rows # None /\ text # None /\ ~RecursiveShowing =>
        Entries = SelectSeq(rows, LAMBDA e : e[2] \in Hit[text])

=============================================================================
