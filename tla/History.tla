------------------------------ MODULE History -------------------------------
(***************************************************************************)
(* The history of one pane (ui/src/workspace/navigation.rs, pane.rs): a    *)
(* list of locations and a position in it, what the pane says it shows and *)
(* what its explorer was told to show.  Positions are numbered from 1.     *)
(*                                                                         *)
(* Operators named Mut... are mutants, bugs the next definition could have. *)
(***************************************************************************)
EXTENDS Values, Naturals, Sequences, SequencesExt

CONSTANTS
    Spots,     \* locations: a remote and a folder
    Above,     \* location -> its parent, None at a remote's root
    RowNames,  \* names of rows other than those of the folders in Spots
    MaxHistory \* bound on the length of a history

ASSUME HistoryAssumption ==
    /\ Above \in [Spots -> Spots \cup {None}]
    /\ None \notin Spots \cup RowNames
    /\ MaxHistory \in Nat \ {0}

VARIABLES
    hist,   \* Pane.history
    pos,    \* Pane.history_pos
    spot,   \* Pane.open_remote and path
    listed, \* what the explorer shows: its remote and path
    row,    \* Explorer::cursor_name
    want    \* the row the explorer was asked to land on

histVars == <<hist, pos, spot, listed, row, want>>

\* A folder is named by its location.
HistNames == RowNames \cup Spots

Location(s) == [at |-> s, row |-> None]

\* A pane opens on the welcome screen, or as a copy of another (clone_focused_tab).
HistInit ==
    /\ spot \in Spots \cup {None}
    /\ hist = IF spot = None THEN <<>> ELSE <<Location(spot)>>
    /\ pos = IF spot = None THEN 0 ELSE 1
    /\ listed = spot /\ row = None /\ want = None

\* Explorer::show: the cursor is off until the listing is drawn.
ShowAt(s, w) == listed' = s /\ want' = w /\ row' = None

\* remember_sel; the bug forgets the row.
MutRemembered(h) == h
Remembered(h) == IF pos \in DOMAIN h THEN [h EXCEPT ![pos].row = row] ELSE h

\* Vec::truncate at the position; the bug keeps what was ahead.
MutKept(h) == h
Kept(h) == SubSeq(h, 1, pos)

Navigate(s, w) ==
    /\ Len(Kept(hist)) < MaxHistory
    /\ hist' = Append(Kept(Remembered(hist)), Location(s))
    /\ pos' = Len(hist')
    /\ spot' = s
    /\ ShowAt(s, w)

\* A folder, a remote, a bookmark; or a job's target, with its row.
Go == \E s \in Spots, w \in HistNames \cup {None} : Navigate(s, w)

\* go_up lands on the folder it came from.
GoUp == spot # None /\ Above[spot] # None /\ Navigate(Above[spot], spot)

\* restore_history
Restore(h, p) ==
    /\ hist' = h /\ pos' = p
    /\ spot' = h[p].at
    /\ ShowAt(h[p].at, h[p].row)

Back == pos > 1 /\ Restore(Remembered(hist), pos - 1)
Forward == pos < Len(hist) /\ Restore(Remembered(hist), pos + 1)

\* The history of a pane that leaves its remote; the bug keeps it.
MutForgotten(h) == h
Forgotten(h) == <<>>

\* go_home, and a tab whose remote was deleted.
LeaveRemote ==
    /\ spot # None
    /\ spot' = None
    /\ hist' = Forgotten(hist) /\ pos' = 0
    /\ ShowAt(None, None)

\* The frame that draws the listing, a click or a key.
MoveRow ==
    /\ spot # None
    /\ row' \in HistNames \cup {None}
    /\ UNCHANGED <<hist, pos, spot, listed, want>>

HistNext == Go \/ GoUp \/ Back \/ Forward \/ LeaveRemote \/ MoveRow

HistSpec == HistInit /\ [][HistNext]_histVars

-----------------------------------------------------------------------------
(* Properties *)

\* The pane, its explorer and its history name the same place, at every step of any
\* walk back and forth, and a pane on the welcome screen has no history to return to.
HistoryAgrees ==
    /\ listed = spot
    /\ IF spot = None THEN hist = <<>>
       ELSE pos \in DOMAIN hist /\ hist[pos].at = spot

BH == INSTANCE BrowserHistory WITH
    Names <- HistNames,
    back  <- SubSeq(hist, 1, pos - 1),
    ahead <- SubSeq(hist, pos + 1, Len(hist))

\* The list and its position implement a browser's history.
KeepsItsHistory == BH!Spec
=============================================================================
