--------------------------- MODULE BrowserHistory ---------------------------
(***************************************************************************)
(* What a pane promises of its history: the places behind it and ahead of  *)
(* it, each with the row the cursor was on when it was last left.  Going   *)
(* somewhere forgets what was ahead; going back and forth loses nothing;   *)
(* closing the folder forgets everything.                                  *)
(***************************************************************************)
EXTENDS Naturals, Sequences, SequencesExt

CONSTANTS Spots, Names, None

VARIABLES
    back,  \* visited before, the latest last
    ahead, \* left by going back, the nearest first
    spot,  \* the place shown, None on the welcome screen
    row,   \* the name under the cursor
    want   \* the name the pane was asked to land on

vars == <<back, ahead, spot, row, want>>

Visited == [at |-> spot, row |-> row]

Init == back = <<>> /\ ahead = <<>> /\ row = None /\ want = None /\ spot \in Spots \cup {None}

Visit == \E s \in Spots, w \in Names \cup {None} :
    /\ back' = IF spot = None THEN <<>> ELSE Append(back, Visited)
    /\ ahead' = <<>>
    /\ spot' = s /\ want' = w /\ row' = None

GoBack ==
    /\ back # <<>>
    /\ spot' = Last(back).at /\ want' = Last(back).row /\ row' = None
    /\ back' = Front(back) /\ ahead' = <<Visited>> \o ahead

GoForward ==
    /\ ahead # <<>>
    /\ spot' = Head(ahead).at /\ want' = Head(ahead).row /\ row' = None
    /\ ahead' = Tail(ahead) /\ back' = Append(back, Visited)

Leave ==
    /\ back' = <<>> /\ ahead' = <<>>
    /\ spot' = None /\ want' = None /\ row' = None

MoveCursor == spot # None /\ row' \in Names \cup {None} /\ UNCHANGED <<back, ahead, spot, want>>

Next == Visit \/ GoBack \/ GoForward \/ Leave \/ MoveCursor

Spec == Init /\ [][Next]_vars
=============================================================================
