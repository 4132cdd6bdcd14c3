---------------------------- MODULE ShownListing ----------------------------
(***************************************************************************)
(* What a view that shows a Query may rely on, without caches, fetches or  *)
(* staleness: one key at a time, rows that belong to it, a busy state that *)
(* ends.  Query implements it (MCQuery).                                   *)
(***************************************************************************)
CONSTANTS Keys, Arrs, Versions, None

VARIABLES current, data, status

shown == <<current, data, status>>

Rows(k) == [of : {k}, ver : Versions, arr : Arrs]

Init == current = None /\ data = None /\ status = "Idle"

\* The user opens k: rows already known are shown at once, else a spinner.
Open(k) ==
    /\ current' = k
    /\ \/ data' \in Rows(k) /\ status' \in {"Ready", "Revalidating"}
       \/ data' = None /\ status' = "Loading"

\* A fetch of the shown key succeeds: its rows replace what is there.
Deliver ==
    /\ current # None
    /\ current' = current
    /\ data' \in Rows(current)
    /\ status' = "Ready"

\* It fails: rows stay if there are any, else the error takes their place.
GiveUp ==
    /\ status \in {"Loading", "Revalidating"}
    /\ status' = IF data # None THEN "Ready" ELSE "Error"
    /\ UNCHANGED <<current, data>>

\* A refresh in the background, with rows to look at.
Refresh ==
    /\ status = "Ready"
    /\ status' = "Revalidating"
    /\ UNCHANGED <<current, data>>

Rearrange ==
    /\ data # None
    /\ \E a \in Arrs : data' = [data EXCEPT !.arr = a]
    /\ UNCHANGED <<current, status>>

Next ==
    \/ \E k \in Keys : Open(k)
    \/ Deliver \/ GiveUp \/ Refresh \/ Rearrange

\* A view that stays on a key is not left busy for ever.
Ends(k) ==
    /\ current = k
    /\ status \in {"Loading", "Revalidating"}
    /\ Deliver \/ GiveUp

Spec == Init /\ [][Next]_shown /\ \A k \in Keys : WF_shown(Ends(k))
=============================================================================
