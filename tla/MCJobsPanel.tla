----------------------------- MODULE MCJobsPanel -----------------------------
(***************************************************************************)
(* The job tracker and the panel over its list, each specified on its own  *)
(* and checked in one run: a behaviour picks one and lets it alone take    *)
(* steps.                                                                  *)
(***************************************************************************)
EXTENDS Jobs, Tasks

VARIABLE part \* what moves

PanelInit == part \in {"tracker", "panel"} /\ Init /\ TaskInit

PanelNext ==
    /\ UNCHANGED part
    /\ \/ part = "tracker" /\ Next /\ UNCHANGED tskVars
       \/ part = "panel" /\ TaskNext /\ UNCHANGED vars

PanelSpec == PanelInit /\ [][PanelNext]_<<vars, tskVars, part>>
=============================================================================
