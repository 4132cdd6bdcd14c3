------------------------------ MODULE MCWindow ------------------------------
(***************************************************************************)
(* The parts of one window that are specified on their own, checked in one *)
(* run: a behaviour picks a part and lets that part alone take steps.      *)
(***************************************************************************)
EXTENDS Operations, History, Remotes, Palette, Dialogs, Preview, Storage, TLC

VARIABLE part \* the part that moves

\* Operations: a folder with a file, a file beside it, and its namesake on the
\* other drive.
MCStart ==
    <<"x", <<"d">>>> :> "dir" @@ <<"x", <<"d", "f">>>> :> "one"
        @@ <<"x", <<"f">>>> :> "two" @@ <<"y", <<"d">>>> :> "dir"

MCSpots == {"top", "sub", "other"}
MCAbove == [s \in MCSpots |-> IF s = "sub" THEN "top" ELSE None]

MCTasks ==
    "rename" :> <<"SourcePath", "Name">> @@ "copyurl" :> <<"Name", "DestDir">>
        @@ "about" :> <<"Remote">>
MCContent == <<"x", "">> :> {<<"f", FALSE>>} @@ <<"y", "">> :> {<<"d", TRUE>>}

MCTrim == "" :> "" @@ "a" :> "a" @@ "a " :> "a" @@ "b" :> "b"

MCKind == "img" :> "image" @@ "txt" :> "text" @@ "dir" :> "info"

-----------------------------------------------------------------------------

ops == part = "operations"
his == part = "history"
rem == part = "remotes"
pal == part = "palette"
dlg == part = "dialogs"
pre == part = "preview"
sto == part = "storage"

\* The parts that rest start from one of their initial states.
WinInit ==
    /\ part \in {"operations", "history", "remotes", "palette", "dialogs", "preview",
                "storage"}
    /\ OpInit /\ HistInit /\ RemInit /\ PalInit /\ DlgInit /\ PreInit /\ StoInit
    /\ ops \/ here = None
    /\ his \/ spot = None
    /\ rem \/ pinned = <<>>
    /\ dlg \/ (listedAs = {} /\ ~skipped)
    /\ pre \/ focused = "a"

WinNext ==
    /\ UNCHANGED part
    /\ ops \/ UNCHANGED opVars
    /\ his \/ UNCHANGED histVars
    /\ rem \/ UNCHANGED remVars
    /\ pal \/ UNCHANGED palVars
    /\ dlg \/ UNCHANGED dlgVars
    /\ pre \/ UNCHANGED preVars
    /\ sto \/ UNCHANGED stoVars
    /\ \/ ops /\ OpNext
       \/ his /\ HistNext
       \/ rem /\ RemNext
       \/ pal /\ PalNext
       \/ dlg /\ DlgNext
       \/ pre /\ PreNext
       \/ sto /\ StoNext

winVars == <<opVars, histVars, remVars, palVars, dlgVars, preVars, stoVars, part>>

WinSpec == WinInit /\ [][WinNext]_winVars

\* Every part, at rest or moving, has its types.
WindowTypeOK ==
    /\ OpTypeOK /\ HistoryAgrees /\ PinsHold
    /\ PalTypeOK /\ DlgTypeOK /\ PreTypeOK /\ StoTypeOK
=============================================================================
