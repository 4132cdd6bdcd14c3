------------------------------- MODULE Dialogs -------------------------------
(***************************************************************************)
(* The one modal slot of the window (ui/src/workspace/modal.rs,            *)
(* workspace/settings.rs), the dialogs that take turns in it, and the      *)
(* wizard that adds or edits a remote (ui/src/remotes) by a conversation   *)
(* with rclone.  A dialog that replaces another drops it; one that is      *)
(* dismissed first runs its on_dismiss.  Dropping a wizard drops its task, *)
(* and with it the request rclone is serving (service.rs, AbortOnDrop).    *)
(*                                                                         *)
(* The application menu reaches the window whatever is open; keys and      *)
(* clicks only when no dialog is.  Operators named Mut... are mutants.     *)
(***************************************************************************)
EXTENDS Values, Naturals, Sequences

CONSTANTS
    Trim,       \* text of the name field -> the name trimmed
    Blank,      \* the empty name
    Configured, \* the remotes there are at first
    MaxWizards, \* bound on the wizards opened
    MaxChecks   \* bound on the update checks, and the stops, under way

Raw == DOMAIN Trim
TrimmedNames == {Trim[r] : r \in Raw}

ModalKinds == {"palette", "wizard", "confirm", "mount", "keys", "update"}

\* RemoteConfigModal
Wizards ==
    [id : Nat, mode : {"Add", "Edit"}, phase : {"Busy", "PickType", "Form", "Question"},
     loading : BOOLEAN, name : Raw, of : Raw, names : SUBSET TrimmedNames, asked : BOOLEAN]

ASSUME DialogsAssumption ==
    /\ TrimmedNames \subseteq Raw /\ \A n \in TrimmedNames : Trim[n] = n
    /\ Blank \in TrimmedNames /\ Configured \subseteq TrimmedNames \ {Blank}
    /\ MaxWizards \in Nat /\ MaxChecks \in Nat
    /\ None \notin ModalKinds /\ None \notin Wizards

VARIABLES
    modal,    \* Workspace.modal: the kind of its view
    over,     \* what else Esc closes: settings, the prompt, the Tasks dock, a menu
    wiz,      \* the RemoteConfigModal of the slot
    opens,    \* how many wizards were opened
    calls,    \* config/create and config/update calls of a wizard, until settled
    server,   \* the wizard whose call has rclone's OAuth webserver up
    stops,    \* config/oauthstop calls under way
    stored,   \* the remotes rclone has configured
    listedAs, \* Workspace.remotes
    checks,   \* update checks under way
    skipped,  \* settings.skipped_update_version is the version published
    installs  \* downloads of an update under way

wizard == <<wiz, opens, calls, server, stops>>
updates == <<checks, skipped, installs>>
dlgVars == <<modal, over, wizard, stored, listedAs, updates>>

\* "other": settings, the Tasks dock, a menu.
Overlays == {"prompt", "other"}

DlgInit ==
    /\ modal = None /\ over = {}
    /\ wiz = None /\ opens = 0 /\ calls = {} /\ server = None /\ stops = 0
    /\ stored = Configured /\ listedAs \in {{}, Configured}
    /\ checks = <<"startup">> /\ skipped \in BOOLEAN /\ installs = 0

Busy == wiz # None /\ wiz.phase = "Busy"

\* run_cancellable: the request goes with the wizard; the bug is a plain run.
MutCallsWithout(w) == calls
CallsWithout(w) == IF w = None THEN calls ELSE {c \in calls : c.by # w.id}

\* The slot gets another view, or none: the one it held is dropped.
Take(kind, w) ==
    /\ modal' = kind /\ wiz' = w
    /\ calls' = CallsWithout(wiz)
    /\ server' = IF \E c \in calls' : c.by = server THEN server ELSE None

Put(kind) == Take(kind, None) /\ UNCHANGED <<opens, stops>>

\* close_modal
CloseModal ==
    /\ Take(None, None)
    /\ stops' = IF Busy /\ stops < MaxChecks THEN stops + 1 ELSE stops
    /\ UNCHANGED opens

-----------------------------------------------------------------------------
(* The slot *)

TogglePalette ==
    /\ \/ modal = "palette" /\ CloseModal
       \/ modal = None /\ "prompt" \notin over /\ Put("palette")
    /\ UNCHANGED <<over, stored, listedAs, updates>>

\* A confirmation (delete, purge, uninstall, sync) from a key or a row's menu, from
\* the palette, which it replaces, or from the application menu, over anything.
AskConfirm ==
    /\ Put("confirm")
    /\ UNCHANGED <<over, stored, listedAs, updates>>

\* Mount options and the list of keys: nothing is open.
OpenCard ==
    /\ modal = None
    /\ \E k \in {"mount", "keys"} : Put(k)
    /\ UNCHANGED <<over, stored, listedAs, updates>>

\* Accepted, saved or cancelled: the opener's subscription empties the slot.
Resolve ==
    /\ modal \in {"confirm", "mount"}
    /\ Put(None)
    /\ UNCHANGED <<over, stored, listedAs, updates>>

\* The palette runs its row, or a card is closed by its own button.
Finish ==
    /\ modal \in {"palette", "keys"}
    /\ CloseModal
    /\ UNCHANGED <<over, stored, listedAs, updates>>

\* The backdrop, or the wizard's Cancel.
DismissModal ==
    /\ modal # None
    /\ CloseModal
    /\ UNCHANGED <<over, stored, listedAs, updates>>

\* Esc closes everything at once.
Escape ==
    /\ modal # None \/ over # {}
    /\ over' = {}
    /\ CloseModal
    /\ UNCHANGED <<stored, listedAs, updates>>

\* Settings, the Tasks dock, a menu, an inline edit.
Overlay ==
    /\ \E o \in Overlays : over' = IF o \in over THEN over \ {o} ELSE over \cup {o}
    /\ UNCHANGED <<modal, wizard, stored, listedAs, updates>>

-----------------------------------------------------------------------------
(* The wizard *)

NewWizard(mode, n) ==
    [id |-> opens + 1, mode |-> mode, phase |-> "Busy", loading |-> TRUE,
     name |-> n, of |-> n, names |-> listedAs, asked |-> FALSE]

Begin(mode, n) ==
    /\ opens < MaxWizards /\ opens' = opens + 1
    /\ Take("wizard", NewWizard(mode, n))
    /\ UNCHANGED <<over, stops, stored, listedAs, updates>>

BeginAddRemote == Begin("Add", Blank)
BeginEditRemote == modal = None /\ \E n \in listedAs : Begin("Edit", n)

With(w) ==
    /\ wiz' = w
    /\ UNCHANGED <<modal, over, opens, stops, stored, listedAs, updates>>

\* The backends, and for an edit the stored values; an error leaves it Busy.
ConfigLoaded ==
    /\ Busy /\ wiz.loading
    /\ \E p \in {"Busy", IF wiz.mode = "Add" THEN "PickType" ELSE "Form"} :
           With([wiz EXCEPT !.loading = FALSE, !.phase = p])
    /\ UNCHANGED <<calls, server>>

PickBackend ==
    /\ wiz # None /\ wiz.phase = "PickType"
    /\ With([wiz EXCEPT !.phase = "Form"])
    /\ UNCHANGED <<calls, server>>

\* The form has the name field, for an edit too.
TypeName ==
    /\ wiz # None /\ wiz.phase = "Form"
    /\ \E r \in Raw \ {wiz.name} : With([wiz EXCEPT !.name = r])
    /\ UNCHANGED <<calls, server>>

\* The name a step is for.
StepName == Trim[wiz.name]

\* run_config_step
RunStep(n) ==
    /\ calls' = calls \cup {[by |-> wiz.id, name |-> n, reply |-> None]}
    /\ With([wiz EXCEPT !.phase = "Busy"])
    /\ UNCHANGED server

\* validate_config; the bug looks the text up as it was typed.
MutNameIsValid == wiz.name # Blank /\ (wiz.mode = "Add" => wiz.name \notin wiz.names)
NameIsValid == StepName # Blank /\ (wiz.mode = "Add" => StepName \notin wiz.names)

SubmitConfig == wiz # None /\ wiz.phase = "Form" /\ NameIsValid /\ RunStep(StepName)
AnswerQuestion == wiz # None /\ wiz.phase = "Question" /\ RunStep(StepName)

\* rclone's side of a call: the webserver of an OAuth backend, and the outcome.
ServerStarts ==
    /\ server = None
    /\ \E c \in calls : c.reply = None /\ server' = c.by
    /\ UNCHANGED <<modal, over, wiz, opens, calls, stops, stored, listedAs, updates>>

StepServed ==
    /\ \E c \in calls, r \in {"question", "unexpected", "error", "saved"} :
           /\ c.reply = None
           /\ calls' = (calls \ {c}) \cup {[c EXCEPT !.reply = r]}
           /\ stored' = IF r = "error" THEN stored ELSE stored \cup {c.name}
           /\ server' = IF server = c.by THEN None ELSE server
    /\ UNCHANGED <<modal, over, wiz, opens, stops, listedAs, updates>>

StopServed ==
    /\ stops > 0 /\ stops' = stops - 1
    /\ calls' = {IF c.by = server /\ c.reply = None THEN [c EXCEPT !.reply = "error"] ELSE c : c \in calls}
    /\ server' = None
    /\ UNCHANGED <<modal, over, wiz, opens, stored, listedAs, updates>>

\* on_config_step, error_phase: a question once asked is what an error returns to.
StepSettles ==
    /\ wiz # None
    /\ \E c \in calls :
           /\ c.by = wiz.id /\ c.reply # None
           /\ \/ /\ c.reply = "saved"
                 /\ Put(None)
                 /\ UNCHANGED <<over, stored, listedAs, updates>>
              \/ /\ c.reply # "saved"
                 /\ calls' = calls \ {c}
                 /\ With([wiz EXCEPT
                        !.phase = CASE c.reply = "question" -> "Question"
                                    [] c.reply = "unexpected" -> "Form"
                                    [] c.reply = "error" -> IF wiz.asked THEN "Question" ELSE "Form",
                        !.asked = @ \/ c.reply = "question"])
                 /\ UNCHANGED server

\* load_remotes (module Remotes): the list is read again.
RemotesListed ==
    /\ listedAs' = stored /\ listedAs # stored
    /\ UNCHANGED <<modal, over, wizard, stored, updates>>

-----------------------------------------------------------------------------
(* Updates: a check may answer whenever, over whatever is open *)

CheckForUpdates ==
    /\ Len(checks) < MaxChecks
    /\ checks' = Append(checks, "manual")
    /\ UNCHANGED <<modal, over, wizard, stored, listedAs, skipped, installs>>

Drop(i) == [j \in 1 .. Len(checks) - 1 |-> IF j < i THEN checks[j] ELSE checks[j + 1]]

UpdateFound ==
    /\ \E i \in DOMAIN checks :
           /\ checks' = Drop(i)
           /\ IF checks[i] = "startup" /\ skipped THEN UNCHANGED <<modal, wizard>> ELSE Put("update")
    /\ UNCHANGED <<over, stored, listedAs, skipped, installs>>

NoUpdate ==
    /\ \E i \in DOMAIN checks : checks' = Drop(i)
    /\ UNCHANGED <<modal, over, wizard, stored, listedAs, skipped, installs>>

ChooseUpdate ==
    /\ modal = "update"
    /\ Put(None)
    /\ \/ installs < MaxChecks /\ installs' = installs + 1 /\ UNCHANGED skipped
       \/ skipped' = TRUE /\ UNCHANGED installs
       \/ UNCHANGED <<skipped, installs>>
    /\ UNCHANGED <<over, stored, listedAs, checks>>

InstallEnds ==
    /\ installs > 0 /\ installs' = installs - 1
    /\ UNCHANGED <<modal, over, wizard, stored, listedAs, checks, skipped>>

DlgNext ==
    \/ TogglePalette \/ AskConfirm \/ OpenCard \/ Resolve \/ Finish \/ DismissModal
    \/ Escape \/ Overlay
    \/ BeginAddRemote \/ BeginEditRemote \/ ConfigLoaded \/ PickBackend \/ TypeName
    \/ SubmitConfig \/ AnswerQuestion \/ ServerStarts \/ StepServed \/ StopServed
    \/ StepSettles \/ RemotesListed
    \/ CheckForUpdates \/ UpdateFound \/ NoUpdate \/ ChooseUpdate \/ InstallEnds

DlgSpec == DlgInit /\ [][DlgNext]_dlgVars

-----------------------------------------------------------------------------
(* Properties *)

DlgTypeOK ==
    /\ modal \in ModalKinds \cup {None} /\ wiz \in Wizards \cup {None}
    /\ over \subseteq Overlays
    /\ wiz # None <=> modal = "wizard"
    /\ stored \subseteq TrimmedNames \ {Blank} /\ listedAs \subseteq stored
    /\ opens \in 0 .. MaxWizards /\ stops \in 0 .. MaxChecks /\ installs \in 0 .. MaxChecks

\* Whatever dialog takes the slot and when, rclone serves no configuration call, and
\* keeps no OAuth webserver up, for a wizard that is gone or sits in its form; and
\* each call names the remote that was checked: trimmed, and for a new remote not
\* one the wizard knew to exist ("a remote that was never collision-checked").
StepsBelongToTheirWizard ==
    /\ DlgTypeOK
    /\ \A c \in calls :
           /\ Busy /\ c.by = wiz.id
           /\ c.name = StepName /\ c.name # Blank
           /\ wiz.mode = "Add" => c.name \notin wiz.names
    /\ server # None => \E c \in calls : c.by = server

\* Editing a remote changes that remote (the form lets the name be changed, and
\* config/update is then sent for another one).
EditKeepsItsRemote == \A c \in calls : wiz.mode = "Edit" => c.name = wiz.of

\* A dialog is closed by an answer to it, not by a check that happens to end.
UpdatePromptWaits == [][modal \notin {None, "palette"} => modal' # "update"]_dlgVars
=============================================================================
