---------------------------- MODULE WindowProofs ----------------------------
(***************************************************************************)
(* Proofs about the parts of one window: its dialogs, the palette, the     *)
(* preview, the history of a pane, what is stored and the file operations, *)
(* for every number of wizards, tasks, files, reads in flight and places.  *)
(* Last, the parts side by side, with the sidebar of PanelProofs.          *)
(***************************************************************************)
EXTENDS MCWindow, PanelProofs, SequenceTheorems, FiniteSetTheorems, WellFoundedInduction,
        TLAPS

-----------------------------------------------------------------------------
(* Dialogs.  A wizard has at most one call, while it is Busy and no longer      *)
(* loading; the call names what the wizard's field still says, because only    *)
(* its form lets the name be changed; and the webserver is up for that call.   *)

ServedIsAsked ==
    \A c \in calls :
        /\ c \in [by : Nat, name : TrimmedNames,
                  reply : {None, "question", "unexpected", "error", "saved"}]
        /\ Busy /\ c.by = wiz.id
        /\ c.name = StepName /\ NameIsValid

OneCall == \A c, d \in calls : c = d

LoadsAlone == wiz # None /\ wiz.loading => wiz.phase = "Busy" /\ calls = {}

QuestionsAreNamed == wiz # None /\ wiz.phase = "Question" => NameIsValid

ServerIsAsked == server # None => \E c \in calls : c.by = server /\ c.reply = None

DlgIInv ==
    /\ DlgTypeOK
    /\ ServedIsAsked
    /\ OneCall
    /\ LoadsAlone
    /\ QuestionsAreNamed
    /\ ServerIsAsked

\* A name of the form is a text, and so is what it is trimmed to.
LEMMA TrimTypes ==
    /\ \A r \in Raw : Trim[r] \in TrimmedNames
    /\ TrimmedNames \subseteq Raw
    /\ \A n \in TrimmedNames : Trim[n] = n
  BY DialogsAssumption DEF TrimmedNames

LEMMA DlgInitHolds == DlgInit => DlgIInv
  BY DialogsAssumption DEF DlgInit, DlgIInv, DlgTypeOK, ServedIsAsked, OneCall,
     LoadsAlone, QuestionsAreNamed, ServerIsAsked, ModalKinds

\* Whatever takes the slot, the calls of the wizard that was there are dropped.
LEMMA TakeDrops ==
    ASSUME DlgIInv, NEW k, NEW w, Take(k, w)
    PROVE  modal' = k /\ wiz' = w /\ calls' = {} /\ server' = None
  <1>1. calls' = {}
    BY DEF Take, CallsWithout, DlgIInv, ServedIsAsked, Busy
  <1>2. QED
    BY <1>1 DEF Take

\* The slot without a wizard.
LEMMA NoWizardHolds ==
    ASSUME DlgIInv,
           modal' \in (ModalKinds \cup {None}) \ {"wizard"}, wiz' = None, calls' = {},
           server' = None, over' \subseteq Overlays, opens' = opens,
           stops' \in 0 .. MaxChecks, installs' \in 0 .. MaxChecks,
           stored' = stored, listedAs' = listedAs
    PROVE  DlgIInv'
  BY DEF DlgIInv, DlgTypeOK, ServedIsAsked, OneCall, LoadsAlone, QuestionsAreNamed,
     ServerIsAsked

\* Put of a kind, and close_modal, with what else the window holds.
LEMMA PutHolds ==
    ASSUME DlgIInv, NEW k \in (ModalKinds \cup {None}) \ {"wizard"},
           Put(k) \/ CloseModal,
           over' \subseteq Overlays, stored' = stored, listedAs' = listedAs,
           installs' \in 0 .. MaxChecks
    PROVE  DlgIInv'
  <1>1. None # "wizard"
    BY DialogsAssumption DEF ModalKinds
  <1>2. CASE Put(k)
    <2>1. modal' = k /\ wiz' = None /\ calls' = {} /\ server' = None
      BY <1>2, TakeDrops DEF Put
    <2>2. opens' = opens /\ stops' = stops
      BY <1>2 DEF Put
    <2> QED
      BY <2>1, <2>2, NoWizardHolds DEF DlgIInv, DlgTypeOK
  <1>3. CASE CloseModal
    <2>1. modal' = None /\ wiz' = None /\ calls' = {} /\ server' = None
      BY <1>3, TakeDrops DEF CloseModal
    <2>2. opens' = opens /\ stops' \in 0 .. MaxChecks
      BY <1>3, DialogsAssumption DEF CloseModal, DlgIInv, DlgTypeOK
    <2> QED
      BY <1>1, <2>1, <2>2, NoWizardHolds
  <1> QED
    BY <1>2, <1>3

\* A step that leaves the wizard and the slot alone.
LEMMA ApartHolds ==
    ASSUME DlgIInv, UNCHANGED <<modal, wiz, opens, calls, server, stops>>,
           over' \subseteq Overlays, installs' \in 0 .. MaxChecks,
           stored' = stored, listedAs' \subseteq stored
    PROVE  DlgIInv'
  BY DEF DlgIInv, DlgTypeOK, ServedIsAsked, OneCall, LoadsAlone, QuestionsAreNamed,
     ServerIsAsked, Busy, StepName, NameIsValid

\* A wizard opens Busy and loading, without a call.
LEMMA BeginHolds ==
    ASSUME DlgIInv, NEW mode \in {"Add", "Edit"}, NEW n \in TrimmedNames, Begin(mode, n)
    PROVE  DlgIInv'
  <1> DEFINE w == NewWizard(mode, n)
  <1>1. w \in Wizards
    <2>1. opens + 1 \in Nat /\ listedAs \in SUBSET TrimmedNames
      BY DEF DlgIInv, DlgTypeOK
    <2> QED
      BY <2>1, TrimTypes DEF NewWizard, Wizards
  <1>2. modal' = "wizard" /\ wiz' = w /\ calls' = {} /\ server' = None
    BY TakeDrops DEF Begin
  <1>3. w # None /\ w.loading /\ w.phase = "Busy"
    BY <1>1, DialogsAssumption DEF NewWizard
  <1>4. DlgTypeOK'
    BY <1>1, <1>2, <1>3, DialogsAssumption DEF Begin, DlgIInv, DlgTypeOK, ModalKinds, updates
  <1> QED
    BY <1>2, <1>3, <1>4 DEF DlgIInv, ServedIsAsked, OneCall, LoadsAlone, QuestionsAreNamed,
       ServerIsAsked

\* What a step inside the wizard leaves alone.
LEMMA WithTypes ==
    ASSUME DlgIInv, NEW w \in Wizards, wiz # None, With(w)
    PROVE  wiz' = w /\ DlgTypeOK'
  BY DialogsAssumption DEF With, DlgIInv, DlgTypeOK, updates

\* A wizard that is not Busy has no call.
LEMMA IdleHasNoCall ==
    ASSUME DlgIInv, ~Busy
    PROVE  calls = {} /\ server = None
  BY DEF DlgIInv, ServedIsAsked, ServerIsAsked

LEMMA ConfigLoadedHolds == ASSUME DlgIInv, ConfigLoaded PROVE DlgIInv'
  <1>1. PICK p \in {"Busy", IF wiz.mode = "Add" THEN "PickType" ELSE "Form"} :
            With([wiz EXCEPT !.loading = FALSE, !.phase = p])
    BY DEF ConfigLoaded
  <1>2. wiz # None /\ wiz \in Wizards /\ calls' = {} /\ server' = None
    BY DEF ConfigLoaded, DlgIInv, DlgTypeOK, LoadsAlone, Busy, ServerIsAsked
  <1> DEFINE w == [wiz EXCEPT !.loading = FALSE, !.phase = p]
  <1>3. w \in Wizards /\ ~w.loading /\ w.phase # "Question"
    BY <1>2 DEF Wizards
  <1>4. wiz' = w /\ DlgTypeOK'
    BY <1>1, <1>2, <1>3, WithTypes
  <1> QED
    BY <1>2, <1>3, <1>4 DEF DlgIInv, ServedIsAsked, OneCall, LoadsAlone, QuestionsAreNamed,
       ServerIsAsked

LEMMA PickBackendHolds == ASSUME DlgIInv, PickBackend PROVE DlgIInv'
  <1>1. wiz # None /\ wiz \in Wizards /\ wiz.phase = "PickType" /\ ~wiz.loading
    BY DEF PickBackend, DlgIInv, DlgTypeOK, LoadsAlone
  <1>2. calls' = {} /\ server' = None
    BY <1>1, IdleHasNoCall DEF PickBackend, Busy
  <1> DEFINE w == [wiz EXCEPT !.phase = "Form"]
  <1>3. w \in Wizards /\ ~w.loading /\ w.phase # "Question"
    BY <1>1 DEF Wizards
  <1>4. wiz' = w /\ DlgTypeOK'
    BY <1>1, <1>3, WithTypes DEF PickBackend
  <1> QED
    BY <1>2, <1>3, <1>4 DEF DlgIInv, ServedIsAsked, OneCall, LoadsAlone, QuestionsAreNamed,
       ServerIsAsked

LEMMA TypeNameHolds == ASSUME DlgIInv, TypeName PROVE DlgIInv'
  <1>1. wiz # None /\ wiz \in Wizards /\ wiz.phase = "Form" /\ ~wiz.loading
    BY DEF TypeName, DlgIInv, DlgTypeOK, LoadsAlone
  <1>2. calls' = {} /\ server' = None
    BY <1>1, IdleHasNoCall DEF TypeName, Busy
  <1>3. PICK r \in Raw : With([wiz EXCEPT !.name = r])
    BY DEF TypeName
  <1> DEFINE w == [wiz EXCEPT !.name = r]
  <1>4. w \in Wizards /\ ~w.loading /\ w.phase # "Question"
    BY <1>1 DEF Wizards
  <1>5. wiz' = w /\ DlgTypeOK'
    BY <1>1, <1>3, <1>4, WithTypes
  <1> QED
    BY <1>2, <1>4, <1>5 DEF DlgIInv, ServedIsAsked, OneCall, LoadsAlone, QuestionsAreNamed,
       ServerIsAsked

\* A call is sent with a name that was checked, by a wizard that has none.
LEMMA RunStepHolds ==
    ASSUME DlgIInv, wiz # None, wiz.phase # "Busy", NameIsValid, RunStep(StepName)
    PROVE  DlgIInv'
  <1>1. wiz \in Wizards /\ ~wiz.loading
    BY DEF DlgIInv, DlgTypeOK, LoadsAlone
  <1> DEFINE c == [by |-> wiz.id, name |-> StepName, reply |-> None]
             w == [wiz EXCEPT !.phase = "Busy"]
  <1>2. calls' = {c} /\ server' = None
    BY IdleHasNoCall DEF RunStep, Busy
  <1>3. /\ w \in Wizards /\ ~w.loading /\ w.phase = "Busy" /\ w.id = wiz.id
        /\ w.name = wiz.name /\ w.mode = wiz.mode /\ w.names = wiz.names
    BY <1>1 DEF Wizards
  <1>4. wiz' = w /\ DlgTypeOK'
    BY <1>3, WithTypes DEF RunStep
  <1>5. StepName' = StepName /\ NameIsValid' /\ Busy'
    BY <1>3, <1>4, DialogsAssumption DEF StepName, NameIsValid, Busy
  <1>6. c \in [by : Nat, name : TrimmedNames,
               reply : {None, "question", "unexpected", "error", "saved"}]
    <2>1. StepName \in TrimmedNames /\ wiz.id \in Nat
      BY <1>1, TrimTypes DEF StepName, Wizards
    <2> QED
      BY <2>1
  <1>7. ServedIsAsked'
    BY <1>2, <1>3, <1>4, <1>5, <1>6 DEF ServedIsAsked
  <1> QED
    BY <1>2, <1>3, <1>4, <1>7 DEF DlgIInv, OneCall, LoadsAlone, QuestionsAreNamed, ServerIsAsked

LEMMA ServerStartsHolds == ASSUME DlgIInv, ServerStarts PROVE DlgIInv'
  <1>1. DlgTypeOK' /\ ServedIsAsked' /\ OneCall' /\ LoadsAlone' /\ QuestionsAreNamed'
    BY DEF ServerStarts, DlgIInv, DlgTypeOK, ServedIsAsked, OneCall, LoadsAlone,
       QuestionsAreNamed, updates, Busy, StepName, NameIsValid
  <1>2. ServerIsAsked'
    BY DEF ServerStarts, ServerIsAsked
  <1> QED
    BY <1>1, <1>2 DEF DlgIInv

LEMMA StepServedHolds == ASSUME DlgIInv, StepServed PROVE DlgIInv'
  <1>1. PICK c \in calls, r \in {"question", "unexpected", "error", "saved"} :
            /\ c.reply = None
            /\ calls' = (calls \ {c}) \cup {[c EXCEPT !.reply = r]}
            /\ stored' = IF r = "error" THEN stored ELSE stored \cup {c.name}
            /\ server' = IF server = c.by THEN None ELSE server
    BY DEF StepServed
  <1> DEFINE d == [c EXCEPT !.reply = r]
  <1>2. calls = {c} /\ calls' = {d}
    BY <1>1 DEF DlgIInv, OneCall
  <1>3. /\ c \in [by : Nat, name : TrimmedNames,
                  reply : {None, "question", "unexpected", "error", "saved"}]
        /\ Busy /\ c.by = wiz.id /\ c.name = StepName /\ NameIsValid
    BY DEF DlgIInv, ServedIsAsked
  <1>4. UNCHANGED <<modal, over, wiz, opens, stops, listedAs, installs>>
    BY DEF StepServed, updates
  <1>5. Busy' /\ StepName' = StepName /\ NameIsValid'
    BY <1>3, <1>4 DEF Busy, StepName, NameIsValid
  <1>6. ServedIsAsked'
    BY <1>2, <1>3, <1>4, <1>5 DEF ServedIsAsked
  <1>7. DlgTypeOK'
    BY <1>1, <1>3, <1>4 DEF DlgIInv, DlgTypeOK, NameIsValid
  <1>8. server' = None
    BY <1>1, <1>2 DEF DlgIInv, ServerIsAsked
  <1>9. LoadsAlone' /\ QuestionsAreNamed' /\ OneCall'
    BY <1>2, <1>4, <1>5 DEF DlgIInv, LoadsAlone, QuestionsAreNamed, OneCall
  <1> QED
    BY <1>6, <1>7, <1>8, <1>9 DEF DlgIInv, ServerIsAsked

LEMMA StopServedHolds == ASSUME DlgIInv, StopServed PROVE DlgIInv'
  <1> DEFINE Ended(c) == IF c.by = server /\ c.reply = None THEN [c EXCEPT !.reply = "error"] ELSE c
  <1>1. calls' = {Ended(c) : c \in calls} /\ server' = None
    BY DEF StopServed
  <1>2. UNCHANGED <<modal, over, wiz, opens, stored, listedAs, installs>>
    BY DEF StopServed, updates
  <1>3. DlgTypeOK'
    BY <1>2, DialogsAssumption DEF StopServed, DlgIInv, DlgTypeOK
  <1>4. ServedIsAsked'
    <2> SUFFICES ASSUME NEW c \in calls
                 PROVE  /\ Ended(c) \in [by : Nat, name : TrimmedNames,
                               reply : {None, "question", "unexpected", "error", "saved"}]
                        /\ Busy' /\ Ended(c).by = wiz'.id
                        /\ Ended(c).name = StepName' /\ NameIsValid'
      BY <1>1 DEF ServedIsAsked
    <2>1. /\ c \in [by : Nat, name : TrimmedNames,
                    reply : {None, "question", "unexpected", "error", "saved"}]
          /\ Busy /\ c.by = wiz.id /\ c.name = StepName /\ NameIsValid
      BY DEF DlgIInv, ServedIsAsked
    <2> QED
      BY <2>1, <1>2 DEF Busy, StepName, NameIsValid
  <1>5. OneCall' /\ LoadsAlone' /\ QuestionsAreNamed'
    BY <1>1, <1>2 DEF DlgIInv, OneCall, LoadsAlone, QuestionsAreNamed, StepName, NameIsValid
  <1> QED
    BY <1>1, <1>3, <1>4, <1>5 DEF DlgIInv, ServerIsAsked

\* The one call is settled: the wizard is done, asks, or is back in its form.
LEMMA StepSettlesHolds == ASSUME DlgIInv, StepSettles PROVE DlgIInv'
  <1>1. PICK c \in calls :
           /\ c.by = wiz.id /\ c.reply # None
           /\ \/ /\ c.reply = "saved"
                 /\ Put(None)
                 /\ UNCHANGED <<over, stored, listedAs, updates>>
              \/ /\ c.reply # "saved"
                 /\ calls' = calls \ {c}
                 /\ With([wiz EXCEPT
                        !.phase = CASE c.reply = "question" -> "Question"
                                    [] c.reply = "unexpected" -> "Form"
                                    [] c.reply = "error" -> IF wiz.asked THEN "Question" ELSE "Form",
                        !.asked = @ \/ c.reply = "question"])
                 /\ UNCHANGED server
    BY DEF StepSettles
  <1>2. CASE Put(None) /\ UNCHANGED <<over, stored, listedAs, updates>>
    <2>1. None \in (ModalKinds \cup {None}) \ {"wizard"}
      BY DialogsAssumption DEF ModalKinds
    <2> QED
      BY <1>2, <2>1, PutHolds DEF updates, DlgIInv, DlgTypeOK
  <1> DEFINE p == CASE c.reply = "question" -> "Question"
                    [] c.reply = "unexpected" -> "Form"
                    [] c.reply = "error" -> IF wiz.asked THEN "Question" ELSE "Form"
             w == [wiz EXCEPT !.phase = p, !.asked = @ \/ c.reply = "question"]
  <1>3. CASE c.reply # "saved" /\ calls' = calls \ {c} /\ With(w) /\ UNCHANGED server
    <2>1. /\ c.reply \in {None, "question", "unexpected", "error", "saved"}
          /\ wiz # None /\ wiz \in Wizards /\ NameIsValid /\ ~wiz.loading
      BY DEF DlgIInv, ServedIsAsked, Busy, DlgTypeOK, LoadsAlone
    <2>2. p \in {"Question", "Form"}
      BY <1>1, <1>3, <2>1
    <2> HIDE DEF p
    <2>3. /\ w \in Wizards /\ ~w.loading
          /\ w.name = wiz.name /\ w.mode = wiz.mode /\ w.names = wiz.names
      BY <2>1, <2>2 DEF Wizards
    <2>4. wiz' = w /\ DlgTypeOK'
      BY <1>3, <2>1, <2>3, WithTypes
    <2>5. calls' = {} /\ server' = None
      BY <1>1, <1>3 DEF DlgIInv, OneCall, ServerIsAsked
    <2>6. NameIsValid'
      BY <2>1, <2>3, <2>4 DEF NameIsValid, StepName
    <2> QED
      BY <2>3, <2>4, <2>5, <2>6 DEF DlgIInv, ServedIsAsked, OneCall, LoadsAlone,
         QuestionsAreNamed, ServerIsAsked
  <1> QED
    BY <1>1, <1>2, <1>3

LEMMA DlgStepHolds == DlgIInv /\ [DlgNext]_dlgVars => DlgIInv'
  <1> SUFFICES ASSUME DlgIInv, [DlgNext]_dlgVars PROVE DlgIInv'
    OBVIOUS
  <1>k. /\ {"palette", "confirm", "mount", "keys", "update", None}
              \subseteq (ModalKinds \cup {None}) \ {"wizard"}
        /\ over \subseteq Overlays /\ listedAs \subseteq stored /\ installs \in 0 .. MaxChecks
    BY DialogsAssumption DEF ModalKinds, DlgIInv, DlgTypeOK
  <1>1. CASE TogglePalette
    BY <1>1, <1>k, PutHolds DEF TogglePalette, updates
  <1>2. CASE AskConfirm
    BY <1>2, <1>k, PutHolds DEF AskConfirm, updates
  <1>3. CASE OpenCard
    BY <1>3, <1>k, PutHolds DEF OpenCard, updates
  <1>4. CASE Resolve
    BY <1>4, <1>k, PutHolds DEF Resolve, updates
  <1>5. CASE Finish
    BY <1>5, <1>k, PutHolds DEF Finish, updates
  <1>6. CASE DismissModal
    BY <1>6, <1>k, PutHolds DEF DismissModal, updates
  <1>7. CASE Escape
    BY <1>7, <1>k, PutHolds DEF Escape, updates
  <1>8. CASE Overlay
    BY <1>8, <1>k, ApartHolds DEF Overlay, updates, wizard
  <1>9. CASE BeginAddRemote
    BY <1>9, BeginHolds, DialogsAssumption DEF BeginAddRemote
  <1>10. CASE BeginEditRemote
    <2>1. listedAs \subseteq TrimmedNames
      BY DEF DlgIInv, DlgTypeOK
    <2> QED
      BY <1>10, <2>1, BeginHolds DEF BeginEditRemote
  <1>11. CASE ConfigLoaded
    BY <1>11, ConfigLoadedHolds
  <1>12. CASE PickBackend
    BY <1>12, PickBackendHolds
  <1>13. CASE TypeName
    BY <1>13, TypeNameHolds
  <1>14. CASE SubmitConfig
    BY <1>14, RunStepHolds DEF SubmitConfig
  <1>15. CASE AnswerQuestion
    BY <1>15, RunStepHolds DEF AnswerQuestion, DlgIInv, QuestionsAreNamed
  <1>16. CASE ServerStarts
    BY <1>16, ServerStartsHolds
  <1>17. CASE StepServed
    BY <1>17, StepServedHolds
  <1>18. CASE StopServed
    BY <1>18, StopServedHolds
  <1>19. CASE StepSettles
    BY <1>19, StepSettlesHolds
  <1>20. CASE RemotesListed
    BY <1>20, <1>k, ApartHolds DEF RemotesListed, updates, wizard
  <1>21. CASE CheckForUpdates
    BY <1>21, <1>k, ApartHolds DEF CheckForUpdates, wizard
  <1>22. CASE UpdateFound
    <2>1. CASE UNCHANGED <<modal, wizard>>
      BY <1>22, <2>1, <1>k, ApartHolds DEF UpdateFound, wizard
    <2>2. CASE Put("update")
      BY <1>22, <2>2, <1>k, PutHolds DEF UpdateFound
    <2> QED
      BY <1>22, <2>1, <2>2 DEF UpdateFound
  <1>23. CASE NoUpdate
    BY <1>23, <1>k, ApartHolds DEF NoUpdate, wizard
  <1>24. CASE ChooseUpdate
    <2>1. installs' \in 0 .. MaxChecks
      BY <1>24, <1>k, DialogsAssumption DEF ChooseUpdate
    <2> QED
      BY <1>24, <2>1, <1>k, PutHolds DEF ChooseUpdate
  <1>25. CASE InstallEnds
    <2>1. installs' \in 0 .. MaxChecks
      BY <1>25, <1>k, DialogsAssumption DEF InstallEnds
    <2> QED
      BY <1>25, <2>1, <1>k, ApartHolds DEF InstallEnds, wizard
  <1>26. CASE UNCHANGED dlgVars
    BY <1>26, <1>k, ApartHolds DEF dlgVars, updates, wizard
  <1> QED
    BY <1>1, <1>2, <1>3, <1>4, <1>5, <1>6, <1>7, <1>8, <1>9, <1>10, <1>11, <1>12, <1>13,
       <1>14, <1>15, <1>16, <1>17, <1>18, <1>19, <1>20, <1>21, <1>22, <1>23, <1>24, <1>25,
       <1>26 DEF DlgNext

\* Whatever dialogs replace one another, rclone serves no configuration call and keeps
\* no webserver up for a wizard that is gone or back in its form, and each call names
\* the remote that was checked (remotes/mod.rs, run_config_step; modal.rs).
THEOREM StepsAlwaysBelong == DlgSpec => []StepsBelongToTheirWizard
  <1>1. DlgIInv => StepsBelongToTheirWizard
    BY DEF DlgIInv, StepsBelongToTheirWizard, ServedIsAsked, NameIsValid, ServerIsAsked
  <1> QED
    BY <1>1, DlgInitHolds, DlgStepHolds, PTL DEF DlgSpec

-----------------------------------------------------------------------------
(* Preview.  The invariant is the property with the types of the cache: what    *)
(* is kept under a key is what a read of that key ended in.                    *)

Entry == [of : Subjects, body : {"error", "good"}]

KeysOnce(q) == \A i, j \in DOMAIN q : q[i].of = q[j].of => i = j

PreIInv ==
    /\ PreviewMatchesSubject
    /\ shown.body \in {"nothing", "info", "large", "loading", "error", "good"}
    /\ subject = None => shown.body = "nothing" /\ total = "idle"
    /\ kept \in Seq(Entry)

LEMMA LoadedIsEntry ==
    ASSUME NEW s \in Subjects
    PROVE  \A e \in Loaded(s) : e \in Entry /\ e.of = s /\ e.body \in {"error", "good"}
  BY DEF Loaded, Showing, Entry

\* Leaving one place out of a sequence without repetitions.
LEMMA RemoveAtKeeps ==
    ASSUME NEW S, NEW q \in Seq(S), NEW n \in 1 .. Len(q)
    PROVE  /\ RemoveAt(q, n) \in Seq(S)
           /\ Len(RemoveAt(q, n)) = Len(q) - 1
           /\ \A i \in 1 .. Len(q) - 1 :
                 RemoveAt(q, n)[i] = IF i < n THEN q[i] ELSE q[i + 1]
  <1> DEFINE a == SubSeq(q, 1, n - 1)
             b == SubSeq(q, n + 1, Len(q))
  <1>1. Len(q) \in Nat /\ n \in Nat /\ \A i \in 1 .. Len(q) : q[i] \in S
    BY LenProperties, ElementOfSeq
  <1>2. a \in Seq(S) /\ Len(a) = n - 1 /\ \A i \in 1 .. n - 1 : a[i] = q[i]
    <2>1. \A i \in 1 .. n - 1 : q[i] \in S
      BY <1>1
    <2>2. 1 \in Int /\ n - 1 \in Int
      BY <1>1
    <2>3. /\ a \in Seq(S)
          /\ Len(a) = IF 1 <= n - 1 THEN (n - 1) - 1 + 1 ELSE 0
          /\ \A i \in 1 .. (n - 1) - 1 + 1 : a[i] = q[1 + i - 1]
      BY <2>1, <2>2, SubSeqProperties
    <2> QED
      BY <2>3, <1>1
  <1>3. b \in Seq(S) /\ Len(b) = Len(q) - n /\ \A i \in 1 .. Len(q) - n : b[i] = q[n + i]
    <2>1. \A i \in n + 1 .. Len(q) : q[i] \in S
      BY <1>1
    <2>2. n + 1 \in Int /\ Len(q) \in Int
      BY <1>1
    <2>3. /\ b \in Seq(S)
          /\ Len(b) = IF n + 1 <= Len(q) THEN Len(q) - (n + 1) + 1 ELSE 0
          /\ \A i \in 1 .. Len(q) - (n + 1) + 1 : b[i] = q[(n + 1) + i - 1]
      BY <2>1, <2>2, SubSeqProperties
    <2> QED
      BY <2>3, <1>1
  <1> HIDE DEF a, b
  <1>4. RemoveAt(q, n) = a \o b
    BY DEF RemoveAt, a, b
  <1>5. /\ a \o b \in Seq(S)
        /\ Len(a \o b) = Len(a) + Len(b)
        /\ \A i \in 1 .. Len(a) + Len(b) : (a \o b)[i] = IF i <= Len(a) THEN a[i] ELSE b[i - Len(a)]
    BY <1>2, <1>3, ConcatProperties
  <1>6. Len(a) + Len(b) = Len(q) - 1
    BY <1>1, <1>2, <1>3
  <1>7. ASSUME NEW i \in 1 .. Len(q) - 1
        PROVE  (a \o b)[i] = IF i < n THEN q[i] ELSE q[i + 1]
    <2>1. CASE i < n
      BY <2>1, <1>1, <1>2, <1>5, <1>6
    <2>2. CASE ~(i < n)
      <3>1. i - Len(a) \in 1 .. Len(q) - n /\ n + (i - Len(a)) = i + 1 /\ ~(i <= Len(a))
        BY <2>2, <1>1, <1>2
      <3> QED
        BY <2>2, <3>1, <1>3, <1>5, <1>6
    <2> QED
      BY <2>1, <2>2
  <1> QED
    BY <1>4, <1>5, <1>6, <1>7

\* Where a key that is kept is kept.
LEMMA PlaceOfKey ==
    ASSUME NEW s \in Keys(kept)
    PROVE  PlaceOf(s) \in DOMAIN kept /\ kept[PlaceOf(s)].of = s
  BY DEF Keys, PlaceOf

\* A promoted entry comes last, what was kept under its key is gone.
LEMMA PromotedKeeps ==
    ASSUME PreIInv, NEW e \in Entry
    PROVE  /\ Promoted(e) \in Seq(Entry) /\ KeysOnce(Promoted(e))
           /\ Len(Promoted(e)) = IF e.of \in Keys(kept) THEN Len(kept) ELSE Len(kept) + 1
  <1> DEFINE q == IF e.of \in Keys(kept) THEN RemoveAt(kept, PlaceOf(e.of)) ELSE kept
  <1>0. kept \in Seq(Entry) /\ KeysOnce(kept) /\ DOMAIN kept = 1 .. Len(kept) /\ Len(kept) \in Nat
    BY LenProperties DEF PreIInv, PreviewMatchesSubject, KeysOnce
  <1>1. /\ q \in Seq(Entry)
        /\ Len(q) = IF e.of \in Keys(kept) THEN Len(kept) - 1 ELSE Len(kept)
        /\ \A i, j \in 1 .. Len(q) : q[i].of = q[j].of => i = j
        /\ \A i \in 1 .. Len(q) : q[i].of # e.of
    <2>1. CASE e.of \in Keys(kept)
      <3> DEFINE n == PlaceOf(e.of)
      <3>1. n \in 1 .. Len(kept) /\ kept[n].of = e.of
        BY <1>0, <2>1, PlaceOfKey
      <3> HIDE DEF n
      <3>2. q = RemoveAt(kept, n)
        BY <2>1, SMTT(30) DEF n
      <3>3. /\ q \in Seq(Entry) /\ Len(q) = Len(kept) - 1
            /\ \A i \in 1 .. Len(kept) - 1 : q[i] = IF i < n THEN kept[i] ELSE kept[i + 1]
        BY <1>0, <3>1, <3>2, RemoveAtKeeps
      <3> HIDE DEF q
      <3>4. ASSUME NEW i \in 1 .. Len(q) PROVE q[i].of # e.of
        <4>1. PICK k \in 1 .. Len(kept) : q[i] = kept[k] /\ k # n
          BY <1>0, <3>1, <3>3
        <4> QED
          BY <4>1, <1>0, <3>1 DEF KeysOnce
      <3>5. ASSUME NEW i \in 1 .. Len(q), NEW j \in 1 .. Len(q), q[i].of = q[j].of PROVE i = j
        <4> DEFINE old(m) == IF m < n THEN m ELSE m + 1
        <4>1. old(i) \in 1 .. Len(kept) /\ old(j) \in 1 .. Len(kept)
          BY <1>0, <3>1, <3>3
        <4>2. q[i] = kept[old(i)] /\ q[j] = kept[old(j)]
          BY <3>3
        <4>3. old(i) = old(j)
          BY <4>1, <4>2, <3>5, <1>0 DEF KeysOnce
        <4> QED
          BY <4>3, <1>0, <3>1, <3>3
      <3> QED
        BY <2>1, <3>3, <3>4, <3>5
    <2>2. CASE e.of \notin Keys(kept)
      <3>1. q = kept
        BY <2>2
      <3> QED
        BY <1>0, <2>2, <3>1 DEF KeysOnce, Keys
    <2> QED
      BY <2>1, <2>2
  <1> HIDE DEF q
  <1>2. Promoted(e) = Append(q, e)
    BY DEF Promoted, q
  <1>3. /\ Append(q, e) \in Seq(Entry) /\ Len(Append(q, e)) = Len(q) + 1
        /\ \A i \in 1 .. Len(q) : Append(q, e)[i] = q[i]
        /\ Append(q, e)[Len(q) + 1] = e
    BY <1>1, AppendProperties
  <1>4. Len(q) \in Nat /\ DOMAIN Append(q, e) = 1 .. Len(q) + 1
    BY <1>1, <1>3, LenProperties
  <1>5. KeysOnce(Append(q, e))
    <2> SUFFICES ASSUME NEW i \in 1 .. Len(q) + 1, NEW j \in 1 .. Len(q) + 1,
                        Append(q, e)[i].of = Append(q, e)[j].of
                 PROVE  i = j
      BY <1>4 DEF KeysOnce
    <2>1. i \in 1 .. Len(q) \/ i = Len(q) + 1
      BY <1>4
    <2>2. j \in 1 .. Len(q) \/ j = Len(q) + 1
      BY <1>4
    <2> QED
      BY <2>1, <2>2, <1>1, <1>3
  <1>6. Len(Append(q, e)) = IF e.of \in Keys(kept) THEN Len(kept) ELSE Len(kept) + 1
    <2>1. Len(Append(q, e)) = Len(q) + 1 /\ Len(kept) \in Nat
      BY <1>0, <1>3
    <2>2. Len(q) = IF e.of \in Keys(kept) THEN Len(kept) - 1 ELSE Len(kept)
      BY <1>1
    <2> QED
      BY <2>1, <2>2
  <1>7. Append(q, e) \in Seq(Entry)
    BY <1>3
  <1> QED
    BY <1>2, <1>5, <1>6, <1>7

\* The cache has room for what is put into it.
LEMMA CachePutKeeps ==
    ASSUME PreIInv, NEW e \in Entry
    PROVE  /\ CachePut(e) \in Seq(Entry) /\ KeysOnce(CachePut(e))
           /\ Len(CachePut(e)) <= CacheCap
  <1> DEFINE c == Promoted(e)
  <1>1. c \in Seq(Entry) /\ KeysOnce(c) /\ Len(c) <= Len(kept) + 1 /\ Len(c) # 0
    <2>1. Len(kept) \in Nat
      BY LenProperties DEF PreIInv
    <2>2. c # <<>>
      <3>1. e.of \in Keys(kept) => RemoveAt(kept, PlaceOf(e.of)) \in Seq(Entry)
        <4>1. kept \in Seq(Entry) /\ DOMAIN kept = 1 .. Len(kept)
          BY LenProperties DEF PreIInv
        <4> QED
          BY <4>1, PlaceOfKey, RemoveAtKeeps
      <3>2. kept \in Seq(Entry)
        BY DEF PreIInv
      <3> QED
        BY <3>1, <3>2, AppendProperties DEF Promoted
    <2>3. c \in Seq(Entry) /\ KeysOnce(c) /\ Len(c) <= Len(kept) + 1
      BY <2>1, PromotedKeeps
    <2> QED
      BY <2>2, <2>3, EmptySeq
  <1>2. Len(kept) <= CacheCap /\ CacheCap \in Nat /\ Len(kept) \in Nat /\ Len(c) \in Nat
    BY <1>1, PreviewAssumption, LenProperties DEF PreIInv, PreviewMatchesSubject
  <1> HIDE DEF c
  <1>3. CachePut(e) = IF Len(c) > CacheCap THEN Tail(c) ELSE c
    BY DEF CachePut, c
  <1>4. CASE Len(c) > CacheCap
    <2>1. c # <<>>
      BY <1>1, EmptySeq
    <2>2. /\ Tail(c) \in Seq(Entry) /\ Len(Tail(c)) = Len(c) - 1
          /\ \A i \in 1 .. Len(Tail(c)) : Tail(c)[i] = c[i + 1]
      BY <1>1, <2>1, HeadTailProperties
    <2>3. DOMAIN Tail(c) = 1 .. Len(c) - 1 /\ DOMAIN c = 1 .. Len(c)
      BY <1>1, <2>2, LenProperties
    <2>4. KeysOnce(Tail(c))
      <3> SUFFICES ASSUME NEW i \in 1 .. Len(c) - 1, NEW j \in 1 .. Len(c) - 1,
                          Tail(c)[i].of = Tail(c)[j].of
                   PROVE  i = j
        BY <2>3 DEF KeysOnce
      <3>1. c[i + 1].of = c[j + 1].of /\ i + 1 \in 1 .. Len(c) /\ j + 1 \in 1 .. Len(c)
        BY <1>2, <2>2
      <3> QED
        BY <1>1, <1>2, <2>3, <3>1 DEF KeysOnce
    <2> QED
      BY <1>1, <1>2, <1>3, <1>4, <2>2, <2>4
  <1>5. CASE ~(Len(c) > CacheCap)
    BY <1>1, <1>2, <1>3, <1>5
  <1> QED
    BY <1>4, <1>5

LEMMA PreInitHolds == PreInit => PreIInv
  <1> SUFFICES ASSUME PreInit PROVE PreIInv
    OBVIOUS
  <1>1. kept = <<>> /\ <<>> \in Seq(Entry) /\ Len(<<>>) = 0 /\ DOMAIN <<>> = {}
    BY EmptySeq DEF PreInit
  <1>2. shown = Nothing /\ Nothing.of = None /\ Nothing.body = "nothing"
    BY DEF PreInit, Nothing, Showing
  <1>3. PreTypeOK
    BY PreviewAssumption DEF PreInit, PreTypeOK
  <1>4. Len(kept) <= CacheCap /\ \A i, j \in DOMAIN kept : kept[i].of = kept[j].of => i = j
    BY <1>1, PreviewAssumption
  <1>5. /\ shown.of = subject /\ ~IsImage(shown) /\ shown.body = "nothing" /\ total = "idle"
        /\ watched = focused
    BY <1>2 DEF PreInit, IsImage
  <1> QED
    BY <1>1, <1>2, <1>3, <1>4, <1>5 DEF PreIInv, PreviewMatchesSubject

\* What the panel shows: the part of the invariant that refresh must restore.
Matches ==
    /\ shown.of = subject /\ subject \in Subjects \cup {None}
    /\ shown.body \in {"nothing", "info", "large", "loading", "error", "good"}
    /\ subject = None => shown.body = "nothing" /\ total = "idle"
    /\ IsImage(shown) => picture = shown
    /\ shown.body = "loading" => reads[subject] > 0
    /\ total = "loading" => totals[subject] > 0
    /\ total \in {"idle", "loading", "done"}
    /\ reads \in [Subjects -> 0 .. MaxReads]

CacheFits == kept \in Seq(Entry) /\ KeysOnce(kept) /\ Len(kept) <= CacheCap

DockFits ==
    /\ under \in [Panes -> Subjects \cup {None}]
    /\ focused \in Panes /\ watched \in Panes
    /\ panel \in {None, "Preview", "Tasks"}
    /\ panel = "Preview" => watched = focused

TotalsFit == totals \in [Subjects -> 0 .. MaxReads]

LEMMA PreParts == PreIInv <=> Matches /\ CacheFits /\ DockFits /\ TotalsFit
  BY DEF PreIInv, PreviewMatchesSubject, PreTypeOK, Matches, CacheFits, DockFits, TotalsFit, KeysOnce

\* refresh: nothing, the same subject, one the cache has, or one to be read.
LEMMA RefreshHolds ==
    ASSUME PreIInv, NEW s \in Subjects \cup {None}, Refresh(s), UNCHANGED totals
    PROVE  Matches' /\ CacheFits'
  <1>0. Matches /\ CacheFits /\ None \notin Subjects
    BY PreParts, PreviewAssumption
  <1>1. CASE s = None
    <2>1. subject' = None /\ shown' = Nothing /\ total' = "idle" /\ UNCHANGED <<picture, kept, reads>>
      BY <1>1 DEF Refresh
    <2> QED
      BY <1>0, <2>1 DEF Matches, CacheFits, Nothing, Showing, IsImage, KeysOnce
  <1>2. CASE s # None /\ s = subject
    <2>1. UNCHANGED <<subject, shown, total, picture, kept, reads>>
      BY <1>2 DEF Refresh, current
    <2> QED
      BY <1>0, <2>1 DEF Matches, CacheFits, IsImage, KeysOnce
  <1>3. CASE s # None /\ s # subject /\ s \in Keys(kept)
    <2> DEFINE e == CacheGet(s)
    <2>1. subject' = s /\ total' = "idle" /\ shown' = e /\ ShowState(e) /\ kept' = Promoted(e)
          /\ UNCHANGED reads
      BY <1>3 DEF Refresh
    <2>2. e \in Entry /\ e.of = s
      <3>1. PlaceOf(s) \in 1 .. Len(kept)
        BY <1>0, <1>3, PlaceOfKey, LenProperties DEF CacheFits
      <3>2. kept[PlaceOf(s)] \in Entry
        BY <1>0, <3>1, ElementOfSeq DEF CacheFits
      <3> QED
        BY <1>3, <3>2, PlaceOfKey DEF CacheGet
    <2> HIDE DEF e
    <2>3. e.body \in {"error", "good"} /\ s \in Subjects
      BY <2>2 DEF Entry
    <2>4. Matches'
      BY <1>0, <2>1, <2>2, <2>3 DEF Matches, ShowState, IsImage
    <2>5. CacheFits'
      BY <1>0, <1>3, <2>1, <2>2, PromotedKeeps DEF CacheFits, KeysOnce
    <2> QED
      BY <2>4, <2>5
  <1>4. CASE s # None /\ s # subject /\ s \notin Keys(kept)
    <2> DEFINE b == IF Kind[s] \in {"info", "large"} THEN Kind[s] ELSE "loading"
    <2>0. s \in Subjects /\ b \in {"info", "large", "loading"}
      BY <1>4, PreviewAssumption
    <2> HIDE DEF b
    <2>1. /\ subject' = s /\ total' = "idle" /\ shown' = Showing(s, b)
          /\ reads' = IF shown'.body = "loading" THEN [reads EXCEPT ![s] = @ + 1] ELSE reads
          /\ reads'[s] <= MaxReads /\ UNCHANGED <<picture, kept>>
      BY <1>4 DEF Refresh, b
    <2>2. shown'.of = s /\ shown'.body = b
      BY <2>1 DEF Showing
    <2>3. reads' \in [Subjects -> 0 .. MaxReads] /\ (shown'.body = "loading" => reads'[s] > 0)
      BY <1>0, <2>0, <2>1, PreviewAssumption DEF Matches
    <2> QED
      BY <1>0, <2>0, <2>1, <2>2, <2>3 DEF Matches, CacheFits, IsImage, KeysOnce
  <1> QED
    BY <1>1, <1>2, <1>3, <1>4

\* A step that leaves the panel's content, its cache and what is in flight alone.
LEMMA StillMatches ==
    ASSUME PreIInv, UNCHANGED <<current, picture, kept, flights>>
    PROVE  Matches' /\ CacheFits' /\ TotalsFit'
  BY PreParts DEF Matches, CacheFits, TotalsFit, current, flights, IsImage, KeysOnce

\* A read answers: it is shown if it is about the subject, and kept in any case.
LEMMA OnLoadedHolds == ASSUME PreIInv, NEW s \in Subjects, OnLoaded(s) PROVE PreIInv'
  <1>0. Matches /\ CacheFits /\ DockFits /\ TotalsFit
    BY PreParts
  <1>1. PICK e \in Loaded(s) :
           /\ IF IsCurrent(s) THEN shown' = e /\ ShowState(e) ELSE UNCHANGED <<shown, picture>>
           /\ kept' = CachePut(e)
    BY DEF OnLoaded
  <1>2. e \in Entry /\ e.of = s /\ e.body \in {"error", "good"}
    BY LoadedIsEntry
  <1>3. reads[s] > 0 /\ reads' = [reads EXCEPT ![s] = @ - 1]
        /\ UNCHANGED <<under, dock, watched, subject, total, totals>>
    BY DEF OnLoaded
  <1>4. reads' \in [Subjects -> 0 .. MaxReads]
    BY <1>0, <1>3, PreviewAssumption DEF Matches
  <1>5. ASSUME s = subject PROVE Matches'
    <2>1. shown' = e /\ picture' = (IF IsImage(e) THEN e ELSE picture)
      BY <1>1, <1>5 DEF IsCurrent, ShowState
    <2>2. subject # None
      BY <1>5, PreviewAssumption
    <2> QED
      BY <1>0, <1>2, <1>3, <1>4, <1>5, <2>1, <2>2 DEF Matches, IsImage
  <1>6. ASSUME s # subject PROVE Matches'
    <2>1. UNCHANGED <<shown, picture>>
      BY <1>1, <1>6 DEF IsCurrent
    <2>2. shown.body = "loading" => reads'[subject] > 0
      BY <1>0, <1>3, <1>6 DEF Matches
    <2> QED
      BY <1>0, <1>3, <1>4, <2>1, <2>2 DEF Matches, IsImage
  <1>7. CacheFits'
    BY <1>1, <1>2, CachePutKeeps DEF CacheFits, KeysOnce
  <1>8. DockFits' /\ TotalsFit'
    BY <1>0, <1>3 DEF DockFits, TotalsFit, dock
  <1>9. Matches'
    BY <1>5, <1>6
  <1> QED
    BY <1>7, <1>8, <1>9, PreParts DEF PreIInv, PreviewMatchesSubject, PreTypeOK, Matches,
       CacheFits, DockFits, TotalsFit, KeysOnce

LEMMA CalculateHolds == ASSUME PreIInv, CalculateDirSize PROVE PreIInv'
  <1>0. Matches /\ CacheFits /\ DockFits /\ TotalsFit
    BY PreParts
  <1>1. /\ subject \in Subjects /\ totals[subject] < MaxReads /\ total' = "loading"
        /\ totals' = [totals EXCEPT ![subject] = @ + 1]
        /\ UNCHANGED <<under, dock, watched, subject, shown, picture, kept, reads>>
    BY <1>0 DEF CalculateDirSize, Matches
  <1>2. TotalsFit' /\ totals'[subject] > 0
    BY <1>0, <1>1, PreviewAssumption DEF TotalsFit
  <1>3. Matches'
    BY <1>0, <1>1, <1>2, PreviewAssumption DEF Matches, IsImage
  <1>4. CacheFits' /\ DockFits'
    BY <1>0, <1>1 DEF CacheFits, DockFits, dock, KeysOnce
  <1> QED
    BY <1>2, <1>3, <1>4 DEF PreIInv, PreviewMatchesSubject, PreTypeOK, Matches,
       CacheFits, DockFits, TotalsFit, KeysOnce

LEMMA OnTotalHolds == ASSUME PreIInv, NEW s \in Subjects, OnTotal(s) PROVE PreIInv'
  <1>0. Matches /\ CacheFits /\ DockFits /\ TotalsFit
    BY PreParts
  <1>1. /\ totals[s] > 0 /\ totals' = [totals EXCEPT ![s] = @ - 1]
        /\ total' = IF s = subject THEN "done" ELSE total
        /\ UNCHANGED <<under, dock, watched, subject, shown, picture, kept, reads>>
    BY DEF OnTotal, IsCurrent
  <1>2. TotalsFit'
    BY <1>0, <1>1, PreviewAssumption DEF TotalsFit
  <1>3. total' = "loading" => totals'[subject] > 0
    BY <1>0, <1>1 DEF Matches, TotalsFit
  <1>4. Matches'
    BY <1>0, <1>1, <1>3, PreviewAssumption DEF Matches, IsImage
  <1>5. CacheFits' /\ DockFits'
    BY <1>0, <1>1 DEF CacheFits, DockFits, dock, KeysOnce
  <1> QED
    BY <1>2, <1>4, <1>5 DEF PreIInv, PreviewMatchesSubject, PreTypeOK, Matches,
       CacheFits, DockFits, TotalsFit, KeysOnce

\* The steps of the cursors, of the focus and of the panel.
LEMMA DockStepHolds ==
    ASSUME PreIInv, UNCHANGED totals, DockFits',
           \/ \E s \in Subjects \cup {None} : Refresh(s)
           \/ UNCHANGED <<current, picture, kept, flights>>
    PROVE  PreIInv'
  <1>1. Matches' /\ CacheFits'
    BY RefreshHolds, StillMatches
  <1>2. TotalsFit'
    BY PreParts DEF TotalsFit
  <1> QED
    BY <1>1, <1>2 DEF PreIInv, PreviewMatchesSubject, PreTypeOK, Matches,
       CacheFits, DockFits, TotalsFit, KeysOnce

LEMMA PreStepHolds == PreIInv /\ [PreNext]_preVars => PreIInv'
  <1> SUFFICES ASSUME PreIInv, [PreNext]_preVars PROVE PreIInv'
    OBVIOUS
  <1>0. DockFits /\ \A p \in Panes : under[p] \in Subjects \cup {None}
    BY PreParts DEF DockFits
  <1>1. ASSUME NEW p \in Panes, CursorMoves(p) PROVE PreIInv'
    <2>1. PICK s \in Subjects \cup {None} : under' = [under EXCEPT ![p] = s]
      BY <1>1 DEF CursorMoves
    <2>2. DockFits'
      BY <1>0, <1>1, <2>1 DEF CursorMoves, DockFits, dock
    <2>3. CASE p = watched
      <3>1. Refresh(under'[p]) /\ UNCHANGED totals /\ under'[p] = s
        BY <1>0, <1>1, <2>1, <2>3 DEF CursorMoves, DockFits
      <3>2. Refresh(s) /\ UNCHANGED totals
        BY <3>1
      <3> QED
        BY <2>2, <3>2, DockStepHolds
    <2>4. CASE p # watched
      BY <1>1, <2>2, <2>4, DockStepHolds DEF CursorMoves, flights
    <2> QED
      BY <2>3, <2>4
  <1>2. ASSUME NEW p \in Panes, FrameMovesCursor(p) PROVE PreIInv'
    <2>1. DockFits'
      BY <1>0, <1>2 DEF FrameMovesCursor, DockFits, dock
    <2> QED
      BY <1>2, <2>1, DockStepHolds DEF FrameMovesCursor, flights
  <1>3. ASSUME NEW p \in Panes, FocusTab(p) PROVE PreIInv'
    <2>1. DockFits'
      BY <1>0, <1>3 DEF FocusTab, Watch, DockFits
    <2> QED
      BY <1>0, <1>3, <2>1, DockStepHolds DEF FocusTab, Watch, flights
  <1>4. ASSUME NEW to \in {"Preview", "Tasks"}, ShowPanel(to) PROVE PreIInv'
    <2>1. DockFits'
      BY <1>0, <1>4 DEF ShowPanel, Watch, DockFits
    <2> QED
      BY <1>0, <1>4, <2>1, DockStepHolds DEF ShowPanel, Watch, flights, DockFits
  <1>5. CASE OpenPreview
    <2>1. DockFits'
      BY <1>0, <1>5 DEF OpenPreview, Watch, DockFits
    <2> QED
      BY <1>0, <1>5, <2>1, DockStepHolds DEF OpenPreview, Watch, DockFits
  <1>6. ASSUME NEW s \in Subjects, OnLoaded(s) \/ OnTotal(s) PROVE PreIInv'
    BY <1>6, OnLoadedHolds, OnTotalHolds
  <1>7. CASE CalculateDirSize
    BY <1>7, CalculateHolds
  <1>8. CASE UNCHANGED preVars
    <2>1. DockFits'
      BY <1>0, <1>8 DEF preVars, DockFits, dock
    <2> QED
      BY <1>8, <2>1, DockStepHolds DEF preVars, flights
  <1> QED
    BY <1>1, <1>2, <1>3, <1>4, <1>5, <1>6, <1>7, <1>8 DEF PreNext

\* However late and in whatever order reads and totals answer, the panel shows its own
\* subject, its spinners end, and the cache holds each key once, within its limit
\* (preview.rs, on_loaded and cache_put).
THEOREM PreviewAlwaysMatches == PreSpec => []PreviewMatchesSubject
  <1>1. PreIInv => PreviewMatchesSubject
    BY DEF PreIInv
  <1> QED
    BY <1>1, PreInitHolds, PreStepHolds, PTL DEF PreSpec

-----------------------------------------------------------------------------
(* Palette.  A row offered belongs to the stage that is open: starting a stage  *)
(* matches the rows again, and nothing else changes the stage.  So a row that  *)
(* is confirmed fits its stage even when the text has changed since it was     *)
(* matched; and a row completed from a listing is of the folder asked for,     *)
(* because the folder last matched is the one the query has.                   *)

RowKinds == {"Task", "Action", "Remote", "GotoRemote", "GotoPath", "UseFolder", "UseName",
             "PickRemote", "Entry"}
SomeHost == Hosts \cup DOMAIN Tasks \cup {None}
SomePath == {Top, None} \cup {k[2] : k \in Listed}
                \cup UNION {{e[1] : e \in Content[k]} : k \in Listed}
ChoiceRows == [row : RowKinds, remote : SomeHost, path : SomePath, dir : BOOLEAN,
            from : Listed \cup {None}]
Arguments == [name : BOOLEAN, remote : SomeHost, path : SomePath, dir : BOOLEAN,
              from : Listed \cup {None}]
QueryFits(q) ==
    /\ q.kind \in {"empty", "words", "at", "slash", "path"}
    /\ q.kind = "path" => <<q.remote, q.dir>> \in Listed

\* A value completed from a listing is of the remote that was listed.
FromItsRemote(a) == a.from # None => a.from[1] = a.remote

\* A row that may be confirmed in stage s.
RowFits(c, s) ==
    /\ c \in ChoiceRows /\ FromItsRemote(c)
    /\ c.row = "Remote" => c.remote \in Hosts
    /\ s = None => /\ c.row \in {"Task", "Action", "GotoRemote", "GotoPath"}
                   /\ c.row = "Task" => c.remote \in DOMAIN Tasks
    /\ s = "Name" => c.row = "UseName"
    /\ s = "Remote" => c.row = "PickRemote" /\ c.path = Top
    /\ s = "SourcePath" => c.row \in {"Remote", "Entry", "UseFolder"}
    /\ s = "DestDir" => c.row \in {"Remote", "Entry", "UseFolder"} /\ c.dir

\* A text that came from a row or from the keyboard.
ArgsFit(t, args) ==
    /\ args \in Seq(Arguments) /\ Len(args) <= Len(Tasks[t])
    /\ \A i \in 1 .. Len(args) : FitsKind(args[i], Tasks[t][i]) /\ FromItsRemote(args[i])

FlowFits ==
    /\ task \in DOMAIN Tasks \cup {None}
    /\ task # None => ArgsFit(task, collected) /\ Len(collected) < Len(Tasks[task])
    /\ task = None => collected = <<>>

ListingsFit ==
    /\ loadedKey # None => key = loadedKey
    /\ known \subseteq Listed /\ flying \subseteq Listed
    /\ QueryFits(query)

RanFits == ran # None =>
    ran.task \in DOMAIN Tasks /\ ArgsFit(ran.task, ran.args) /\ Len(ran.args) = Len(Tasks[ran.task])

PalIInv ==
    /\ FlowFits
    /\ \A c \in choices : RowFits(c, Stage)
    /\ ListingsFit
    /\ RanFits

LEMMA TaskTypes ==
    ASSUME NEW t \in DOMAIN Tasks
    PROVE  /\ Tasks[t] \in Seq(Kinds) /\ Len(Tasks[t]) \in Nat /\ Len(Tasks[t]) >= 1
           /\ \A i \in 1 .. Len(Tasks[t]) : Tasks[t][i] \in Kinds
  <1>1. Tasks[t] \in Seq(Kinds) /\ Tasks[t] # <<>>
    BY PaletteAssumption
  <1> QED
    BY <1>1, EmptySeq, LenProperties, ElementOfSeq

\* Every stage is the kind of an argument, or none.
LEMMA StageTypes ==
    ASSUME FlowFits
    PROVE  Stage \in Kinds \cup {None} /\ (Stage = None <=> task = None)
  <1>1. CASE task = None
    BY <1>1 DEF Stage
  <1>2. CASE task # None
    <2>1. Len(collected) \in Nat /\ task \in DOMAIN Tasks /\ Len(collected) < Len(Tasks[task])
      BY <1>2, LenProperties DEF FlowFits, ArgsFit
    <2>2. Len(collected) + 1 \in 1 .. Len(Tasks[task])
      BY <2>1, TaskTypes
    <2> QED
      BY <1>2, <2>1, <2>2, TaskTypes, PaletteAssumption DEF Stage
  <1> QED
    BY <1>1, <1>2

LEMMA ListedTypes ==
    ASSUME NEW k \in Listed
    PROVE  /\ k = <<k[1], k[2]>> /\ k[1] \in Hosts /\ k[1] \in SomeHost /\ k[2] \in SomePath
           /\ \A e \in Content[k] : e[1] \in SomePath /\ e[2] \in BOOLEAN
  <1>1. k = <<k[1], k[2]>> /\ \A e \in Content[k] : e[2] \in BOOLEAN
    BY PaletteAssumption
  <1>2. k[1] \in Hosts /\ k[2] \in SomePath
    BY DEF Hosts, SomePath
  <1>3. \A e \in Content[k] : e[1] \in SomePath
    BY DEF SomePath
  <1> QED
    BY <1>1, <1>2, <1>3 DEF SomeHost

LEMMA PlainRow ==
    ASSUME NEW kind \in RowKinds, NEW r \in SomeHost, NEW p \in SomePath, NEW d \in BOOLEAN
    PROVE  /\ Row(kind, r, p, d) \in ChoiceRows /\ FromItsRemote(Row(kind, r, p, d))
           /\ Row(kind, r, p, d).row = kind /\ Row(kind, r, p, d).remote = r
           /\ Row(kind, r, p, d).path = p /\ Row(kind, r, p, d).dir = d
  BY DEF Row, ChoiceRows, FromItsRemote

\* The rows that name no path.
LEMMA BareRow ==
    ASSUME NEW kind \in RowKinds, NEW r \in SomeHost
    PROVE  /\ Row(kind, r, None, FALSE) \in ChoiceRows
           /\ FromItsRemote(Row(kind, r, None, FALSE))
           /\ Row(kind, r, None, FALSE).row = kind /\ Row(kind, r, None, FALSE).remote = r
  BY DEF Row, ChoiceRows, FromItsRemote, SomePath

LEMMA NoneFits == None \in SomeHost /\ None \in SomePath /\ Top \in SomePath
  BY DEF SomeHost, SomePath

\* The rows of the remotes.
LEMMA RemoteRowsFit ==
    ASSUME NEW kind \in RowKinds, NEW c \in RemoteRows(kind)
    PROVE  /\ c \in ChoiceRows /\ c.row = kind /\ c.path = Top /\ c.dir /\ FromItsRemote(c)
           /\ c.remote \in Hosts
  <1>1. PICK r \in Hosts : c = Row(kind, r, Top, TRUE)
    BY DEF RemoteRows
  <1>2. Top \in SomePath /\ r \in SomeHost
    BY DEF SomePath, SomeHost
  <1> QED
    BY <1>1, <1>2 DEF Row, ChoiceRows, FromItsRemote

\* The rows completed from the listing of k.
LEMMA EntryRowsFit ==
    ASSUME ListingsFit, NEW kind \in RowKinds, NEW k \in Listed, NEW files \in BOOLEAN,
           NEW c \in EntryRows(k, k[1], files, kind)
    PROVE  c \in ChoiceRows /\ c.row = kind /\ FromItsRemote(c) /\ (~files => c.dir)
  <1>1. PICK e \in Content[k] : c = [Row(kind, k[1], e[1], e[2]) EXCEPT !.from = k] /\ (files \/ e[2])
    BY DEF EntryRows
  <1>2. e[1] \in SomePath /\ e[2] \in BOOLEAN /\ k[1] \in SomeHost
    BY ListedTypes
  <1>3. c = [row |-> kind, remote |-> k[1], path |-> e[1], dir |-> e[2], from |-> k]
    BY <1>1 DEF Row
  <1> QED
    BY <1>1, <1>2, <1>3 DEF ChoiceRows, FromItsRemote

\* ensure_listing asks for k, whatever was asked for before.
LEMMA EnsureAsks ==
    ASSUME ListingsFit, NEW k \in Listed, Ensure(k)
    PROVE  loadedKey' = k /\ key' = k /\ known' \subseteq Listed /\ flying' \subseteq Listed
           /\ known' = known
  BY PaletteAssumption DEF ListingsFit, Ensure, SameKey

LEMMA UnloadKeeps ==
    ASSUME ListingsFit, UNCHANGED <<loadedKey, key, known, flying>> \/ Unload
    PROVE  (loadedKey' # None => key' = loadedKey') /\ known' \subseteq Listed /\ flying' \subseteq Listed
  BY DEF ListingsFit, Unload

\* The rows matched for stage s fit s.
LEMMA CommandRowsFit ==
    ASSUME NEW c \in CommandRows
    PROVE  RowFits(c, None)
  <1>1. /\ "Task" \in RowKinds /\ "Action" \in RowKinds /\ DOMAIN Tasks \subseteq SomeHost
        /\ "Name" # None /\ "Remote" # None /\ "SourcePath" # None /\ "DestDir" # None
    BY PaletteAssumption DEF SomeHost, RowKinds, Kinds
  <1>2. /\ c \in ChoiceRows /\ FromItsRemote(c) /\ c.row \in {"Task", "Action"}
        /\ c.row = "Task" => c.remote \in DOMAIN Tasks
    <2>1. CASE c = Row("Action", None, None, FALSE)
      <3>1. LET d == Row("Action", None, None, FALSE)
            IN  d \in ChoiceRows /\ FromItsRemote(d) /\ d.row = "Action"
        BY <1>1, NoneFits, BareRow
      <3> QED
        BY <2>1, <3>1
    <2>2. CASE \E t \in DOMAIN Tasks : c = Row("Task", t, None, FALSE)
      <3>1. PICK t \in DOMAIN Tasks : c = Row("Task", t, None, FALSE)
        BY <2>2
      <3>2. t \in SomeHost
        BY <1>1
      <3>3. LET d == Row("Task", t, None, FALSE)
            IN  d \in ChoiceRows /\ FromItsRemote(d) /\ d.row = "Task" /\ d.remote = t
        BY <1>1, <3>2, BareRow
      <3> QED
        BY <3>1, <3>3
    <2> QED
      BY <2>1, <2>2 DEF CommandRows
  <1> QED
    BY <1>1, <1>2 DEF RowFits

LEMMA MatchFits ==
    ASSUME ListingsFit, NEW s \in Kinds \cup {None}, NEW q, QueryFits(q),
           NEW h \in Hosts \cup {None}, Match(s, q, h)
    PROVE  /\ \A c \in choices' : RowFits(c, s)
           /\ (loadedKey' # None => key' = loadedKey')
           /\ known' \subseteq Listed /\ flying' \subseteq Listed
  <1>k. /\ "Name" # None /\ "Remote" # None /\ "SourcePath" # None /\ "DestDir" # None
        /\ s \in {"Name", "Remote", "SourcePath", "DestDir", None}
    BY PaletteAssumption DEF Kinds
  <1>1. CASE s = "Name"
    <2>1. choices' \subseteq {Row("UseName", None, None, FALSE)} /\ Unload
      BY <1>1, <1>k DEF Match
    <2>2. \A c \in choices' : c = Row("UseName", None, None, FALSE)
      BY <2>1
    <2>3. \A c \in choices' : c.row = "UseName" /\ c \in ChoiceRows /\ FromItsRemote(c)
      <3>1. "UseName" \in RowKinds /\ FALSE \in BOOLEAN
        BY DEF RowKinds
      <3>2. LET c == Row("UseName", None, None, FALSE)
            IN  c.row = "UseName" /\ c \in ChoiceRows /\ FromItsRemote(c)
        BY <3>1, NoneFits, PlainRow
      <3> QED
        BY <2>2, <3>2
    <2> QED
      BY <1>1, <1>k, <2>1, <2>3, UnloadKeeps DEF RowFits
  <1>2. CASE s = "Remote"
    <2>1. choices' = RemoteRows("PickRemote") /\ Unload
      BY <1>2, <1>k DEF Match
    <2>2. \A c \in choices' : c \in ChoiceRows /\ c.row = "PickRemote" /\ c.path = Top /\ FromItsRemote(c)
      BY <2>1, RemoteRowsFit DEF RowKinds
    <2> QED
      BY <1>2, <1>k, <2>1, <2>2, UnloadKeeps DEF RowFits
  <1>3. CASE s \in {"SourcePath", "DestDir"} /\ q.kind # "path"
    <2>1. choices' = RemoteRows("Remote") /\ Unload
      BY <1>3, <1>k DEF Match
    <2>2. \A c \in choices' : /\ c \in ChoiceRows /\ c.row = "Remote" /\ c.dir /\ FromItsRemote(c)
                              /\ c.remote \in Hosts
      BY <2>1, RemoteRowsFit DEF RowKinds
    <2> QED
      BY <1>3, <1>k, <2>1, <2>2, UnloadKeeps DEF RowFits
  <1>4. CASE s \in {"SourcePath", "DestDir"} /\ q.kind = "path"
    <2> DEFINE k == <<q.remote, q.dir>>
               files == (s = "SourcePath")
    <2>0. k \in Listed /\ k[1] = q.remote /\ k[2] = q.dir
      BY <1>4 DEF QueryFits
    <2>1. /\ Ensure(k)
          /\ choices' = {Row("UseFolder", q.remote, q.dir, TRUE)}
                            \cup EntryRows(key', q.remote, files, "Entry")
      BY <1>4, <1>k DEF Match
    <2>2. /\ loadedKey' = k /\ key' = k /\ known' \subseteq Listed /\ flying' \subseteq Listed
      BY <2>0, <2>1, EnsureAsks
    <2>3. Row("UseFolder", q.remote, q.dir, TRUE) \in ChoiceRows
      BY <2>0, ListedTypes DEF Row, ChoiceRows, RowKinds
    <2>4. ASSUME NEW c \in choices'
          PROVE  /\ c \in ChoiceRows /\ c.row \in {"Entry", "UseFolder"} /\ FromItsRemote(c)
                 /\ s = "DestDir" => c.dir
      <3>1. CASE c = Row("UseFolder", q.remote, q.dir, TRUE)
        BY <3>1, <2>3 DEF Row, FromItsRemote
      <3>2. CASE c \in EntryRows(k, k[1], files, "Entry")
        <4>0. "Entry" \in RowKinds
          BY DEF RowKinds
        <4>1. c \in ChoiceRows /\ c.row = "Entry" /\ FromItsRemote(c) /\ (~files => c.dir)
          BY <2>0, <3>2, <4>0, EntryRowsFit
        <4> QED
          BY <4>1
      <3> QED
        BY <2>0, <2>1, <2>2, <3>1, <3>2
    <2> QED
      BY <1>4, <1>k, <2>2, <2>4 DEF RowFits
  <1>5. CASE s = None /\ q.kind = "at"
    <2>1. choices' = RemoteRows("GotoRemote") /\ Unload
      BY <1>5, <1>k DEF Match
    <2>2. \A c \in choices' : c \in ChoiceRows /\ c.row = "GotoRemote" /\ FromItsRemote(c)
      BY <2>1, RemoteRowsFit DEF RowKinds
    <2> QED
      BY <1>5, <1>k, <2>1, <2>2, UnloadKeeps DEF RowFits
  <1>6. CASE s = None /\ q.kind = "slash"
    <2>1. IF h = None \/ <<h, q.dir>> \notin Listed
          THEN choices' = {} /\ UNCHANGED <<loadedKey, key, known, flying>>
          ELSE Ensure(<<h, q.dir>>) /\ choices' = EntryRows(key', h, FALSE, "GotoPath")
      BY <1>6, <1>k DEF Match
    <2>2. CASE h = None \/ <<h, q.dir>> \notin Listed
      BY <2>1, <2>2, UnloadKeeps
    <2>3. CASE ~(h = None \/ <<h, q.dir>> \notin Listed)
      <3> DEFINE k == <<h, q.dir>>
      <3>1. k \in Listed /\ k[1] = h
        BY <2>3
      <3>2. /\ loadedKey' = k /\ key' = k /\ known' \subseteq Listed /\ flying' \subseteq Listed
        BY <2>1, <2>3, <3>1, EnsureAsks
      <3>3. choices' = EntryRows(k, k[1], FALSE, "GotoPath")
        BY <2>1, <2>3, <3>1, <3>2
      <3> HIDE DEF k
      <3>4. ASSUME NEW c \in choices' PROVE c \in ChoiceRows /\ c.row = "GotoPath" /\ FromItsRemote(c)
        <4>1. c \in EntryRows(k, k[1], FALSE, "GotoPath") /\ "GotoPath" \in RowKinds
          BY <3>3 DEF RowKinds
        <4> QED
          BY <3>1, <4>1, EntryRowsFit
      <3> QED
        BY <1>6, <1>k, <3>2, <3>4 DEF RowFits
    <2> QED
      BY <2>2, <2>3
  <1>7. CASE s = None /\ q.kind \in {"empty", "words", "path"}
    <2>1. choices' = CommandRows /\ UNCHANGED <<loadedKey, key, known, flying>>
      BY <1>7, <1>k DEF Match
    <2> QED
      BY <1>7, <2>1, CommandRowsFit, UnloadKeeps
  <1> QED
    BY <1>k, <1>1, <1>2, <1>3, <1>4, <1>5, <1>6, <1>7 DEF QueryFits

\* A stage starts with an empty text and its own rows.
LEMMA StartStageFits ==
    ASSUME ListingsFit, NEW s \in Kinds \cup {None}, StartStage(s)
    PROVE  (\A c \in choices' : RowFits(c, s)) /\ ListingsFit'
  <1>1. QueryFits(Empty) /\ query' = Empty
    BY DEF StartStage, Empty, Text, QueryFits
  <1>2. CASE s = None
    <2>1. choices' = CommandRows /\ Unload
      BY <1>2 DEF StartStage
    <2> QED
      BY <1>1, <1>2, <2>1, CommandRowsFit, UnloadKeeps DEF ListingsFit
  <1>3. CASE s # None
    <2>1. Match(s, Empty, None)
      BY <1>3 DEF StartStage
    <2> QED
      BY <1>1, <2>1, MatchFits DEF ListingsFit
  <1> QED
    BY <1>2, <1>3

\* With nothing open the types hold and no row is offered.
LEMMA ClosedFits ==
    ASSUME Closed
    PROVE  FlowFits' /\ choices' = {} /\ ListingsFit'
  BY DEF Closed, FlowFits, ListingsFit, QueryFits, Empty, Text

LEMMA PalInitHolds == PalInit => PalIInv
  BY DEF PalInit, PalIInv, FlowFits, ListingsFit, RanFits, QueryFits, Empty, Text

\* A step that leaves the flow and the rows alone.
LEMMA RowsStay ==
    ASSUME PalIInv, UNCHANGED <<task, collected, choices, ran>>, ListingsFit'
    PROVE  PalIInv'
  <1>1. Stage' = Stage
    BY DEF Stage
  <1> QED
    BY <1>1 DEF PalIInv, FlowFits, RanFits

LEMMA OpenPaletteHolds == ASSUME PalIInv, OpenPalette PROVE PalIInv'
  <1>1. task' = None /\ collected' = <<>> /\ ran' = ran
        /\ choices' = {Row("Task", t, None, FALSE) : t \in DOMAIN Tasks}
    BY DEF OpenPalette
  <1>2. Stage' = None
    BY <1>1 DEF Stage
  <1>3. ASSUME NEW c \in choices' PROVE RowFits(c, None)
    <2>1. PICK t \in DOMAIN Tasks : c = Row("Task", t, None, FALSE)
      BY <1>1
    <2>2. "Task" \in RowKinds /\ t \in SomeHost
      BY DEF SomeHost, RowKinds
    <2>3. c \in ChoiceRows /\ FromItsRemote(c) /\ c.row = "Task" /\ c.remote = t
      BY <2>1, <2>2, BareRow
    <2> QED
      BY <2>3, PaletteAssumption DEF RowFits, Kinds
  <1>4. ListingsFit'
    BY DEF OpenPalette, ListingsFit, QueryFits, Empty, Text
  <1> QED
    BY <1>1, <1>2, <1>3, <1>4 DEF PalIInv, FlowFits, RanFits

LEMMA TypeHolds == ASSUME PalIInv, Type PROVE PalIInv'
  <1>1. query' \in QueryTexts
    BY DEF Type
  <1>2. QueryFits(query')
    <2>1. \A k \in Listed : <<k[1], k[2]>> \in Listed
      BY PaletteAssumption
    <2> QED
      BY <1>1, <2>1 DEF QueryTexts, QueryFits, Empty, Text
  <1>3. ListingsFit'
    BY <1>2 DEF Type, PalIInv, ListingsFit
  <1> QED
    BY <1>3, RowsStay DEF Type

LEMMA DrawPaletteHolds == ASSUME PalIInv, DrawPalette PROVE PalIInv'
  <1>1. PICK h \in Hosts \cup {None} : Match(Stage, query, h)
    BY DEF DrawPalette
  <1>2. Stage \in Kinds \cup {None} /\ ListingsFit /\ QueryFits(query)
    BY StageTypes DEF PalIInv, ListingsFit
  <1>3. UNCHANGED <<task, collected, query, ran>> /\ Stage' = Stage
    BY DEF DrawPalette, Stage
  <1>4. (\A c \in choices' : RowFits(c, Stage)) /\ ListingsFit'
    BY <1>1, <1>2, <1>3, MatchFits DEF ListingsFit
  <1> QED
    BY <1>3, <1>4 DEF PalIInv, FlowFits, RanFits

LEMMA ListingComesHolds == ASSUME PalIInv, ListingComes PROVE PalIInv'
  <1>1. ListingsFit'
    BY DEF ListingComes, PalIInv, ListingsFit
  <1> QED
    BY <1>1, RowsStay DEF ListingComes

\* The value of a row that fits its stage fits the kind of the argument.
LEMMA ArgumentFits ==
    ASSUME NEW s \in Kinds, NEW c, RowFits(c, s),
           c.row \in {"UseFolder", "UseName", "PickRemote", "Entry"}
    PROVE  /\ Argument(c) \in Arguments
           /\ FitsKind(Argument(c), s) /\ FromItsRemote(Argument(c))
  <1>1. c \in ChoiceRows /\ FromItsRemote(c)
    BY DEF RowFits
  <1>2. Argument(c) \in Arguments /\ FromItsRemote(Argument(c))
    BY <1>1 DEF Argument, Arguments, ChoiceRows, FromItsRemote
  <1>3. /\ Argument(c).name = (c.row = "UseName") /\ Argument(c).path = c.path
        /\ Argument(c).dir = c.dir
    BY DEF Argument
  <1>4. CASE s = "Name"
    BY <1>2, <1>3, <1>4 DEF RowFits, FitsKind
  <1>5. CASE s = "Remote"
    BY <1>2, <1>3, <1>5 DEF RowFits, FitsKind
  <1>6. CASE s = "SourcePath"
    BY <1>2, <1>3, <1>6 DEF RowFits, FitsKind
  <1>7. CASE s = "DestDir"
    BY <1>2, <1>3, <1>7 DEF RowFits, FitsKind
  <1> QED
    BY <1>2, <1>4, <1>5, <1>6, <1>7 DEF Kinds

\* One argument more.
LEMMA ArgsGrow ==
    ASSUME NEW t \in DOMAIN Tasks, NEW args, ArgsFit(t, args), Len(args) < Len(Tasks[t]),
           NEW a \in Arguments, FitsKind(a, Tasks[t][Len(args) + 1]), FromItsRemote(a)
    PROVE  ArgsFit(t, Append(args, a)) /\ Len(Append(args, a)) = Len(args) + 1
  <1>1. args \in Seq(Arguments) /\ Len(args) \in Nat /\ Len(Tasks[t]) \in Nat
    BY LenProperties, TaskTypes DEF ArgsFit
  <1>2. /\ Append(args, a) \in Seq(Arguments) /\ Len(Append(args, a)) = Len(args) + 1
        /\ \A i \in 1 .. Len(args) : Append(args, a)[i] = args[i]
        /\ Append(args, a)[Len(args) + 1] = a
    BY <1>1, AppendProperties
  <1>3. ASSUME NEW i \in 1 .. Len(args) + 1
        PROVE  FitsKind(Append(args, a)[i], Tasks[t][i]) /\ FromItsRemote(Append(args, a)[i])
    <2>1. CASE i \in 1 .. Len(args)
      BY <1>2, <2>1 DEF ArgsFit
    <2>2. CASE i = Len(args) + 1
      BY <1>2, <2>2
    <2> QED
      BY <1>1, <2>1, <2>2
  <1> QED
    BY <1>1, <1>2, <1>3 DEF ArgsFit

\* The last argument runs the task; any other starts the next stage.
LEMMA PushArgHolds ==
    ASSUME PalIInv, NEW c \in choices, task # None, PushArg(c),
           c.row \in {"UseFolder", "UseName", "PickRemote", "Entry"}
    PROVE  PalIInv'
  <1> DEFINE args == Append(collected, Argument(c))
  <1>1. /\ task \in DOMAIN Tasks /\ ArgsFit(task, collected) /\ Len(collected) < Len(Tasks[task])
        /\ Stage \in Kinds /\ Stage = Tasks[task][Len(collected) + 1] /\ RowFits(c, Stage)
        /\ ListingsFit /\ RanFits
    BY StageTypes DEF PalIInv, FlowFits, Stage
  <1>2. /\ Argument(c) \in Arguments
        /\ FitsKind(Argument(c), Stage) /\ FromItsRemote(Argument(c))
    BY <1>1, ArgumentFits
  <1>3. ArgsFit(task, args) /\ Len(args) = Len(collected) + 1
    BY <1>1, <1>2, ArgsGrow
  <1>4. Len(args) \in Nat /\ Len(Tasks[task]) \in Nat /\ Len(args) <= Len(Tasks[task])
    BY <1>1, <1>3, LenProperties, TaskTypes DEF ArgsFit
  <1> HIDE DEF args
  <1>5. CASE Len(args) < Len(Tasks[task])
    <2> DEFINE s == Tasks[task][Len(args) + 1]
    <2>1. /\ collected' = args /\ task' = task /\ ran' = ran /\ StartStage(s)
      BY <1>5 DEF PushArg, args
    <2>2. s \in Kinds
      <3>1. Len(args) + 1 \in 1 .. Len(Tasks[task])
        BY <1>4, <1>5
      <3> QED
        BY <1>1, <3>1, TaskTypes
    <2>3. Stage' = s
      BY <1>1, <2>1, PaletteAssumption DEF Stage
    <2>4. (\A d \in choices' : RowFits(d, s)) /\ ListingsFit'
      BY <1>1, <2>1, <2>2, StartStageFits
    <2>5. FlowFits' /\ RanFits'
      BY <1>1, <1>3, <1>5, <2>1 DEF FlowFits, RanFits
    <2> QED
      BY <2>3, <2>4, <2>5 DEF PalIInv
  <1>6. CASE ~(Len(args) < Len(Tasks[task]))
    <2>1. Closed /\ ran' = [task |-> task, args |-> args]
      BY <1>6 DEF PushArg, args
    <2>2. FlowFits' /\ choices' = {} /\ ListingsFit'
      BY <2>1, ClosedFits
    <2>3. RanFits'
      BY <1>1, <1>3, <1>4, <1>6, <2>1 DEF RanFits
    <2> QED
      BY <2>2, <2>3 DEF PalIInv
  <1> QED
    BY <1>5, <1>6

LEMMA ConfirmRowHolds == ASSUME PalIInv, ConfirmRow PROVE PalIInv'
  <1>0. ListingsFit /\ RanFits /\ FlowFits
    BY DEF PalIInv
  <1>1. PICK c \in choices :
           \/ /\ c.row = "Task"
              /\ task' = c.remote /\ collected' = <<>> /\ up' = up
              /\ StartStage(Tasks[c.remote][1])
              /\ UNCHANGED ran
           \/ c.row = "Remote" /\ Descend(c.remote, Top)
           \/ c.row = "Entry" /\ c.dir /\ <<c.remote, c.path>> \in Listed /\ Descend(c.remote, c.path)
           \/ /\ c.row \in {"UseFolder", "UseName", "PickRemote"} \/ (c.row = "Entry" /\ ~c.dir)
              /\ task # None /\ PushArg(c)
           \/ c.row \in {"Action", "GotoRemote", "GotoPath"} /\ Closed /\ UNCHANGED ran
    BY DEF ConfirmRow
  <1>2. RowFits(c, Stage) /\ Stage \in Kinds \cup {None}
    BY StageTypes DEF PalIInv
  <1>3. CASE /\ c.row = "Task"
             /\ task' = c.remote /\ collected' = <<>> /\ StartStage(Tasks[c.remote][1])
             /\ UNCHANGED ran
    <2>1. c.remote \in DOMAIN Tasks
      BY <1>2, <1>3 DEF RowFits, Kinds
    <2> DEFINE t == c.remote
               s == Tasks[t][1]
    <2>2. s \in Kinds /\ Len(Tasks[t]) \in Nat /\ Len(Tasks[t]) >= 1
      BY <2>1, TaskTypes
    <2>3. (\A d \in choices' : RowFits(d, s)) /\ ListingsFit'
      BY <1>0, <1>3, <2>2, StartStageFits
    <2>4. <<>> \in Seq(Arguments) /\ Len(<<>>) = 0
      BY EmptySeq
    <2>5. FlowFits'
      BY <1>3, <2>1, <2>2, <2>4 DEF FlowFits, ArgsFit
    <2>6. Stage' = s
      BY <1>3, <2>1, <2>4, PaletteAssumption DEF Stage
    <2> QED
      BY <1>0, <1>3, <2>3, <2>5, <2>6 DEF PalIInv, RanFits
  <1>4. ASSUME NEW r, NEW d, <<r, d>> \in Listed, Descend(r, d) PROVE PalIInv'
    <2>1. QueryFits(query')
      BY <1>4 DEF Descend, Text, QueryFits
    <2>2. ListingsFit'
      BY <1>0, <1>4, <2>1 DEF Descend, ListingsFit
    <2> QED
      BY <1>4, <2>2, RowsStay DEF Descend
  <1>5. CASE c.row = "Remote" /\ Descend(c.remote, Top)
    <2>1. c.remote \in Hosts
      BY <1>2, <1>5 DEF RowFits
    <2> QED
      BY <1>4, <1>5, <2>1, PaletteAssumption
  <1>6. CASE c.row = "Entry" /\ c.dir /\ <<c.remote, c.path>> \in Listed /\ Descend(c.remote, c.path)
    BY <1>4, <1>6
  <1>7. CASE /\ c.row \in {"UseFolder", "UseName", "PickRemote"} \/ (c.row = "Entry" /\ ~c.dir)
             /\ task # None /\ PushArg(c)
    BY <1>7, PushArgHolds
  <1>8. CASE Closed /\ UNCHANGED ran
    BY <1>0, <1>8, ClosedFits DEF PalIInv, RanFits
  <1> QED
    BY <1>1, <1>3, <1>4, <1>5, <1>6, <1>7, <1>8

\* A stage taken back starts again, without its argument.
LEMMA StepBackHolds == ASSUME PalIInv, StepBack PROVE PalIInv'
  <1>0. /\ ListingsFit /\ RanFits /\ ran' = ran /\ task \in DOMAIN Tasks
        /\ ArgsFit(task, collected) /\ Len(collected) < Len(Tasks[task])
    BY DEF PalIInv, StepBack, FlowFits
  <1>1. CASE collected = <<>>
    <2>1. task' = None /\ collected' = <<>> /\ StartStage(None)
      BY <1>1 DEF StepBack
    <2>2. Stage' = None
      BY <2>1 DEF Stage
    <2>3. (\A d \in choices' : RowFits(d, None)) /\ ListingsFit'
      BY <1>0, <2>1, StartStageFits
    <2> QED
      BY <1>0, <2>1, <2>2, <2>3 DEF PalIInv, FlowFits, RanFits
  <1>2. CASE collected # <<>>
    <2> DEFINE n == Len(collected)
               s == Tasks[task][n]
    <2>1. /\ collected' = Front(collected) /\ task' = task /\ StartStage(s)
      BY <1>2 DEF StepBack
    <2>2. /\ collected \in Seq(Arguments) /\ n \in Nat \ {0} /\ Len(Tasks[task]) \in Nat
          /\ \A i \in 1 .. n : FitsKind(collected[i], Tasks[task][i]) /\ FromItsRemote(collected[i])
      BY <1>0, <1>2, EmptySeq, TaskTypes DEF ArgsFit
    <2>3. /\ Front(collected) \in Seq(Arguments) /\ Len(Front(collected)) = n - 1
          /\ \A i \in 1 .. n - 1 : Front(collected)[i] = collected[i]
      <3>1. \A i \in 1 .. n - 1 : collected[i] \in Arguments
        BY <2>2, ElementOfSeq
      <3>2. 1 \in Int /\ n - 1 \in Int
        BY <2>2
      <3>3. /\ SubSeq(collected, 1, n - 1) \in Seq(Arguments)
            /\ Len(SubSeq(collected, 1, n - 1)) = IF 1 <= n - 1 THEN (n - 1) - 1 + 1 ELSE 0
            /\ \A i \in 1 .. (n - 1) - 1 + 1 : SubSeq(collected, 1, n - 1)[i] = collected[1 + i - 1]
        BY <3>1, <3>2, SubSeqProperties
      <3>0. n \in Int /\ n >= 1
        BY <2>2
      <3> HIDE DEF n
      <3>4. /\ (n - 1) - 1 + 1 = n - 1 /\ (IF 1 <= n - 1 THEN (n - 1) - 1 + 1 ELSE 0) = n - 1
            /\ \A i \in 1 .. n - 1 : 1 + i - 1 = i
        BY <3>0
      <3>5. Front(collected) = SubSeq(collected, 1, n - 1)
        BY DEF Front, n
      <3> QED
        BY <3>3, <3>4, <3>5
    <2>4. s \in Kinds
      <3>1. n \in 1 .. Len(Tasks[task])
        BY <1>0, <2>2
      <3> QED
        BY <1>0, <3>1, TaskTypes
    <2> HIDE DEF n
    <2>5. Stage' = s
      BY <1>0, <2>1, <2>2, <2>3, PaletteAssumption DEF Stage
    <2>6. ArgsFit(task, Front(collected)) /\ Len(Front(collected)) < Len(Tasks[task])
      <3>1. Len(Front(collected)) < n /\ n < Len(Tasks[task])
        BY <1>0, <2>2, <2>3 DEF n
      <3>2. ASSUME NEW i \in 1 .. Len(Front(collected))
            PROVE  FitsKind(Front(collected)[i], Tasks[task][i]) /\ FromItsRemote(Front(collected)[i])
        <4>1. i \in 1 .. n - 1 /\ i \in 1 .. n
          BY <2>2, <2>3
        <4> QED
          BY <2>2, <2>3, <4>1
      <3>3. Len(Front(collected)) <= Len(Tasks[task]) /\ Len(Front(collected)) < Len(Tasks[task])
        BY <2>2, <2>3, <3>1
      <3> QED
        BY <2>3, <3>2, <3>3 DEF ArgsFit
    <2>7. (\A d \in choices' : RowFits(d, s)) /\ ListingsFit'
      BY <1>0, <2>1, <2>4, StartStageFits
    <2>8. FlowFits' /\ RanFits'
      BY <1>0, <2>1, <2>6, PaletteAssumption DEF FlowFits, RanFits
    <2> QED
      BY <2>5, <2>7, <2>8 DEF PalIInv
  <1> QED
    BY <1>1, <1>2

LEMMA PalStepHolds == PalIInv /\ [PalNext]_palVars => PalIInv'
  <1> SUFFICES ASSUME PalIInv, [PalNext]_palVars PROVE PalIInv'
    OBVIOUS
  <1>1. CASE DismissPalette
    BY <1>1, ClosedFits DEF DismissPalette, PalIInv, RanFits
  <1>2. CASE UNCHANGED palVars
    <2>1. ListingsFit'
      BY <1>2 DEF palVars, PalIInv, ListingsFit
    <2> QED
      BY <1>2, <2>1, RowsStay DEF palVars
  <1> QED
    BY <1>1, <1>2, OpenPaletteHolds, TypeHolds, DrawPaletteHolds, ListingComesHolds,
       ConfirmRowHolds, StepBackHolds DEF PalNext

\* A task runs with every argument its stages asked for, in order and of their kinds,
\* and a completed path is of the remote that was listed, whatever was typed, taken
\* back or listed in between (command_palette.rs, push_arg and ensure_listing).
THEOREM AlwaysRunsWhatWasAsked == PalSpec => []RunsWhatWasAsked
  <1>1. PalIInv => RunsWhatWasAsked
    <2> SUFFICES ASSUME PalIInv, ran # None
                 PROVE  /\ Len(ran.args) = Len(Tasks[ran.task])
                        /\ \A i \in DOMAIN ran.args :
                              /\ FitsKind(ran.args[i], Tasks[ran.task][i])
                              /\ FromItsRemote(ran.args[i])
      BY DEF RunsWhatWasAsked, FromItsRemote
    <2>1. ArgsFit(ran.task, ran.args) /\ Len(ran.args) = Len(Tasks[ran.task])
      BY DEF PalIInv, RanFits
    <2>2. DOMAIN ran.args = 1 .. Len(ran.args)
      BY <2>1, LenProperties DEF ArgsFit
    <2> QED
      BY <2>1, <2>2 DEF ArgsFit
  <1> QED
    BY <1>1, PalInitHolds, PalStepHolds, PTL DEF PalSpec

-----------------------------------------------------------------------------
(* History.  The list and the position stand for the places behind and ahead:   *)
(* each step of the pane is a step of a browser's history, which is said once  *)
(* for the list with the row remembered at the position.                       *)

Place == [at : Spots, row : HistNames \cup {None}]

HistIInv ==
    /\ hist \in Seq(Place)
    /\ spot \in Spots \cup {None} /\ listed = spot
    /\ row \in HistNames \cup {None} /\ want \in HistNames \cup {None}
    /\ IF spot = None THEN hist = <<>> /\ pos = 0
       ELSE pos \in 1 .. Len(hist) /\ hist[pos].at = spot

Behind == SubSeq(hist, 1, pos - 1)
Ahead == SubSeq(hist, pos + 1, Len(hist))
Here == [at |-> spot, row |-> row]

\* A piece of a sequence.
LEMMA PieceIs ==
    ASSUME NEW S, NEW q \in Seq(S), NEW m \in 1 .. Len(q) + 1, NEW n \in m - 1 .. Len(q)
    PROVE  /\ SubSeq(q, m, n) \in Seq(S)
           /\ Len(SubSeq(q, m, n)) = n - m + 1
           /\ \A i \in 1 .. n - m + 1 : SubSeq(q, m, n)[i] = q[m + i - 1]
  <1>1. Len(q) \in Nat /\ m \in Int /\ n \in Int /\ 1 <= m /\ n <= Len(q) /\ m <= n + 1
    BY LenProperties
  <1>2. \A i \in m .. n : q[i] \in S
    BY <1>1, ElementOfSeq
  <1>3. /\ SubSeq(q, m, n) \in Seq(S)
        /\ Len(SubSeq(q, m, n)) = IF m <= n THEN n - m + 1 ELSE 0
        /\ \A i \in 1 .. n - m + 1 : SubSeq(q, m, n)[i] = q[m + i - 1]
    BY <1>1, <1>2, SubSeqProperties
  <1> QED
    BY <1>1, <1>3

\* The list with the row remembered, at a place.
LEMMA RememberedIs ==
    ASSUME HistIInv, spot # None
    PROVE  /\ Remembered(hist) \in Seq(Place) /\ Len(Remembered(hist)) = Len(hist)
           /\ Here \in Place /\ Remembered(hist)[pos] = Here
           /\ \A i \in 1 .. Len(hist) : i # pos => Remembered(hist)[i] = hist[i]
           /\ Len(hist) \in Nat /\ pos \in 1 .. Len(hist) /\ pos \in Nat
  <1>1. /\ hist \in Seq(Place) /\ DOMAIN hist = 1 .. Len(hist) /\ Len(hist) \in Nat
        /\ pos \in 1 .. Len(hist) /\ hist[pos].at = spot /\ hist[pos] \in Place
    BY LenProperties, ElementOfSeq DEF HistIInv
  <1>2. Here \in Place
    BY DEF HistIInv, Here, Place
  <1>3. [hist[pos] EXCEPT !.row = row] = Here
    BY <1>1 DEF Here, Place
  <1>4. Remembered(hist) = [hist EXCEPT ![pos] = Here]
    BY <1>1, <1>3 DEF Remembered
  <1> QED
    BY <1>1, <1>2, <1>4, ExceptSeq

\* The pieces of a list before and after a position, entry by entry.
LEMMA SplitIs ==
    ASSUME NEW q \in Seq(Place), NEW p \in 1 .. Len(q)
    PROVE  /\ SubSeq(q, 1, p - 1) \in Seq(Place) /\ Len(SubSeq(q, 1, p - 1)) = p - 1
           /\ \A i \in 1 .. p - 1 : SubSeq(q, 1, p - 1)[i] = q[i]
           /\ SubSeq(q, p + 1, Len(q)) \in Seq(Place)
           /\ Len(SubSeq(q, p + 1, Len(q))) = Len(q) - p
           /\ \A i \in 1 .. Len(q) - p : SubSeq(q, p + 1, Len(q))[i] = q[p + i]
  <1>1. Len(q) \in Nat /\ p \in Nat
    BY LenProperties
  <1>2. /\ 1 \in 1 .. Len(q) + 1 /\ p - 1 \in 1 - 1 .. Len(q)
        /\ (p - 1) - 1 + 1 = p - 1 /\ \A i \in 1 .. p - 1 : 1 + i - 1 = i
    BY <1>1
  <1>3. /\ p + 1 \in 1 .. Len(q) + 1 /\ Len(q) \in (p + 1) - 1 .. Len(q)
        /\ Len(q) - (p + 1) + 1 = Len(q) - p
        /\ \A i \in 1 .. Len(q) - p : (p + 1) + i - 1 = p + i
    BY <1>1
  <1>4. /\ SubSeq(q, 1, p - 1) \in Seq(Place) /\ Len(SubSeq(q, 1, p - 1)) = (p - 1) - 1 + 1
        /\ \A i \in 1 .. (p - 1) - 1 + 1 : SubSeq(q, 1, p - 1)[i] = q[1 + i - 1]
    BY <1>1, <1>2, PieceIs
  <1>5. /\ SubSeq(q, p + 1, Len(q)) \in Seq(Place)
        /\ Len(SubSeq(q, p + 1, Len(q))) = Len(q) - (p + 1) + 1
        /\ \A i \in 1 .. Len(q) - (p + 1) + 1 :
              SubSeq(q, p + 1, Len(q))[i] = q[(p + 1) + i - 1]
    <2> DEFINE m == p + 1
               n == Len(q)
    <2>1. m \in 1 .. Len(q) + 1 /\ n \in m - 1 .. Len(q)
      BY <1>3
    <2> HIDE DEF m, n
    <2>2. /\ SubSeq(q, m, n) \in Seq(Place) /\ Len(SubSeq(q, m, n)) = n - m + 1
          /\ \A i \in 1 .. n - m + 1 : SubSeq(q, m, n)[i] = q[m + i - 1]
      BY <1>1, <2>1, PieceIs
    <2> QED
      BY <2>2 DEF m, n
  <1> QED
    BY <1>2, <1>3, <1>4, <1>5

\* The places behind and ahead of the one shown.
LEMMA BehindAheadAre ==
    ASSUME HistIInv, spot # None
    PROVE  /\ Behind \in Seq(Place) /\ Len(Behind) = pos - 1
           /\ \A i \in 1 .. pos - 1 : Behind[i] = hist[i]
           /\ Ahead \in Seq(Place) /\ Len(Ahead) = Len(hist) - pos
           /\ \A i \in 1 .. Len(hist) - pos : Ahead[i] = hist[pos + i]
  <1>1. hist \in Seq(Place) /\ pos \in 1 .. Len(hist)
    BY DEF HistIInv
  <1> QED
    BY <1>1, SplitIs DEF Behind, Ahead

\* On the welcome screen there is nothing behind or ahead.
LEMMA NothingAtHome ==
    ASSUME hist = <<>>, pos = 0
    PROVE  Behind = <<>> /\ Ahead = <<>>
  <1>1. Len(<<>>) = 0 /\ 1 \in Int /\ 0 \in Int /\ 0 - 1 \in Int /\ 0 < 1 /\ 0 - 1 < 1
    OBVIOUS
  <1> QED
    BY <1>1, SubSeqEmpty DEF Behind, Ahead

\* Going to a place: what was ahead is gone, the place left is behind.
LEMMA NavigateIsVisit ==
    ASSUME HistIInv, NEW s \in Spots, NEW w \in HistNames \cup {None}, Navigate(s, w)
    PROVE  /\ HistIInv'
           /\ Behind' = IF spot = None THEN <<>> ELSE Append(Behind, Here)
           /\ Ahead' = <<>>
           /\ spot' = s /\ want' = w /\ row' = None
  <1> DEFINE h == Remembered(hist)
             k == SubSeq(h, 1, pos)
  <1>1. /\ hist' = Append(k, Location(s)) /\ pos' = Len(hist')
        /\ spot' = s /\ listed' = s /\ want' = w /\ row' = None
    BY DEF Navigate, Kept, ShowAt
  <1>2. Location(s) \in Place /\ None \notin Spots /\ Location(s).at = s
    BY HistoryAssumption DEF Location, Place
  <1>3. /\ k \in Seq(Place) /\ Len(k) = pos /\ pos \in Nat
        /\ IF spot = None THEN k = <<>> /\ pos = 0
           ELSE \A i \in 1 .. pos : k[i] = Append(Behind, Here)[i]
    <2>1. CASE spot = None
      <3>1. hist = <<>> /\ pos = 0 /\ DOMAIN <<>> = {}
        BY <2>1 DEF HistIInv
      <3>2. h = <<>>
        BY <3>1 DEF Remembered
      <3>3. SubSeq(<<>>, 1, 0) = <<>>
        <4>1. 1 \in Int /\ 0 \in Int /\ 0 < 1
          OBVIOUS
        <4> QED
          BY <4>1, SubSeqEmpty
      <3> QED
        BY <2>1, <3>1, <3>2, <3>3, EmptySeq
    <2>2. CASE spot # None
      <3>1. /\ h \in Seq(Place) /\ Len(h) = Len(hist) /\ Here \in Place /\ h[pos] = Here
            /\ \A i \in 1 .. Len(hist) : i # pos => h[i] = hist[i]
            /\ Len(hist) \in Nat /\ pos \in 1 .. Len(hist) /\ pos \in Nat
        BY <2>2, RememberedIs
      <3> HIDE DEF h
      <3>2. /\ k \in Seq(Place) /\ Len(k) = pos /\ \A i \in 1 .. pos : k[i] = h[i]
        <4>1. 1 \in 1 .. Len(h) + 1 /\ pos \in 1 - 1 .. Len(h) /\ pos - 1 + 1 = pos
              /\ \A i \in 1 .. pos : 1 + i - 1 = i
          BY <3>1
        <4>2. /\ k \in Seq(Place) /\ Len(k) = pos - 1 + 1
              /\ \A i \in 1 .. pos - 1 + 1 : k[i] = h[1 + i - 1]
          BY <3>1, <4>1, PieceIs
        <4> QED
          BY <4>1, <4>2
      <3> HIDE DEF k
      <3>3. /\ Behind \in Seq(Place) /\ Len(Behind) = pos - 1
            /\ \A i \in 1 .. pos - 1 : Behind[i] = hist[i]
        BY <2>2, BehindAheadAre
      <3>4. /\ \A i \in 1 .. pos - 1 : Append(Behind, Here)[i] = hist[i]
            /\ Append(Behind, Here)[pos] = Here
        <4>1. (pos - 1) + 1 = pos
          BY <3>1
        <4> QED
          BY <3>1, <3>3, <4>1, AppendProperties
      <3>5. ASSUME NEW i \in 1 .. pos PROVE k[i] = Append(Behind, Here)[i]
        <4>1. i = pos \/ (i \in 1 .. pos - 1 /\ i \in 1 .. Len(hist) /\ i # pos)
          BY <3>1
        <4> QED
          BY <3>1, <3>2, <3>4, <4>1
      <3> QED
        BY <2>2, <3>1, <3>2, <3>5
    <2> QED
      BY <2>1, <2>2
  <1> HIDE DEF k
  <1>4. /\ hist' \in Seq(Place) /\ Len(hist') = pos + 1 /\ pos' = pos + 1
        /\ \A i \in 1 .. pos : hist'[i] = k[i]
        /\ hist'[pos + 1] = Location(s)
    BY <1>1, <1>2, <1>3, AppendProperties
  <1>5. HistIInv'
    BY <1>1, <1>2, <1>3, <1>4 DEF HistIInv
  <1>6. Ahead' = <<>>
    <2>1. pos' + 1 \in Int /\ Len(hist') \in Int /\ Len(hist') < pos' + 1
      BY <1>3, <1>4
    <2> QED
      BY <2>1, SubSeqEmpty DEF Ahead
  <1>7. /\ Behind' \in Seq(Place) /\ Len(Behind') = pos
        /\ \A i \in 1 .. pos : Behind'[i] = k[i]
    <2>1. spot' # None /\ pos' - 1 = pos
      BY <1>1, <1>2, <1>3, <1>4
    <2>2. /\ 1 \in 1 .. Len(hist') + 1 /\ pos \in 1 - 1 .. Len(hist') /\ pos - 1 + 1 = pos
          /\ \A i \in 1 .. pos : 1 + i - 1 = i
      BY <1>3, <1>4
    <2>3. Behind' = SubSeq(hist', 1, pos)
      BY <2>1 DEF Behind
    <2>4. /\ SubSeq(hist', 1, pos) \in Seq(Place) /\ Len(SubSeq(hist', 1, pos)) = pos - 1 + 1
          /\ \A i \in 1 .. pos - 1 + 1 : SubSeq(hist', 1, pos)[i] = hist'[1 + i - 1]
      BY <1>4, <2>2, PieceIs
    <2> QED
      BY <1>4, <2>2, <2>3, <2>4
  <1>8. Behind' = IF spot = None THEN <<>> ELSE Append(Behind, Here)
    <2>1. CASE spot = None
      <3>1. Len(Behind') = 0
        BY <1>3, <1>7, <2>1
      <3> QED
        BY <1>7, <2>1, <3>1, EmptySeq
    <2>2. CASE spot # None
      <3>1. /\ Behind \in Seq(Place) /\ Len(Behind) = pos - 1 /\ Here \in Place
        BY <2>2, BehindAheadAre, RememberedIs
      <3>2. /\ Append(Behind, Here) \in Seq(Place) /\ Len(Append(Behind, Here)) = pos
        BY <1>3, <3>1, AppendProperties
      <3>3. \A i \in 1 .. pos : Behind'[i] = Append(Behind, Here)[i]
        BY <1>3, <1>7, <2>2
      <3>4. Behind' = Append(Behind, Here)
        BY <1>7, <3>2, <3>3, SeqEqual
      <3> QED
        BY <2>2, <3>4
    <2> QED
      BY <2>1, <2>2
  <1> QED
    BY <1>1, <1>5, <1>6, <1>8

\* A pane on the welcome screen has no position to step from.
LEMMA RestoreTypes ==
    ASSUME HistIInv, NEW p \in 1 .. Len(hist), spot # None, Restore(Remembered(hist), p)
    PROVE  /\ HistIInv'
           /\ hist' = Remembered(hist) /\ pos' = p
           /\ row' = None /\ (p # pos => spot' = hist[p].at /\ want' = hist[p].row)
           /\ spot' # None
  <1>1. /\ Remembered(hist) \in Seq(Place) /\ Len(Remembered(hist)) = Len(hist)
        /\ \A i \in 1 .. Len(hist) : i # pos => Remembered(hist)[i] = hist[i]
    BY RememberedIs
  <1>2. Remembered(hist)[p] \in Place
    BY <1>1, ElementOfSeq
  <1>3. /\ hist' = Remembered(hist) /\ pos' = p
        /\ spot' = hist'[p].at /\ listed' = spot' /\ want' = hist'[p].row /\ row' = None
    BY DEF Restore, ShowAt
  <1>4. spot' \in Spots /\ want' \in HistNames \cup {None} /\ None \notin Spots
    BY <1>2, <1>3, HistoryAssumption DEF Place
  <1> QED
    BY <1>1, <1>3, <1>4 DEF HistIInv

LEMMA BackIsGoBack ==
    ASSUME HistIInv, Back
    PROVE  /\ HistIInv' /\ spot # None /\ Behind # <<>>
           /\ spot' = Last(Behind).at /\ want' = Last(Behind).row /\ row' = None
           /\ Behind' = Front(Behind)
           /\ Ahead' = <<Here>> \o Ahead
  <1>1. spot # None /\ pos > 1 /\ Restore(Remembered(hist), pos - 1)
    BY DEF Back, HistIInv
  <1>2. /\ Remembered(hist) \in Seq(Place) /\ Len(Remembered(hist)) = Len(hist)
        /\ Here \in Place /\ Remembered(hist)[pos] = Here
        /\ \A i \in 1 .. Len(hist) : i # pos => Remembered(hist)[i] = hist[i]
        /\ Len(hist) \in Nat /\ pos \in 1 .. Len(hist) /\ pos \in Nat
    BY <1>1, RememberedIs
  <1>3. /\ HistIInv' /\ hist' = Remembered(hist) /\ pos' = pos - 1 /\ row' = None
        /\ spot' = hist[pos - 1].at /\ want' = hist[pos - 1].row /\ spot' # None
    <2>1. pos - 1 \in 1 .. Len(hist) /\ pos - 1 # pos
      BY <1>1, <1>2
    <2> QED
      BY <1>1, <2>1, RestoreTypes
  <1>4. /\ Behind \in Seq(Place) /\ Len(Behind) = pos - 1
        /\ \A i \in 1 .. pos - 1 : Behind[i] = hist[i]
        /\ Ahead \in Seq(Place) /\ Len(Ahead) = Len(hist) - pos
        /\ \A i \in 1 .. Len(hist) - pos : Ahead[i] = hist[pos + i]
    BY <1>1, BehindAheadAre
  <1>5. /\ Behind' \in Seq(Place) /\ Len(Behind') = pos - 1 - 1
        /\ \A i \in 1 .. pos - 1 - 1 : Behind'[i] = hist'[i]
        /\ Ahead' \in Seq(Place) /\ Len(Ahead') = Len(hist') - (pos - 1)
        /\ \A i \in 1 .. Len(hist') - (pos - 1) : Ahead'[i] = hist'[pos - 1 + i]
    <2>1. /\ Behind' \in Seq(Place) /\ Len(Behind') = pos' - 1
          /\ \A i \in 1 .. pos' - 1 : Behind'[i] = hist'[i]
          /\ Ahead' \in Seq(Place) /\ Len(Ahead') = Len(hist') - pos'
          /\ \A i \in 1 .. Len(hist') - pos' : Ahead'[i] = hist'[pos' + i]
      <3>1. hist' \in Seq(Place) /\ pos' \in 1 .. Len(hist')
        BY <1>3 DEF HistIInv
      <3> QED
        BY <3>1, SplitIs DEF Behind, Ahead
    <2> QED
      BY <1>3, <2>1
  <1>6. Behind # <<>> /\ Last(Behind) = hist[pos - 1]
    <2>1. pos - 1 \in 1 .. pos - 1 /\ pos - 1 # 0
      BY <1>1, <1>2
    <2> QED
      BY <1>4, <2>1, EmptySeq DEF Last
  <1>7. Behind' = Front(Behind)
    <2> DEFINE n == pos - 1
    <2>1. n \in Nat /\ n >= 1
      BY <1>1, <1>2
    <2>2. /\ 1 \in 1 .. Len(Behind) + 1 /\ n - 1 \in 1 - 1 .. Len(Behind) /\ (n - 1) - 1 + 1 = n - 1
          /\ \A i \in 1 .. n - 1 : 1 + i - 1 = i
      BY <1>4, <2>1
    <2>3. /\ Front(Behind) \in Seq(Place) /\ Len(Front(Behind)) = n - 1
          /\ \A i \in 1 .. n - 1 : Front(Behind)[i] = Behind[i]
      <3>1. Front(Behind) = SubSeq(Behind, 1, n - 1)
        BY <1>4 DEF Front
      <3>2. /\ SubSeq(Behind, 1, n - 1) \in Seq(Place) /\ Len(SubSeq(Behind, 1, n - 1)) = (n - 1) - 1 + 1
            /\ \A i \in 1 .. (n - 1) - 1 + 1 : SubSeq(Behind, 1, n - 1)[i] = Behind[1 + i - 1]
        BY <1>4, <2>2, PieceIs
      <3> QED
        BY <2>2, <3>1, <3>2
    <2>4. ASSUME NEW i \in 1 .. n - 1 PROVE Behind'[i] = Front(Behind)[i]
      <3>1. i \in 1 .. pos - 1 /\ i \in 1 .. Len(hist) /\ i # pos
        BY <1>2, <2>1
      <3> QED
        BY <1>2, <1>3, <1>4, <1>5, <2>3, <3>1
    <2> QED
      BY <1>5, <2>3, <2>4, SeqEqual
  <1>8. Ahead' = <<Here>> \o Ahead
    <2> DEFINE a == <<Here>> \o Ahead
    <2>1. <<Here>> \in Seq(Place) /\ Len(<<Here>>) = 1 /\ <<Here>>[1] = Here
      BY <1>2
    <2>2. /\ a \in Seq(Place) /\ Len(a) = 1 + Len(Ahead)
          /\ \A i \in 1 .. 1 + Len(Ahead) : a[i] = IF i <= 1 THEN <<Here>>[i] ELSE Ahead[i - 1]
      BY <1>4, <2>1, ConcatProperties
    <2> HIDE DEF a
    <2>3. Len(Ahead') = Len(a) /\ Len(a) = Len(hist) - pos + 1
      BY <1>2, <1>3, <1>4, <1>5, <2>2
    <2>4. ASSUME NEW i \in 1 .. Len(a) PROVE Ahead'[i] = a[i]
      <3>1. Ahead'[i] = hist'[pos - 1 + i]
        BY <1>5, <2>3
      <3>2. CASE i = 1
        <4>1. pos - 1 + i = pos
          BY <1>2, <3>2
        <4> QED
          BY <1>2, <1>3, <1>4, <2>1, <2>2, <2>3, <3>1, <3>2, <4>1
      <3>3. CASE i # 1
        <4>1. /\ i - 1 \in 1 .. Len(hist) - pos /\ pos - 1 + i = pos + (i - 1)
              /\ pos + (i - 1) \in 1 .. Len(hist) /\ pos + (i - 1) # pos /\ ~(i <= 1)
          BY <1>2, <2>3, <3>3, SMTT(40)
        <4> QED
          BY <1>2, <1>3, <1>4, <2>2, <2>3, <3>1, <4>1
      <3> QED
        BY <3>2, <3>3
    <2> QED
      BY <1>5, <2>2, <2>3, <2>4, SeqEqual DEF a
  <1> QED
    BY <1>1, <1>3, <1>6, <1>7, <1>8

LEMMA AheadShifts ==
    ASSUME NEW m \in Nat, NEW p \in 1 .. m, NEW i \in 1 .. m - p - 1
    PROVE  /\ p + 1 + i \in 1 .. m /\ p + 1 + i # p
           /\ i + 1 \in 1 .. m - p /\ p + (i + 1) = p + 1 + i
  OBVIOUS

LEMMA ForwardIsGoForward ==
    ASSUME HistIInv, Forward
    PROVE  /\ HistIInv' /\ spot # None /\ Ahead # <<>>
           /\ spot' = Head(Ahead).at /\ want' = Head(Ahead).row /\ row' = None
           /\ Ahead' = Tail(Ahead)
           /\ Behind' = Append(Behind, Here)
  <1>1. spot # None /\ pos < Len(hist) /\ Restore(Remembered(hist), pos + 1)
    <2>1. pos < Len(hist) /\ Restore(Remembered(hist), pos + 1)
      BY DEF Forward
    <2>2. spot = None => Len(hist) = 0 /\ pos = 0
      BY EmptySeq DEF HistIInv
    <2> QED
      BY <2>1, <2>2
  <1>2. /\ Remembered(hist) \in Seq(Place) /\ Len(Remembered(hist)) = Len(hist)
        /\ Here \in Place /\ Remembered(hist)[pos] = Here
        /\ \A i \in 1 .. Len(hist) : i # pos => Remembered(hist)[i] = hist[i]
        /\ Len(hist) \in Nat /\ pos \in 1 .. Len(hist) /\ pos \in Nat
    BY <1>1, RememberedIs
  <1>3. /\ HistIInv' /\ hist' = Remembered(hist) /\ pos' = pos + 1 /\ row' = None
        /\ spot' = hist[pos + 1].at /\ want' = hist[pos + 1].row /\ spot' # None
    <2>1. pos + 1 \in 1 .. Len(hist) /\ pos + 1 # pos
      BY <1>1, <1>2
    <2> QED
      BY <1>1, <2>1, RestoreTypes
  <1>4. /\ Behind \in Seq(Place) /\ Len(Behind) = pos - 1
        /\ \A i \in 1 .. pos - 1 : Behind[i] = hist[i]
        /\ Ahead \in Seq(Place) /\ Len(Ahead) = Len(hist) - pos
        /\ \A i \in 1 .. Len(hist) - pos : Ahead[i] = hist[pos + i]
    BY <1>1, BehindAheadAre
  <1>5. /\ Behind' \in Seq(Place) /\ Len(Behind') = pos
        /\ \A i \in 1 .. pos : Behind'[i] = hist'[i]
        /\ Ahead' \in Seq(Place) /\ Len(Ahead') = Len(hist) - (pos + 1)
        /\ \A i \in 1 .. Len(hist) - (pos + 1) : Ahead'[i] = hist'[pos + 1 + i]
    <2>1. hist' \in Seq(Place) /\ pos' \in 1 .. Len(hist')
      BY <1>3 DEF HistIInv
    <2>2. /\ Behind' \in Seq(Place) /\ Len(Behind') = pos' - 1
          /\ \A i \in 1 .. pos' - 1 : Behind'[i] = hist'[i]
          /\ Ahead' \in Seq(Place) /\ Len(Ahead') = Len(hist') - pos'
          /\ \A i \in 1 .. Len(hist') - pos' : Ahead'[i] = hist'[pos' + i]
      BY <2>1, SplitIs DEF Behind, Ahead
    <2>3. pos' - 1 = pos /\ Len(hist') = Len(hist)
      BY <1>2, <1>3
    <2> QED
      BY <1>3, <2>2, <2>3
  <1>6. Ahead # <<>> /\ Head(Ahead) = hist[pos + 1]
    <2>1. 1 \in 1 .. Len(hist) - pos /\ Len(hist) - pos # 0
      BY <1>1, <1>2
    <2>2. Ahead # <<>>
      BY <1>4, <2>1, EmptySeq
    <2> QED
      BY <1>4, <2>1, <2>2, HeadTailProperties
  <1>7. Ahead' = Tail(Ahead)
    <2> DEFINE n == Len(hist) - pos
    <2>1. n \in Nat /\ n >= 1 /\ Len(hist) - (pos + 1) = n - 1
      BY <1>1, <1>2
    <2>2. Tail(Ahead) \in Seq(Place) /\ Len(Tail(Ahead)) = n - 1
      BY <1>4, <1>6, HeadTailProperties
    <2>3. ASSUME NEW i \in 1 .. n - 1 PROVE Ahead'[i] = Tail(Ahead)[i]
      <3>1. /\ pos + 1 + i \in 1 .. Len(hist) /\ pos + 1 + i # pos
            /\ i + 1 \in 1 .. Len(hist) - pos /\ pos + (i + 1) = pos + 1 + i
        <4>1. Len(hist) \in Nat /\ pos \in 1 .. Len(hist) /\ i \in 1 .. Len(hist) - pos - 1
          BY <1>2
        <4> QED
          BY <4>1, AheadShifts
      <3>2. Tail(Ahead)[i] = Ahead[i + 1]
        BY <1>4, <1>6, <2>2, HeadTailProperties
      <3> QED
        BY <1>2, <1>3, <1>4, <1>5, <2>1, <3>1, <3>2
    <2> HIDE DEF n
    <2> QED
      BY <1>5, <2>1, <2>2, <2>3, SeqEqual
  <1>8. Behind' = Append(Behind, Here)
    <2> DEFINE a == Append(Behind, Here)
    <2>1. /\ a \in Seq(Place) /\ Len(a) = (pos - 1) + 1
          /\ \A i \in 1 .. pos - 1 : a[i] = Behind[i]
          /\ a[(pos - 1) + 1] = Here
      BY <1>2, <1>4, AppendProperties
    <2> HIDE DEF a
    <2>2. (pos - 1) + 1 = pos
      BY <1>2
    <2>3. ASSUME NEW i \in 1 .. pos PROVE Behind'[i] = a[i]
      <3>1. i = pos \/ (i \in 1 .. pos - 1 /\ i \in 1 .. Len(hist) /\ i # pos)
        BY <1>2
      <3>2. Behind'[i] = Remembered(hist)[i]
        BY <1>3, <1>5
      <3>3. CASE i = pos
        BY <1>2, <2>1, <2>2, <3>2, <3>3
      <3>4. CASE i # pos
        BY <1>2, <1>4, <2>1, <3>1, <3>2, <3>4
      <3> QED
        BY <3>3, <3>4
    <2> QED
      BY <1>5, <2>1, <2>2, <2>3, SeqEqual DEF a
  <1> QED
    BY <1>1, <1>3, <1>6, <1>7, <1>8

\* Closing the folder, from the menu or because its remote is gone.
LEMMA LeaveForgets ==
    ASSUME HistIInv, LeaveRemote
    PROVE  HistIInv' /\ BH!Leave
  <1>1. /\ hist' = <<>> /\ pos' = 0 /\ spot' = None
        /\ listed' = None /\ want' = None /\ row' = None
    BY DEF LeaveRemote, Forgotten, ShowAt
  <1>2. <<>> \in Seq(Place) /\ Len(<<>>) = 0
    BY EmptySeq
  <1>3. HistIInv'
    BY <1>1, <1>2 DEF HistIInv
  <1>4. Behind' = <<>> /\ Ahead' = <<>>
    <2>1. 1 \in Int /\ 0 \in Int /\ 0 - 1 \in Int /\ 0 + 1 \in Int /\ 0 - 1 < 1 /\ 0 < 0 + 1
      OBVIOUS
    <2>2. Behind' = SubSeq(<<>>, 1, 0 - 1) /\ Ahead' = SubSeq(<<>>, 0 + 1, 0)
      BY <1>1, <1>2 DEF Behind, Ahead
    <2> QED
      BY <2>1, <2>2, SubSeqEmpty
  <1> QED
    BY <1>1, <1>3, <1>4 DEF BH!Leave, Behind, Ahead

LEMMA HistInitHolds == HistInit => HistIInv /\ BH!Init
  <1> SUFFICES ASSUME HistInit PROVE HistIInv /\ BH!Init
    OBVIOUS
  <1>1. spot \in Spots \cup {None} /\ listed = spot /\ row = None /\ want = None
    BY DEF HistInit
  <1>2. CASE spot = None
    <2>1. hist = <<>> /\ pos = 0
      BY <1>2 DEF HistInit
    <2>2. <<>> \in Seq(Place)
      BY EmptySeq
    <2>3. Behind = <<>> /\ Ahead = <<>>
      BY <2>1, NothingAtHome
    <2> QED
      BY <1>1, <1>2, <2>1, <2>2, <2>3 DEF HistIInv, BH!Init, Behind, Ahead
  <1>3. CASE spot # None
    <2>1. hist = <<Location(spot)>> /\ pos = 1
      BY <1>3 DEF HistInit
    <2>2. Location(spot) \in Place /\ Location(spot).at = spot
      BY <1>1, <1>3 DEF Location, Place
    <2>3. hist \in Seq(Place) /\ Len(hist) = 1 /\ hist[1] = Location(spot)
      BY <2>1, <2>2
    <2>4. HistIInv
      BY <1>1, <1>3, <2>1, <2>2, <2>3 DEF HistIInv
    <2>5. Behind = <<>> /\ Ahead = <<>>
      <3>1. Len(Behind) = 1 - 1 /\ Behind \in Seq(Place) /\ Len(Ahead) = 1 - 1 /\ Ahead \in Seq(Place)
        BY <1>3, <2>1, <2>3, <2>4, BehindAheadAre
      <3> QED
        BY <3>1, EmptySeq
    <2> QED
      BY <1>1, <2>4, <2>5 DEF BH!Init, Behind, Ahead
  <1> QED
    BY <1>2, <1>3

\* Every step of the pane is a step of a browser's history, or none of its own.
LEMMA HistStepHolds == HistIInv /\ [HistNext]_histVars => HistIInv' /\ [BH!Next]_(BH!vars)
  <1> SUFFICES ASSUME HistIInv, [HistNext]_histVars PROVE HistIInv' /\ [BH!Next]_(BH!vars)
    OBVIOUS
  <1>1. ASSUME NEW s \in Spots, NEW w \in HistNames \cup {None}, Navigate(s, w)
        PROVE  HistIInv' /\ BH!Visit
    BY <1>1, NavigateIsVisit DEF BH!Visit, BH!Visited, Behind, Ahead, Here
  <1>2. CASE Go
    BY <1>1, <1>2 DEF Go, BH!Next
  <1>3. CASE GoUp
    <2>1. Above[spot] \in Spots /\ spot \in HistNames \cup {None} /\ Navigate(Above[spot], spot)
      BY <1>3, HistoryAssumption DEF GoUp, HistIInv, HistNames
    <2>2. HistIInv' /\ BH!Visit
      BY <1>1, <2>1
    <2> QED
      BY <2>2 DEF BH!Next
  <1>4. CASE Back
    <2>1. /\ HistIInv' /\ Behind # <<>>
          /\ spot' = Last(Behind).at /\ want' = Last(Behind).row /\ row' = None
          /\ Behind' = Front(Behind) /\ Ahead' = <<Here>> \o Ahead
      BY <1>4, BackIsGoBack
    <2>2. BH!Last(Behind) = Last(Behind) /\ BH!Front(Behind) = Front(Behind)
      BY DEF Last, Front, BH!Last, BH!Front
    <2>3. BH!GoBack
      BY <2>1, <2>2 DEF BH!GoBack, BH!Visited, Behind, Ahead, Here
    <2> QED
      BY <2>1, <2>3 DEF BH!Next
  <1>5. CASE Forward
    BY <1>5, ForwardIsGoForward DEF BH!Next, BH!GoForward, BH!Visited, Behind, Ahead, Here
  <1>6. CASE LeaveRemote
    BY <1>6, LeaveForgets DEF BH!Next
  <1>7. CASE MoveRow
    <2>1. HistIInv'
      BY <1>7 DEF MoveRow, HistIInv
    <2>2. BH!MoveCursor
      BY <1>7 DEF MoveRow, BH!MoveCursor
    <2> QED
      BY <2>1, <2>2 DEF BH!Next
  <1>8. CASE UNCHANGED histVars
    <2>1. HistIInv'
      BY <1>8 DEF histVars, HistIInv
    <2>2. UNCHANGED BH!vars
      BY <1>8 DEF histVars, BH!vars
    <2> QED
      BY <2>1, <2>2
  <1> QED
    BY <1>2, <1>3, <1>4, <1>5, <1>6, <1>7, <1>8 DEF HistNext

\* The pane, its explorer and its history never disagree on the place shown.
THEOREM HistoryAlwaysAgrees == HistSpec => []HistoryAgrees
  <1>1. HistIInv => HistoryAgrees
    BY LenProperties DEF HistIInv, HistoryAgrees
  <1> QED
    BY <1>1, HistInitHolds, HistStepHolds, PTL DEF HistSpec

\* The list with its position implements a browser's history for every set of places
\* and every bound: back and forth lose no place and no remembered row, going
\* somewhere forgets only what was ahead (navigation.rs, navigate and restore_history).
THEOREM HistoryIsKept == HistSpec => KeepsItsHistory
  <1>1. HistInit => BH!Init
    BY HistInitHolds
  <1>2. HistIInv /\ [HistNext]_histVars => [BH!Next]_(BH!vars)
    BY HistStepHolds
  <1>3. HistIInv /\ [HistNext]_histVars => HistIInv'
    BY HistStepHolds
  <1>4. HistInit => HistIInv
    BY HistInitHolds
  <1> QED
    BY <1>1, <1>2, <1>3, <1>4, PTL DEF HistSpec, KeepsItsHistory, BH!Spec

-----------------------------------------------------------------------------
(* Storage.  A list of pins and its rows tell the same: the positions order    *)
(* the rows, and a strict order of n places is theirs.                         *)

LEMMA PlacesInOrder ==
    ASSUME NEW n \in Nat, NEW f \in [1 .. n -> 1 .. n],
           \A i, j \in 1 .. n : f[i] = f[j] => i = j,
           \A i, j \in 1 .. n : i < j => f[i] <= f[j],
           \A p \in 1 .. n : \E i \in 1 .. n : f[i] = p
    PROVE  \A i \in 1 .. n : f[i] = i
  <1> DEFINE T == {i \in 1 .. n : f[i] # i}
             R == {ss \in Nat \X Nat : ss[1] < ss[2]}
  <1>1. SUFFICES ASSUME T # {} PROVE FALSE
    BY <1>1
  <1>2. PICK i \in T : \A j \in T : ~(<<j, i>> \in R)
    <2>1. IsWellFoundedOn(R, Nat)
      BY NatLessThanWellFounded, Zenon DEF OpToRel
    <2>2. T \subseteq Nat
      OBVIOUS
    <2> HIDE DEF R, T
    <2> QED
      BY <1>1, <2>1, <2>2, WFMin, Zenon
  <1>3. i \in 1 .. n /\ f[i] # i /\ f[i] \in 1 .. n
    OBVIOUS
  <1>4. \A j \in 1 .. n : j < i => f[j] = j
    <2> SUFFICES ASSUME NEW j \in 1 .. n, j < i PROVE f[j] = j
      OBVIOUS
    <2>1. <<j, i>> \in R
      <3>1. j \in Nat /\ i \in Nat /\ j < i
        BY <1>3
      <3>2. <<j, i>> \in Nat \X Nat /\ <<j, i>>[1] = j /\ <<j, i>>[2] = i
        BY <3>1
      <3>3. <<j, i>>[1] < <<j, i>>[2]
        BY <3>1, <3>2, Zenon
      <3> QED
        BY <3>2, <3>3, Zenon
    <2>2. j \notin T
      <3> HIDE DEF T, R
      <3> QED
        BY <1>2, <2>1
    <2> QED
      BY <2>2
  <1> HIDE DEF T, R
  <1>5. f[i] > i
    <2>1. CASE f[i] < i
      BY <1>3, <1>4, <2>1
    <2> QED
      BY <1>3, <2>1
  <1>6. PICK k \in 1 .. n : f[k] = i
    BY <1>3
  <1>7. k > i
    <2>1. k # i
      BY <1>3, <1>6
    <2>2. ~(k < i)
      BY <1>3, <1>4, <1>6
    <2> QED
      BY <1>3, <2>1, <2>2
  <1>8. f[i] <= f[k]
    BY <1>3, <1>7
  <1> QED
    BY <1>3, <1>5, <1>6, <1>8

LEMMA PinListIs ==
    ASSUME NEW q \in PinLists
    PROVE  /\ Len(q) \in Nat /\ DOMAIN q = 1 .. Len(q) /\ q \in Seq(Pinnable)
           /\ \A i, j \in 1 .. Len(q) : q[i] = q[j] => i = j
  <1>1. PICK n \in 0 .. Cardinality(Pinnable) : q \in [1 .. n -> Pinnable]
    BY DEF PinLists
  <1>2. Cardinality(Pinnable) \in Nat
    BY StorageAssumption, FS_CardinalityType
  <1>3. n \in Nat
    BY <1>2
  <1>4. IsInjective(q)
    BY DEF PinLists
  <1> QED
    BY <1>1, <1>3, <1>4 DEF IsInjective

LEMMA RowsCount ==
    ASSUME NEW q \in PinLists
    PROVE  Cardinality(AsRows(q)) = Len(q)
  <1> DEFINE n == Len(q)
             f == [i \in 1 .. n |-> <<q[i], i>>]
  <1>1. n \in Nat /\ DOMAIN q = 1 .. n
    BY PinListIs
  <1>2. IsFiniteSet(1 .. n) /\ Cardinality(1 .. n) = n
    <2>1. 1 \in Int /\ n \in Int
      BY <1>1
    <2>2. /\ IsFiniteSet(1 .. n)
          /\ Cardinality(1 .. n) = IF 1 > n THEN 0 ELSE n - 1 + 1
      BY <2>1, FS_Interval
    <2> QED
      BY <1>1, <2>2
  <1>3. f \in Bijection(1 .. n, AsRows(q))
    <2> HIDE DEF n
    <2>1. f \in [1 .. n -> AsRows(q)]
      BY <1>1 DEF AsRows
    <2>2. \A i, j \in 1 .. n : f[i] = f[j] => i = j
      OBVIOUS
    <2>3. \A r \in AsRows(q) : \E i \in 1 .. n : f[i] = r
      BY <1>1 DEF AsRows
    <2> HIDE DEF f
    <2> QED
      BY <2>1, <2>2, <2>3 DEF Bijection, Injection, Surjection, IsInjective
  <1>4. ExistsBijection(1 .. n, AsRows(q))
    BY <1>3 DEF ExistsBijection
  <1> QED
    BY <1>2, <1>4, FS_Bijection

\* load_pinned reads back the list that was written, and no other.
LEMMA RowsTellTheList ==
    ASSUME NEW q \in PinLists
    PROVE  PinsOf(AsRows(q)) = {q}
  <1> DEFINE n == Len(q)
             Slots == {r[2] : r \in AsRows(q)}
  <1>1. /\ n \in Nat /\ DOMAIN q = 1 .. n
        /\ \A i, j \in 1 .. n : q[i] = q[j] => i = j
    BY PinListIs
  <1>2. Cardinality(AsRows(q)) = n
    BY RowsCount
  <1>3. AsRows(q) = {<<q[i], i>> : i \in 1 .. n}
    BY <1>1 DEF AsRows
  <1>4. Slots = 1 .. n
    <2>1. \A i \in 1 .. n : <<q[i], i>> \in AsRows(q) /\ <<q[i], i>>[2] = i
      BY <1>3
    <2>2. \A r \in AsRows(q) : r[2] \in 1 .. n
      BY <1>3
    <2>3. \A i \in 1 .. n : i \in Slots
      BY <2>1
    <2>4. \A i \in Slots : i \in 1 .. n
      BY <2>2
    <2> HIDE DEF Slots
    <2> QED
      BY <2>3, <2>4
  <1> HIDE DEF n, Slots
  <1>5. q \in PinsOf(AsRows(q))
    <2> DEFINE slot == [i \in 1 .. n |-> i]
    <2>1. slot \in [DOMAIN q -> Slots]
      BY <1>1, <1>4
    <2>2. AsRows(q) = {<<q[i], slot[i]>> : i \in DOMAIN q}
      BY <1>1, <1>3
    <2>3. \A i, j \in DOMAIN q : i < j => slot[i] <= slot[j]
      BY <1>1
    <2> HIDE DEF slot
    <2> QED
      BY <1>2, <2>1, <2>2, <2>3 DEF PinsOf, n, Slots
  <1>6. ASSUME NEW p \in PinsOf(AsRows(q)) PROVE p = q
    <2>1. p \in PinLists /\ Len(p) = n
      BY <1>2 DEF PinsOf
    <2>2. PICK slot \in [DOMAIN p -> Slots] :
              /\ AsRows(q) = {<<p[i], slot[i]>> : i \in DOMAIN p}
              /\ \A i, j \in DOMAIN p : i < j => slot[i] <= slot[j]
      BY DEF PinsOf, Slots
    <2>3. /\ DOMAIN p = 1 .. n /\ p \in Seq(Pinnable) /\ q \in Seq(Pinnable)
          /\ \A i, j \in 1 .. n : p[i] = p[j] => i = j
      BY <2>1, PinListIs
    <2>4. slot \in [1 .. n -> 1 .. n]
      BY <1>4, <2>2, <2>3
    <2>5. \A i \in 1 .. n : p[i] = q[slot[i]]
      <3> SUFFICES ASSUME NEW i \in 1 .. n PROVE p[i] = q[slot[i]]
        OBVIOUS
      <3>1. <<p[i], slot[i]>> \in AsRows(q)
        BY <2>2, <2>3
      <3> QED
        BY <1>3, <3>1
    <2>6. \A i, j \in 1 .. n : slot[i] = slot[j] => i = j
      BY <2>3, <2>5
    <2>7. \A k \in 1 .. n : \E i \in 1 .. n : slot[i] = k
      <3> SUFFICES ASSUME NEW k \in 1 .. n PROVE \E i \in 1 .. n : slot[i] = k
        OBVIOUS
      <3>1. <<q[k], k>> \in AsRows(q)
        BY <1>3
      <3> QED
        BY <2>2, <2>3, <3>1
    <2>8. \A i, j \in 1 .. n : i < j => slot[i] <= slot[j]
      BY <2>2, <2>3
    <2>9. \A i \in 1 .. n : slot[i] = i
      BY <1>1, <2>4, <2>6, <2>7, <2>8, PlacesInOrder
    <2>10. \A i \in 1 .. n : p[i] = q[i]
      BY <2>5, <2>9
    <2> QED
      BY <2>1, <2>3, <2>10, SeqEqual DEF n
  <1> QED
    BY <1>5, <1>6

(* The inductive invariant.  What a save is about to put in place is what is in *)
(* memory; a text nobody can read was moved aside before anything is saved,     *)
(* unless a launch failed to; and the rows a transaction has written so far are *)
(* names that were saved, none twice, and a prefix of the list if none failed.  *)

SavesFit ==
    /\ writing # None \/ tx # None => running
    /\ writing = "rename" => temp = settings
    /\ running /\ spoilt /\ slips = {} => backup = Unreadable

WritesOf(q, t) ==
    /\ t = [next |-> t.next, rows |-> t.rows, whole |-> t.whole]
    /\ t.next \in 0 .. Len(q) + 1
    /\ t.whole /\ t.next > 0 => t.rows = {<<q[i], i>> : i \in 1 .. t.next - 1}

TxFits == tx # None => pinList \in meantPins /\ WritesOf(pinList, tx) /\ RowsOfSaves(tx.rows)

RowsFit ==
    /\ RowsOfSaves(rowsKept)
    /\ whole => \E q \in PinLists \cap meantPins : rowsKept = AsRows(q)

FileFits ==
    /\ Read(file) = meant
    /\ spoilt /\ slips = {} => Unreadable \in {file, backup}
    /\ file # Half

StoIInv == StoTypeOK /\ FileFits /\ SavesFit /\ TxFits /\ RowsFit

LEMMA MarkersDiffer ==
    /\ None # Half /\ None # Unreadable /\ Half # Unreadable /\ None # "fill" /\ None # "rename"
    /\ None \notin Settings /\ Half \notin Settings /\ Unreadable \notin Settings
    /\ Default \in Settings /\ MaxSaves \in Nat
  BY StorageAssumption DEF Half, Unreadable

LEMMA NoPins == <<>> \in PinLists /\ AsRows(<<>>) = {}
  <1>1. Cardinality(Pinnable) \in Nat
    BY StorageAssumption, FS_CardinalityType
  <1>2. 0 \in 0 .. Cardinality(Pinnable) /\ <<>> \in [1 .. 0 -> Pinnable] /\ DOMAIN <<>> = {}
    BY <1>1
  <1>3. IsInjective(<<>>)
    BY <1>2 DEF IsInjective
  <1> QED
    BY <1>2, <1>3 DEF PinLists, AsRows

\* The rows of a list that was saved, those of more saves, and one more row.
LEMMA RowsOfListThen ==
    ASSUME NEW q \in PinLists, (q \in meantPins)', rowsKept' = AsRows(q)
    PROVE  RowsOfSaves(rowsKept)'
  <1>1. DOMAIN q = 1 .. Len(q) /\ \A i, j \in 1 .. Len(q) : q[i] = q[j] => i = j
    BY PinListIs
  <1>2. \A r \in AsRows(q) : \E i \in DOMAIN q : r = <<q[i], i>>
    BY DEF AsRows
  <1>3. ASSUME NEW r \in AsRows(q), NEW o \in AsRows(q), r[1] = o[1] PROVE r = o
    BY <1>1, <1>2, <1>3
  <1>4. \A r \in AsRows(q) : \E i \in DOMAIN q : r[1] = q[i]
    BY <1>2
  <1> QED
    BY <1>3, <1>4 DEF RowsOfSaves

LEMMA RowsOfMore ==
    ASSUME NEW rs, RowsOfSaves(rs), meantPins \subseteq meantPins'
    PROVE  /\ \A r, o \in rs : r[1] = o[1] => r = o
           /\ \A r \in rs : \E q \in meantPins' : \E i \in DOMAIN q : r[1] = q[i]
  BY DEF RowsOfSaves

LEMMA RowsOfInsert ==
    ASSUME NEW rs, RowsOfSaves(rs), NEW q \in meantPins, NEW i \in DOMAIN q
    PROVE  RowsOfSaves(Inserted(rs, <<q[i], i>>))
  <1> DEFINE added == <<q[i], i>>
  <1>1. added[1] = q[i]
    OBVIOUS
  <1> HIDE DEF added
  <1>2. \/ Inserted(rs, added) = rs
        \/ Inserted(rs, added) = rs \cup {added} /\ ~\E o \in rs : o[1] = added[1]
    BY DEF Inserted
  <1>3. RowsOfSaves(Inserted(rs, added))
    BY <1>1, <1>2 DEF RowsOfSaves
  <1> QED
    BY <1>3 DEF added

LEMMA StoInitHolds == StoInit => StoIInv
  <1> SUFFICES ASSUME StoInit PROVE StoIInv
    OBVIOUS
  <1>1. StoTypeOK
    <2>1. settings \in Settings /\ pinList \in PinLists /\ effort \in 0 .. MaxSaves
      BY MarkersDiffer, NoPins DEF StoInit
    <2> QED
      BY <2>1 DEF StoInit, StoTypeOK
  <1>2. FileFits /\ SavesFit /\ TxFits
    BY MarkersDiffer DEF StoInit, FileFits, SavesFit, TxFits, Read
  <1>3. RowsFit
    BY NoPins DEF StoInit, RowsFit, RowsOfSaves
  <1> QED
    BY <1>1, <1>2, <1>3 DEF StoIInv

LEMMA LaunchStoreHolds == ASSUME StoIInv, LaunchStore PROVE StoIInv'
  <1>1. /\ ~running /\ running' = TRUE /\ pinList' \in PinLists
        /\ effort' \in 0 .. MaxSaves
        /\ UNCHANGED <<writing, temp, rowsKept, tx, meant, spoilt, meantPins, whole>>
    BY MarkersDiffer DEF LaunchStore, Try, PinsOf, StoIInv, StoTypeOK
  <1>2. writing = None /\ tx = None
    BY <1>1 DEF StoIInv, SavesFit
  <1>3. /\ settings' \in Settings /\ slips \subseteq slips'
        /\ slips' \subseteq slips \cup {"read", "rename"}
        /\ \/ file # Unreadable /\ file # Half /\ UNCHANGED <<file, backup>>
           \/ file \in {Half, Unreadable} /\ backup' = file /\ file' = None
           \/ slips' # {} /\ UNCHANGED <<file, backup>>
           \/ file = Half /\ UNCHANGED <<file, backup>>
    <2>1. CASE settings' = Read(file) /\ MoveAside
      BY <2>1, MarkersDiffer DEF Read, MoveAside
    <2>2. CASE ReadFails
      BY <2>2, MarkersDiffer DEF ReadFails
    <2> QED
      BY <2>1, <2>2 DEF LaunchStore
  <1>4. StoTypeOK'
    BY <1>1, <1>2, <1>3, MarkersDiffer DEF StoIInv, StoTypeOK
  <1>5. FileFits'
    BY <1>1, <1>3, MarkersDiffer DEF StoIInv, FileFits, Read
  <1>6. SavesFit'
    BY <1>1, <1>2, <1>3, MarkersDiffer DEF StoIInv, FileFits, SavesFit
  <1>7. TxFits' /\ RowsFit'
    BY <1>1, <1>2 DEF StoIInv, TxFits, RowsFit, RowsOfSaves
  <1> QED
    BY <1>4, <1>5, <1>6, <1>7 DEF StoIInv

\* What a save of settings leaves alone.
LEMMA PinsKeep ==
    ASSUME StoIInv, UNCHANGED pinVars
    PROVE  TxFits' /\ RowsFit'
  BY DEF pinVars, StoIInv, TxFits, RowsFit, WritesOf, RowsOfSaves

LEMMA SettingsHold ==
    ASSUME StoIInv, UpdateSettings \/ FillTemp \/ RenameTemp
    PROVE  StoIInv'
  <1>1. TxFits' /\ RowsFit' /\ UNCHANGED <<running, tx, pinList, backup, spoilt, slips>>
    <2>1. UNCHANGED pinVars /\ UNCHANGED <<running, backup, spoilt, slips>>
      BY DEF UpdateSettings, FillTemp, RenameTemp
    <2> QED
      BY <2>1, PinsKeep DEF pinVars
  <1>2. CASE UpdateSettings
    <2>1. /\ running /\ settings' \in Settings /\ writing = None
          /\ (temp' = Half /\ writing' = "fill") \/ UNCHANGED <<temp, writing>>
          /\ effort' \in 0 .. MaxSaves /\ UNCHANGED <<file, meant>>
      BY <1>2, MarkersDiffer DEF UpdateSettings, Idle, OpenTemp, Try, StoIInv, StoTypeOK
    <2> QED
      BY <1>1, <2>1, MarkersDiffer DEF StoIInv, StoTypeOK, FileFits, SavesFit, Read
  <1>3. CASE FillTemp
    <2>1. /\ running /\ UNCHANGED <<settings, file, meant, effort>>
          /\ \/ temp' = settings /\ writing' = "rename"
             \/ writing' = None /\ UNCHANGED temp
      BY <1>3, MarkersDiffer DEF FillTemp, StoIInv, SavesFit
    <2> QED
      BY <1>1, <2>1, MarkersDiffer DEF StoIInv, StoTypeOK, FileFits, SavesFit, Read
  <1>4. CASE RenameTemp
    <2>1. /\ running /\ writing' = None /\ UNCHANGED <<settings, effort>>
          /\ \/ file' = settings /\ temp' = None /\ meant' = settings
             \/ UNCHANGED <<file, temp, meant>>
      BY <1>4, MarkersDiffer DEF RenameTemp, StoIInv, SavesFit
    <2> QED
      BY <1>1, <2>1, MarkersDiffer DEF StoIInv, StoTypeOK, FileFits, SavesFit, Read
  <1> QED
    BY <1>2, <1>3, <1>4

\* What a save of pins leaves alone.
LEMMA FilesKeep ==
    ASSUME StoIInv, UNCHANGED <<running, settings, writing, fileVars>>, tx' # None => running,
           pinList' \in PinLists, effort' \in 0 .. MaxSaves
    PROVE  StoTypeOK' /\ FileFits' /\ SavesFit'
  BY DEF fileVars, StoIInv, StoTypeOK, FileFits, SavesFit, Read

LEMMA PinsHoldOn ==
    ASSUME StoIInv, SavePinned \/ Statement \/ Commit
    PROVE  StoIInv'
  <1>1. UNCHANGED <<running, settings, writing, fileVars>>
    BY DEF SavePinned, Statement, Commit
  <1>2. pinList \in PinLists /\ effort \in 0 .. MaxSaves
    BY DEF StoIInv, StoTypeOK
  <1>3. CASE SavePinned
    <2>1. /\ running /\ pinList' \in PinLists /\ meantPins' = meantPins \cup {pinList'}
          /\ tx' = [next |-> 0, rows |-> rowsKept, whole |-> TRUE]
          /\ effort' \in 0 .. MaxSaves /\ UNCHANGED <<rowsKept, whole>>
      BY <1>2, <1>3, MarkersDiffer DEF SavePinned, Try
    <2>2. StoTypeOK' /\ FileFits' /\ SavesFit'
      BY <1>1, <2>1, FilesKeep
    <2>3. Len(pinList') \in Nat
      BY <2>1, PinListIs
    <2>4. WritesOf(pinList', [next |-> 0, rows |-> rowsKept, whole |-> TRUE])
      BY <2>3 DEF WritesOf
    <2>7. /\ \A r, o \in rowsKept : r[1] = o[1] => r = o
          /\ \A r \in rowsKept : \E q \in meantPins' : \E i \in DOMAIN q : r[1] = q[i]
      BY <2>1, RowsOfMore DEF StoIInv, RowsFit
    <2>6. TxFits'
      BY <2>1, <2>4, <2>7 DEF TxFits, RowsOfSaves
    <2>5. RowsFit'
      BY <2>1, <2>7 DEF StoIInv, RowsFit, RowsOfSaves
    <2> QED
      BY <2>2, <2>5, <2>6 DEF StoIInv
  <1>4. CASE Statement
    <2>1. /\ tx # None /\ tx.next <= Len(pinList)
          /\ UNCHANGED <<pinList, rowsKept, effort, meantPins, whole>>
      BY <1>4 DEF Statement
    <2>2. /\ tx = [next |-> tx.next, rows |-> tx.rows, whole |-> tx.whole]
          /\ pinList \in meantPins /\ tx.next \in 0 .. Len(pinList) + 1 /\ running
          /\ RowsOfSaves(tx.rows)
          /\ tx.whole /\ tx.next > 0 =>
                 tx.rows = {<<pinList[i], i>> : i \in 1 .. tx.next - 1}
      BY <2>1 DEF StoIInv, TxFits, WritesOf, SavesFit
    <2>3. /\ Len(pinList) \in Nat
          /\ \A i, j \in 1 .. Len(pinList) : pinList[i] = pinList[j] => i = j
          /\ DOMAIN pinList = 1 .. Len(pinList)
      BY <1>2, PinListIs
    <2> DEFINE n == tx.next
               new == IF n = 0 THEN {} ELSE Inserted(tx.rows, <<pinList[n], n>>)
    <2>4. n \in 0 .. Len(pinList)
      BY <2>1, <2>2, <2>3
    <2>5. \/ tx' = [next |-> n + 1, rows |-> new, whole |-> tx.whole]
          \/ tx' = [next |-> n + 1, rows |-> tx.rows, whole |-> FALSE]
      BY <1>4, <2>2 DEF Statement
    <2>6. ASSUME tx.whole PROVE new = {<<pinList[i], i>> : i \in 1 .. n}
      <3>1. CASE n = 0
        BY <3>1
      <3>2. CASE n # 0
        <4>1. n \in 1 .. Len(pinList) /\ n > 0
          BY <2>3, <2>4, <3>2
        <4>2. tx.rows = {<<pinList[i], i>> : i \in 1 .. n - 1}
          BY <2>2, <2>6, <4>1
        <4>3. ~\E o \in tx.rows : o[1] = pinList[n]
          <5> SUFFICES ASSUME NEW i \in 1 .. n - 1, pinList[i] = pinList[n] PROVE FALSE
            BY <4>2
          <5>1. i \in 1 .. Len(pinList) /\ i # n
            BY <2>3, <4>1
          <5> QED
            BY <2>3, <4>1, <5>1
        <4>4. new = tx.rows \cup {<<pinList[n], n>>}
          BY <3>2, <4>3 DEF Inserted
        <4>5. \A i : i \in 1 .. n <=> i \in 1 .. n - 1 \/ i = n
          BY <2>3, <4>1
        <4> HIDE DEF new, n
        <4> QED
          BY <4>2, <4>4, <4>5
      <3> QED
        BY <3>1, <3>2
    <2>10. RowsOfSaves(new)
      <3>1. CASE n = 0
        BY <3>1 DEF RowsOfSaves
      <3>2. CASE n # 0
        <4>1. n \in DOMAIN pinList
          BY <2>3, <2>4, <3>2
        <4> QED
          BY <2>2, <3>2, <4>1, RowsOfInsert
      <3> QED
        BY <3>1, <3>2
    <2> HIDE DEF n, new
    <2>7. TxFits'
      <3>1. n + 1 \in 0 .. Len(pinList) + 1 /\ \A m : m = n + 1 => m - 1 = n
        BY <2>3, <2>4
      <3>2. ASSUME NEW t, \/ t = [next |-> n + 1, rows |-> new, whole |-> tx.whole]
                          \/ t = [next |-> n + 1, rows |-> tx.rows, whole |-> FALSE]
            PROVE  WritesOf(pinList, t)
        <4>1. /\ t = [next |-> t.next, rows |-> t.rows, whole |-> t.whole]
              /\ t.next = n + 1
              /\ t.whole => tx.whole /\ t.rows = new
          BY <3>2
        <4>2. t.next - 1 = n
          BY <3>1, <4>1, Zenon
        <4>3. t.whole => t.rows = {<<pinList[i], i>> : i \in 1 .. t.next - 1}
          BY <2>6, <4>1, <4>2, Zenon
        <4> QED
          BY <3>1, <4>1, <4>3 DEF WritesOf
      <3>3. WritesOf(pinList, tx') /\ RowsOfSaves(tx'.rows)
        <4>1. tx'.rows = new \/ tx'.rows = tx.rows
          BY <2>5
        <4> QED
          BY <2>2, <2>5, <2>10, <3>2, <4>1
      <3> QED
        BY <2>1, <2>2, <3>3 DEF TxFits, RowsOfSaves
    <2>8. StoTypeOK' /\ FileFits' /\ SavesFit'
      BY <1>1, <1>2, <2>1, <2>2, FilesKeep
    <2>9. RowsFit'
      BY <2>1 DEF StoIInv, RowsFit, RowsOfSaves
    <2> QED
      BY <2>7, <2>8, <2>9 DEF StoIInv
  <1>5. CASE Commit
    <2>1. /\ tx # None /\ tx.next > Len(pinList) /\ tx' = None
          /\ \/ rowsKept' = tx.rows /\ whole' = tx.whole
             \/ UNCHANGED <<rowsKept, whole>>
          /\ UNCHANGED <<pinList, effort, meantPins>>
      BY <1>5 DEF Commit
    <2>2. /\ pinList \in meantPins /\ tx.next \in 0 .. Len(pinList) + 1
          /\ tx.whole /\ tx.next > 0 =>
                 tx.rows = {<<pinList[i], i>> : i \in 1 .. tx.next - 1}
          /\ RowsOfSaves(tx.rows)
      BY <2>1 DEF StoIInv, TxFits, WritesOf
    <2>3. Len(pinList) \in Nat /\ DOMAIN pinList = 1 .. Len(pinList)
      BY <1>2, PinListIs
    <2>4. tx.next > 0 /\ tx.next - 1 = Len(pinList)
      BY <2>1, <2>2, <2>3
    <2>5. tx.whole => tx.rows = AsRows(pinList)
      BY <2>2, <2>3, <2>4 DEF AsRows
    <2>6. RowsFit'
      BY <1>2, <2>1, <2>2, <2>5 DEF StoIInv, RowsFit, RowsOfSaves
    <2>7. StoTypeOK' /\ FileFits' /\ SavesFit'
      BY <1>1, <1>2, <2>1, FilesKeep
    <2> QED
      BY <2>1, <2>6, <2>7 DEF StoIInv, TxFits
  <1> QED
    BY <1>3, <1>4, <1>5

\* Killed at any point: nothing of a save that is under way has reached what is read.
LEMMA KilledHolds == ASSUME StoIInv, Killed PROVE StoIInv'
  <1>1. /\ running' = FALSE /\ writing' = None /\ tx' = None
        /\ UNCHANGED <<settings, fileVars, pinList, rowsKept, effort, meantPins, whole>>
    BY DEF Killed
  <1>2. TxFits' /\ RowsFit'
    BY <1>1 DEF StoIInv, TxFits, RowsFit, RowsOfSaves
  <1> QED
    BY <1>1, <1>2, MarkersDiffer
       DEF fileVars, StoIInv, StoTypeOK, FileFits, SavesFit, Read

LEMMA SiblingSavesHolds == ASSUME StoIInv, SiblingSaves PROVE StoIInv'
  <1>1. /\ writing = None /\ tx = None /\ effort' \in 0 .. MaxSaves
        /\ UNCHANGED <<running, settings, writing, pinList, tx, spoilt>>
    BY MarkersDiffer DEF SiblingSaves, Idle, Try, StoIInv, StoTypeOK
  <1>2. TxFits'
    BY <1>1 DEF TxFits
  <1>3. CASE /\ \E s \in Settings : file' = s /\ meant' = s
             /\ IF file = Unreadable
                THEN \/ backup' = file /\ UNCHANGED slips
                     \/ /\ UNCHANGED backup
                        /\ \E call \in {"read", "rename"} : slips' = slips \cup {call}
                ELSE UNCHANGED <<backup, slips>>
             /\ temp' = None
             /\ UNCHANGED <<rowsKept, meantPins, whole>>
    <2>1. RowsFit'
      BY <1>3 DEF StoIInv, RowsFit, RowsOfSaves
    <2>2. /\ file' \in Settings /\ meant' = file' /\ temp' = None
          /\ backup' \in {backup, Unreadable}
          /\ slips \subseteq slips' /\ slips' \subseteq slips \cup {"read", "rename"}
          /\ slips' = {} /\ file = Unreadable => backup' = Unreadable
          /\ file # Unreadable => backup' = backup
      BY <1>3
    <2> QED
      BY <1>1, <1>2, <2>1, <2>2, MarkersDiffer
         DEF StoIInv, StoTypeOK, FileFits, SavesFit, Read
  <1>4. CASE /\ \E q \in PinLists : rowsKept' = AsRows(q) /\ meantPins' = meantPins \cup {q}
             /\ UNCHANGED <<file, temp, backup, meant, slips>>
    <2>1. RowsFit'
      <3>1. PICK q \in PinLists : rowsKept' = AsRows(q) /\ meantPins' = meantPins \cup {q}
        BY <1>4
      <3>2. (q \in meantPins)'
        BY <3>1
      <3>3. RowsOfSaves(rowsKept)'
        BY <3>1, <3>2, RowsOfListThen
      <3> QED
        BY <3>1, <3>2, <3>3 DEF RowsFit
    <2> QED
      BY <1>1, <1>2, <1>4, <2>1
         DEF StoIInv, StoTypeOK, FileFits, SavesFit, Read
  <1> QED
    BY <1>3, <1>4 DEF SiblingSaves

LEMMA HandEditHolds == ASSUME StoIInv, HandEdit PROVE StoIInv'
  <1>1. /\ ~running /\ effort' \in 0 .. MaxSaves
        /\ \/ /\ \E s \in Settings : file' = s /\ meant' = s
              /\ spoilt' = (spoilt /\ file # Unreadable) /\ UNCHANGED slips
           \/ spoilt' = TRUE /\ slips' = {} /\ file' = Unreadable /\ meant' = Default
        /\ UNCHANGED <<running, settings, writing, temp, backup, pinVars>>
    BY MarkersDiffer DEF HandEdit, Try, StoIInv, StoTypeOK
  <1>2. TxFits' /\ RowsFit' /\ UNCHANGED <<tx, pinList>>
    BY <1>1, PinsKeep DEF pinVars
  <1> QED
    BY <1>1, <1>2, MarkersDiffer DEF StoIInv, StoTypeOK, FileFits, SavesFit, Read

LEMMA StoStepHolds == StoIInv /\ [StoNext]_stoVars => StoIInv'
  <1> SUFFICES ASSUME StoIInv, [StoNext]_stoVars PROVE StoIInv'
    OBVIOUS
  <1>1. CASE UNCHANGED stoVars
    BY <1>1 DEF stoVars, StoIInv, StoTypeOK, FileFits, SavesFit, TxFits, RowsFit, WritesOf,
                RowsOfSaves, Read
  <1>2. CASE StoNext
    BY <1>2, LaunchStoreHolds, SettingsHold, PinsHoldOn, KilledHolds, SiblingSavesHolds,
       HandEditHolds DEF StoNext
  <1> QED
    BY <1>1, <1>2

\* Killed between any two system calls or statements, and with any of them failing,
\* rspace reads at the next launch the settings last saved, and as pins names that were
\* pinned, each once: one list as it was saved, if no statement failed.  A text nobody
\* can read is kept if the launches could read it and move it (settings.rs,
\* Settings::write and Settings::read; db.rs, save_pinned).
THEOREM StateAlwaysSurvives == StoSpec => []StateSurvives
  <1>1. StoIInv => StateSurvives
    <2> SUFFICES ASSUME StoIInv PROVE StateSurvives
      OBVIOUS
    <2>1. ASSUME whole PROVE PinsOf(rowsKept) # {} /\ PinsOf(rowsKept) \subseteq meantPins
      <3>1. PICK q \in PinLists \cap meantPins : rowsKept = AsRows(q)
        BY <2>1 DEF StoIInv, RowsFit
      <3>2. PinsOf(rowsKept) = {q}
        BY <3>1, RowsTellTheList
      <3> QED
        BY <3>1, <3>2
    <2> QED
      BY <2>1 DEF StoIInv, FileFits, RowsFit, StateSurvives
  <1> QED
    BY <1>1, StoInitHolds, StoStepHolds, PTL DEF StoSpec

-----------------------------------------------------------------------------
(* File operations.  A place is a drive and a sequence of labels; what a call   *)
(* takes from a tree is below a place its job had confirmed, or arrives where   *)
(* the call sends it.                                                           *)

Locations == Drives \X Seq(Labels)

\* Prefixes, as the labels they share.
LEMMA PrefixIs ==
    ASSUME NEW s \in Seq(Labels), NEW u \in Seq(Labels)
    PROVE  IsPrefix(s, u) <=> Len(s) <= Len(u) /\ \A i \in 1 .. Len(s) : s[i] = u[i]
  <1>1. /\ Len(s) \in Nat /\ DOMAIN s = 1 .. Len(s) /\ s \in [1 .. Len(s) -> Labels]
        /\ Len(u) \in Nat /\ DOMAIN u = 1 .. Len(u) /\ u \in [1 .. Len(u) -> Labels]
    BY LenProperties
  <1>2. CASE Len(s) <= Len(u)
    <2>1. /\ SubSeq(s, 1, Len(s)) = [i \in 1 .. Len(s) |-> s[i]]
          /\ SubSeq(u, 1, Len(s)) = [i \in 1 .. Len(s) |-> u[i]]
      OBVIOUS
    <2> QED
      BY <1>2, <2>1 DEF IsPrefix
  <1>3. CASE ~(Len(s) <= Len(u))
    BY <1>3 DEF IsPrefix
  <1> QED
    BY <1>2, <1>3

LEMMA PrefixFacts ==
    ASSUME NEW s \in Seq(Labels), NEW u \in Seq(Labels), NEW r \in Seq(Labels)
    PROVE  /\ IsPrefix(s, s)
           /\ IsPrefix(s, u) /\ IsPrefix(r, u) => IsPrefix(s, r) \/ IsPrefix(r, s)
           /\ IsPrefix(s, u) /\ IsPrefix(u, r) => IsPrefix(s, r)
           /\ IsPrefix(s, u) /\ Len(s) = Len(u) => s = u
  <1>1. Len(s) \in Nat /\ Len(u) \in Nat /\ Len(r) \in Nat
    OBVIOUS
  <1>2. IsPrefix(s, s)
    BY <1>1, PrefixIs
  <1>3. ASSUME IsPrefix(s, u), IsPrefix(r, u) PROVE IsPrefix(s, r) \/ IsPrefix(r, s)
    BY <1>1, <1>3, PrefixIs
  <1>4. ASSUME IsPrefix(s, u), IsPrefix(u, r) PROVE IsPrefix(s, r)
    BY <1>1, <1>4, PrefixIs
  <1>5. ASSUME IsPrefix(s, u), Len(s) = Len(u) PROVE s = u
    <2>1. \A i \in 1 .. Len(s) : s[i] = u[i]
      BY <1>5, PrefixIs
    <2> QED
      BY <1>5, <2>1, SeqEqual
  <1> QED
    BY <1>2, <1>3, <1>4, <1>5

LEMMA LocationsAre ==
    /\ \A p \in Locations : p = <<p[1], p[2]>> /\ p[1] \in Drives /\ p[2] \in Seq(Labels)
    /\ \A d \in Drives, s \in Seq(Labels) : <<d, s>> \in Locations
    /\ Places \subseteq Locations /\ Roots \subseteq Locations
    /\ \A p \in Places : p \notin Roots /\ p[2] # <<>> /\ Len(p[2]) \in Nat \ {0}
    /\ \A p \in Locations : p \in Roots <=> p[2] = <<>>
  <1>1. /\ \A p \in Locations : p = <<p[1], p[2]>> /\ p[1] \in Drives /\ p[2] \in Seq(Labels)
        /\ \A d \in Drives, s \in Seq(Labels) : <<d, s>> \in Locations
    BY DEF Locations
  <1>2. ASSUME NEW p \in Places
        PROVE  p \in Locations /\ p[2] # <<>> /\ Len(p[2]) \in Nat \ {0}
    <2>1. PICK n \in 1 .. MaxDepth : p[2] \in [1 .. n -> Labels] /\ p[1] \in Drives /\ p = <<p[1], p[2]>>
      BY DEF Places
    <2>2. n \in Nat /\ n # 0
      BY OperationsAssumption
    <2>3. p[2] \in Seq(Labels) /\ Len(p[2]) = n
      BY <2>1, <2>2
    <2> QED
      BY <1>1, <2>1, <2>2, <2>3
  <1>3. <<>> \in Seq(Labels)
    OBVIOUS
  <1>4. Roots \subseteq Locations
    BY <1>1, <1>3 DEF Roots, Root
  <1>5. ASSUME NEW p \in Locations PROVE p \in Roots <=> p[2] = <<>>
    BY <1>1 DEF Roots, Root
  <1> QED
    BY <1>1, <1>2, <1>4, <1>5

LEMMA WithinIs ==
    ASSUME NEW p \in Locations, NEW a \in Locations, NEW b \in Locations
    PROVE  /\ Within(p, p)
           /\ Within(p, a) /\ Within(p, b) => Within(a, b) \/ Within(b, a)
           /\ Within(p, a) /\ Within(a, b) => Within(p, b)
           /\ Inside(p, a) <=> Within(p, a) /\ Len(a[2]) < Len(p[2])
  <1>1. /\ p = <<p[1], p[2]>> /\ p[2] \in Seq(Labels)
        /\ a = <<a[1], a[2]>> /\ a[2] \in Seq(Labels)
        /\ b = <<b[1], b[2]>> /\ b[2] \in Seq(Labels)
    BY LocationsAre
  <1>2. Within(p, p)
    BY <1>1, PrefixFacts DEF Within
  <1>3. ASSUME Within(p, a), Within(p, b) PROVE Within(a, b) \/ Within(b, a)
    BY <1>1, <1>3, PrefixFacts DEF Within
  <1>4. ASSUME Within(p, a), Within(a, b) PROVE Within(p, b)
    BY <1>1, <1>4, PrefixFacts DEF Within
  <1>5. Inside(p, a) <=> Within(p, a) /\ Len(a[2]) < Len(p[2])
    <2>1. CASE Within(p, a)
      <3>1. Len(a[2]) <= Len(p[2]) /\ Len(a[2]) \in Nat /\ Len(p[2]) \in Nat /\ p[1] = a[1]
        BY <1>1, <2>1, PrefixIs DEF Within
      <3>2. Len(a[2]) = Len(p[2]) => p = a
        BY <1>1, <2>1, <3>1, PrefixFacts DEF Within
      <3>3. Len(a[2]) = Len(p[2]) <=> p = a
        BY <3>2
      <3> QED
        BY <2>1, <3>1, <3>3 DEF Inside
    <2>2. CASE ~Within(p, a)
      BY <2>2 DEF Inside
    <2> QED
      BY <2>1, <2>2
  <1> QED
    BY <1>2, <1>3, <1>4, <1>5

\* A label below a location, and the location above one.
LEMMA JoinIs ==
    ASSUME NEW p \in Locations, NEW x \in Labels \cup {None}
    PROVE  /\ Join(p, x) \in Locations /\ Join(p, None) = p
           /\ x # None => /\ Join(p, x)[2] = Append(p[2], x) /\ Join(p, x)[1] = p[1]
                          /\ Parent(Join(p, x)) = p /\ Leaf(Join(p, x)) = x
                          /\ Inside(Join(p, x), p)
  <1>1. p = <<p[1], p[2]>> /\ p[1] \in Drives /\ p[2] \in Seq(Labels)
    BY LocationsAre
  <1>2. Join(p, None) = p
    BY <1>1 DEF Join
  <1>3. ASSUME x # None
        PROVE  /\ Join(p, x) \in Locations /\ Join(p, x)[2] = Append(p[2], x) /\ Join(p, x)[1] = p[1]
               /\ Parent(Join(p, x)) = p /\ Leaf(Join(p, x)) = x
               /\ Inside(Join(p, x), p)
    <2> DEFINE s == p[2]
               r == Append(s, x)
    <2>1. /\ s \in Seq(Labels) /\ Len(s) \in Nat
          /\ r \in Seq(Labels) /\ Len(r) = Len(s) + 1 /\ r[Len(r)] = x
          /\ \A i \in 1 .. Len(s) : r[i] = s[i]
      BY <1>1, <1>3, AppendProperties
    <2>2. Join(p, x) = <<p[1], r>>
      BY <1>3 DEF Join
    <2> HIDE DEF s, r
    <2>3. Front(r) = s
      <3>1. Front(r) \in Seq(Labels) /\ Len(Front(r)) = Len(s)
        BY <2>1, SubSeqProperties DEF Front
      <3>2. \A i \in 1 .. Len(s) : Front(r)[i] = s[i]
        BY <2>1, SubSeqProperties DEF Front
      <3> QED
        BY <2>1, <3>1, <3>2, SeqEqual
    <2>4. r # <<>>
      BY <2>1
    <2>5. Parent(<<p[1], r>>) = p
      BY <1>1, <2>3, <2>4 DEF Parent, s
    <2>6. Leaf(<<p[1], r>>) = x
      BY <2>1 DEF Leaf, Last
    <2>7. <<p[1], r>> \in Locations
      BY <1>1, <2>1, LocationsAre
    <2>8. Within(<<p[1], r>>, p)
      BY <2>1, PrefixIs, SMTT(20) DEF Within, s
    <2>9. Inside(<<p[1], r>>, p)
      <3>1. Len(p[2]) < Len(r)
        BY <2>1 DEF s
      <3> QED
        BY <2>7, <2>8, <3>1, WithinIs
    <2> QED
      BY <2>2, <2>5, <2>6, <2>7, <2>9 DEF r, s
  <1>4. Join(p, x) \in Locations
    BY <1>2, <1>3
  <1> QED
    BY <1>2, <1>3, <1>4

LEMMA ParentIs ==
    ASSUME NEW p \in Locations
    PROVE  /\ Parent(p) \in Locations
           /\ p[2] = <<>> => Parent(p) = p
           /\ p[2] # <<>> => /\ Leaf(p) \in Labels /\ p = <<p[1], Append(Parent(p)[2], Leaf(p))>>
                             /\ Len(p[2]) = Len(Parent(p)[2]) + 1
                             /\ Parent(p)[1] = p[1]
                             /\ \A i \in 1 .. Len(Parent(p)[2]) : Parent(p)[2][i] = p[2][i]
  <1>1. p = <<p[1], p[2]>> /\ p[1] \in Drives /\ p[2] \in Seq(Labels)
    BY LocationsAre
  <1>2. CASE p[2] = <<>>
    BY <1>1, <1>2 DEF Parent
  <1>3. CASE p[2] # <<>>
    <2> DEFINE s == p[2]
               f == Front(s)
    <2>1. s \in Seq(Labels) /\ s # <<>> /\ Len(s) \in Nat \ {0}
      BY <1>1, <1>3
    <2>2. Parent(p) = <<p[1], f>>
      BY <1>3 DEF Parent
    <2>3. Leaf(p) = s[Len(s)]
      BY DEF Leaf, Last
    <2> HIDE DEF s
    <2>4. /\ f \in Seq(Labels) /\ Len(f) = Len(s) - 1
          /\ \A i \in 1 .. Len(f) : f[i] = s[i]
      <3>1. ASSUME NEW n \in Nat, n = Len(s) - 1
            PROVE  /\ SubSeq(s, 1, n) \in Seq(Labels) /\ Len(SubSeq(s, 1, n)) = n
                   /\ \A i \in 1 .. n : SubSeq(s, 1, n)[i] = s[i]
        <4>1. \A i \in 1 .. n : s[i] \in Labels
          BY <2>1, <3>1, ElementOfSeq
        <4>2. /\ SubSeq(s, 1, n) \in Seq(Labels)
              /\ Len(SubSeq(s, 1, n)) = IF 1 <= n THEN n - 1 + 1 ELSE 0
              /\ \A i \in 1 .. n - 1 + 1 : SubSeq(s, 1, n)[i] = s[1 + i - 1]
          BY <4>1, SubSeqProperties
        <4> QED
          BY <4>2
      <3>2. Len(s) - 1 \in Nat
        BY <2>1
      <3> QED
        BY <3>1, <3>2 DEF Front
    <2> HIDE DEF f
    <2>5. s[Len(s)] \in Labels
      BY <2>1
    <2>6. Append(f, s[Len(s)]) = s
      <3>1. /\ Append(f, s[Len(s)]) \in Seq(Labels) /\ Len(Append(f, s[Len(s)])) = Len(s)
            /\ \A i \in 1 .. Len(f) : Append(f, s[Len(s)])[i] = f[i]
            /\ Append(f, s[Len(s)])[Len(s)] = s[Len(s)]
        BY <2>1, <2>4, <2>5, AppendProperties
      <3>2. \A i \in 1 .. Len(s) : i \in 1 .. Len(f) \/ i = Len(s)
        BY <2>1, <2>4
      <3> QED
        BY <2>1, <2>4, <3>1, <3>2, SeqEqual
    <2>7. <<p[1], f>> \in Locations
      BY <1>1, <2>4, LocationsAre
    <2>8. Len(s) = Len(f) + 1
      BY <2>1, <2>4
    <2> QED
      BY <1>1, <1>3, <2>2, <2>3, <2>4, <2>5, <2>6, <2>7, <2>8 DEF s
  <1> QED
    BY <1>2, <1>3

\* What comes after the first n labels, as it is put below others.
LEMMA PieceAfter ==
    ASSUME NEW s \in Seq(Labels), NEW n \in Nat, n <= Len(s)
    PROVE  LET r == SubSeq(s, n + 1, Len(s))
           IN  /\ r \in Seq(Labels) /\ Len(r) = Len(s) - n
               /\ \A i \in 1 .. Len(s) - n : r[i] = s[n + i]
  <1>1. ASSUME NEW m \in Nat, m = Len(s)
        PROVE  LET r == SubSeq(s, n + 1, m)
               IN  /\ r \in Seq(Labels) /\ Len(r) = m - n
                   /\ \A i \in 1 .. m - n : r[i] = s[n + i]
    <2>1. \A i \in 1 .. m : s[i] \in Labels
      BY <1>1, ElementOfSeq
    <2>2. \A i \in n + 1 .. m : s[i] \in Labels
      BY <2>1
    <2>i. n + 1 \in Int /\ m \in Int
      OBVIOUS
    <2>3. /\ SubSeq(s, n + 1, m) \in Seq(Labels)
          /\ Len(SubSeq(s, n + 1, m)) = IF n + 1 <= m THEN m - (n + 1) + 1 ELSE 0
          /\ \A i \in 1 .. m - (n + 1) + 1 : SubSeq(s, n + 1, m)[i] = s[(n + 1) + i - 1]
      BY <2>2, <2>i, SubSeqProperties
    <2>4. /\ m - (n + 1) + 1 = m - n /\ (~(n + 1 <= m) => m - n = 0)
          /\ \A i \in 1 .. m - n : (n + 1) + i - 1 = n + i
      BY <1>1
    <2> QED
      BY <2>3, <2>4
  <1>2. Len(s) \in Nat
    BY LenProperties
  <1> QED
    BY <1>1, <1>2

LEMMA PutAfter ==
    ASSUME NEW s \in Seq(Labels), NEW u \in Seq(Labels)
    PROVE  /\ s \o u \in Seq(Labels) /\ Len(s \o u) = Len(s) + Len(u)
           /\ \A i \in 1 .. Len(s) : (s \o u)[i] = s[i]
           /\ \A i \in 1 .. Len(u) : (s \o u)[Len(s) + i] = u[i]
  <1>1. ASSUME NEW m \in Nat, NEW n \in Nat
        PROVE  /\ \A i \in 1 .. m : i \in 1 .. m + n /\ i <= m
               /\ \A i \in 1 .. n : m + i \in 1 .. m + n /\ ~(m + i <= m) /\ m + i - m = i
    OBVIOUS
  <1>2. Len(s) \in Nat /\ Len(u) \in Nat
    BY LenProperties
  <1>3. /\ s \o u \in Seq(Labels) /\ Len(s \o u) = Len(s) + Len(u)
        /\ \A i \in 1 .. Len(s) + Len(u) :
               (s \o u)[i] = IF i <= Len(s) THEN s[i] ELSE u[i - Len(s)]
    BY ConcatProperties
  <1>4. \A i \in 1 .. Len(s) : i \in 1 .. Len(s) + Len(u) /\ i <= Len(s)
    BY <1>1, <1>2
  <1>5. \A i \in 1 .. Len(u) :
            /\ Len(s) + i \in 1 .. Len(s) + Len(u) /\ ~(Len(s) + i <= Len(s))
            /\ Len(s) + i - Len(s) = i
    BY <1>1, <1>2
  <1>6. ASSUME NEW i \in 1 .. Len(s) PROVE (s \o u)[i] = s[i]
    BY <1>3, <1>4
  <1>7. ASSUME NEW i \in 1 .. Len(u) PROVE (s \o u)[Len(s) + i] = u[i]
    <2> DEFINE k == Len(s) + i
    <2>1. k \in 1 .. Len(s) + Len(u) /\ ~(k <= Len(s)) /\ k - Len(s) = i
      BY <1>5
    <2> HIDE DEF k
    <2>2. (s \o u)[k] = u[k - Len(s)]
      BY <1>3, <2>1
    <2> QED
      BY <2>1, <2>2 DEF k
  <1> QED
    BY <1>3, <1>6, <1>7

LEMMA RebaseIs ==
    ASSUME NEW p \in Locations, NEW a \in Locations, NEW b \in Locations, Inside(p, a)
    PROVE  /\ Rebase(p, a, b) \in Locations /\ Inside(Rebase(p, a, b), b)
           /\ Rebase(Rebase(p, a, b), b, a) = p
  <1> DEFINE P == p[2]
             A == a[2]
             B == b[2]
             r == SubSeq(P, Len(A) + 1, Len(P))
             Q == B \o r
             z == SubSeq(Q, Len(B) + 1, Len(Q))
  <1>1. /\ p = <<p[1], P>> /\ P \in Seq(Labels) /\ Len(P) \in Nat /\ p[1] = a[1]
        /\ A \in Seq(Labels) /\ Len(A) \in Nat
        /\ b = <<b[1], B>> /\ B \in Seq(Labels) /\ Len(B) \in Nat /\ b[1] \in Drives
        /\ Len(A) < Len(P) /\ \A i \in 1 .. Len(A) : A[i] = P[i]
    <2>1. Within(p, a) /\ Len(A) < Len(P)
      BY WithinIs
    <2> QED
      BY <2>1, LocationsAre, PrefixIs, LenProperties DEF Within
  <1>q. Rebase(p, a, b) = <<b[1], Q>> /\ Rebase(<<b[1], Q>>, b, a) = <<a[1], A \o z>>
    BY DEF Rebase
  <1> HIDE DEF P, A, B
  <1>2. /\ r \in Seq(Labels) /\ Len(r) = Len(P) - Len(A)
        /\ \A i \in 1 .. Len(P) - Len(A) : r[i] = P[Len(A) + i]
    BY <1>1, PieceAfter
  <1> HIDE DEF r
  <1>3. /\ Q \in Seq(Labels) /\ Len(Q) = Len(B) + Len(r)
        /\ \A i \in 1 .. Len(B) : Q[i] = B[i]
        /\ \A i \in 1 .. Len(r) : Q[Len(B) + i] = r[i]
    BY <1>1, <1>2, PutAfter
  <1> HIDE DEF Q
  <1>4. z \in Seq(Labels) /\ Len(z) = Len(r) /\ \A i \in 1 .. Len(r) : z[i] = Q[Len(B) + i]
    BY <1>1, <1>2, <1>3, PieceAfter, SMTT(20)
  <1> HIDE DEF z
  <1>5. z = r
    <2>1. \A i \in 1 .. Len(r) : z[i] = r[i]
      BY <1>3, <1>4, Zenon
    <2> QED
      BY <1>2, <1>4, <2>1, SeqEqual
  <1>6. A \o r = P
    <2>1. /\ A \o r \in Seq(Labels) /\ Len(A \o r) = Len(A) + Len(r)
          /\ \A i \in 1 .. Len(A) : (A \o r)[i] = A[i]
          /\ \A i \in 1 .. Len(r) : (A \o r)[Len(A) + i] = r[i]
      BY <1>1, <1>2, PutAfter
    <2>2. ASSUME NEW i \in 1 .. Len(P) PROVE (A \o r)[i] = P[i]
      <3>1. CASE i <= Len(A)
        BY <1>1, <2>1, <3>1
      <3>2. CASE ~(i <= Len(A))
        <4>1. i - Len(A) \in 1 .. Len(P) - Len(A) /\ Len(A) + (i - Len(A)) = i
          BY <1>1, <3>2
        <4>2. (A \o r)[Len(A) + (i - Len(A))] = P[Len(A) + (i - Len(A))]
          BY <1>2, <2>1, <4>1, Zenon
        <4> QED
          BY <4>1, <4>2
      <3> QED
        BY <3>1, <3>2
    <2>3. Len(A \o r) = Len(P)
      BY <1>1, <1>2, <2>1
    <2> QED
      BY <1>1, <2>1, <2>2, <2>3, SeqEqual
  <1>7. <<b[1], Q>> \in Locations
    BY <1>1, <1>3, LocationsAre
  <1>8. Inside(<<b[1], Q>>, b)
    <2>1. Len(B) <= Len(Q) /\ Len(B) < Len(Q)
      BY <1>1, <1>2, <1>3
    <2>2. Within(<<b[1], Q>>, b)
      BY <1>1, <1>3, <2>1, PrefixIs DEF Within, B
    <2> QED
      BY <1>7, <2>1, <2>2, WithinIs DEF B
  <1>9. <<a[1], A \o z>> = p
    BY <1>1, <1>5, <1>6
  <1> QED
    BY <1>q, <1>7, <1>8, <1>9

LEMMA RebaseJoin ==
    ASSUME NEW a \in Locations, NEW b \in Locations, NEW x \in Labels, x # None
    PROVE  Rebase(Join(a, x), a, b) = Join(b, x)
  <1> DEFINE A == a[2]
             B == b[2]
             P == Append(A, x)
             r == SubSeq(P, Len(A) + 1, Len(P))
  <1>1. /\ A \in Seq(Labels) /\ Len(A) \in Nat /\ B \in Seq(Labels) /\ Len(B) \in Nat
    BY LocationsAre, LenProperties
  <1>2. /\ Join(a, x) = <<a[1], P>> /\ Join(b, x) = <<b[1], Append(B, x)>>
        /\ Rebase(<<a[1], P>>, a, b) = <<b[1], B \o r>>
    BY DEF Join, Rebase
  <1> HIDE DEF A, B
  <1>3. P \in Seq(Labels) /\ Len(P) = Len(A) + 1 /\ P[Len(A) + 1] = x
    BY <1>1, AppendProperties
  <1> HIDE DEF P
  <1>4. r \in Seq(Labels) /\ Len(r) = 1 /\ r[1] = x
    <2>1. Len(P) - Len(A) = 1 /\ Len(A) <= Len(P) /\ 1 \in 1 .. 1
      BY <1>1, <1>3
    <2>2. r \in Seq(Labels) /\ Len(r) = 1 /\ r[1] = P[Len(A) + 1]
      BY <1>1, <1>3, <2>1, PieceAfter
    <2> QED
      BY <1>3, <2>2
  <1> HIDE DEF r
  <1>5. B \o r = Append(B, x)
    <2>1. /\ B \o r \in Seq(Labels) /\ Len(B \o r) = Len(B) + 1
          /\ \A i \in 1 .. Len(B) : (B \o r)[i] = B[i]
          /\ (B \o r)[Len(B) + 1] = x
      <3>1. 1 \in 1 .. Len(r)
        BY <1>4
      <3> QED
        BY <1>1, <1>4, <3>1, PutAfter, SMTT(20)
    <2>2. /\ Append(B, x) \in Seq(Labels) /\ Len(Append(B, x)) = Len(B) + 1
          /\ \A i \in 1 .. Len(B) : Append(B, x)[i] = B[i]
          /\ Append(B, x)[Len(B) + 1] = x
      BY <1>1, AppendProperties
    <2>3. ASSUME NEW i \in 1 .. Len(B) + 1 PROVE (B \o r)[i] = Append(B, x)[i]
      <3>1. CASE i <= Len(B)
        BY <1>1, <2>1, <2>2, <3>1
      <3>2. CASE i = Len(B) + 1
        BY <2>1, <2>2, <3>2
      <3>3. ASSUME NEW n \in Nat, NEW m \in 1 .. n + 1 PROVE m <= n \/ m = n + 1
        OBVIOUS
      <3>4. i <= Len(B) \/ i = Len(B) + 1
        BY <1>1, <3>3
      <3> QED
        BY <3>1, <3>2, <3>4
    <2> QED
      BY <2>1, <2>2, <2>3, SeqEqual
  <1> QED
    BY <1>2, <1>5

LEMMA AncestorsAre ==
    ASSUME NEW q \in Locations, NEW x
    PROVE  x \in AncestorsOf(q) <=> x \in Locations \ Roots /\ Inside(q, x)
  <1> DEFINE Q == q[2]
  <1>1. q = <<q[1], Q>> /\ q[1] \in Drives /\ Q \in Seq(Labels) /\ Len(Q) \in Nat
    BY LocationsAre, LenProperties
  <1> HIDE DEF Q
  <1>2. ASSUME NEW n \in 1 .. Len(Q) - 1, x = <<q[1], SubSeq(Q, 1, n)>>
        PROVE  x \in Locations \ Roots /\ Inside(q, x)
    <2> DEFINE s == SubSeq(Q, 1, n)
    <2>1. s \in Seq(Labels) /\ Len(s) = n /\ \A i \in 1 .. n : s[i] = Q[i]
      <3>1. \A i \in 1 .. Len(Q) : Q[i] \in Labels
        BY <1>1, ElementOfSeq
      <3>2. \A i \in 1 .. n : Q[i] \in Labels
        BY <1>1, <3>1
      <3>3. 1 <= n /\ n - 1 + 1 = n /\ \A i \in 1 .. n : 1 + i - 1 = i
        BY <1>1
      <3> QED
        BY <1>1, <3>2, <3>3, SubSeqProperties
    <2> HIDE DEF s
    <2>2. x = <<q[1], s>> /\ x \in Locations /\ s # <<>>
      <3>1. x = <<q[1], s>>
        BY <1>2 DEF s
      <3>2. s # <<>>
        BY <1>1, <2>1, EmptySeq
      <3> QED
        BY <1>1, <2>1, <3>1, <3>2, LocationsAre
    <2>3. x \notin Roots
      BY <2>2, LocationsAre
    <2>4. Len(s) <= Len(Q) /\ Len(s) < Len(Q)
      BY <1>1, <2>1
    <2>5. Within(q, x)
      BY <1>1, <2>1, <2>2, <2>4, PrefixIs DEF Within, Q
    <2> QED
      BY <2>2, <2>3, <2>4, <2>5, WithinIs DEF Q
  <1>3. ASSUME x \in Locations \ Roots, Inside(q, x)
        PROVE  \E n \in 1 .. Len(Q) - 1 : x = <<q[1], SubSeq(Q, 1, n)>>
    <2> DEFINE s == x[2]
    <2>1. x = <<x[1], s>> /\ s \in Seq(Labels) /\ s # <<>> /\ Len(s) \in Nat /\ Len(s) # 0
      BY <1>3, LocationsAre, LenProperties, EmptySeq
    <2>2. Within(q, x) /\ Len(s) < Len(Q)
      BY <1>3, WithinIs DEF Q
    <2>3. x[1] = q[1] /\ IsPrefix(s, Q)
      BY <2>2 DEF Within, Q
    <2> HIDE DEF s
    <2>4. SubSeq(s, 1, Len(s)) = s
      BY <2>1, SubSeqFull
    <2>5. s = SubSeq(Q, 1, Len(s))
      BY <2>3, <2>4 DEF IsPrefix
    <2>6. Len(s) \in 1 .. Len(Q) - 1
      BY <1>1, <2>1, <2>2
    <2> QED
      BY <2>1, <2>3, <2>5, <2>6
  <1>4. x \in AncestorsOf(q) <=> \E n \in 1 .. Len(Q) - 1 : x = <<q[1], SubSeq(Q, 1, n)>>
    BY DEF AncestorsOf, Q
  <1> QED
    BY <1>2, <1>3, <1>4

LEMMA InsideOut ==
    ASSUME NEW p \in Locations, NEW a \in Locations
    PROVE  /\ p \notin Roots => Inside(p, Parent(p))
           /\ Inside(p, a) => p \notin Roots /\ (Parent(p) = a \/ Inside(Parent(p), a))
           /\ \A x \in AncestorsOf(p) :
                  Inside(p, a) => x = a \/ Inside(x, a) \/ x \in AncestorsOf(a)
  <1>1. /\ p = <<p[1], p[2]>> /\ p[2] \in Seq(Labels) /\ Len(p[2]) \in Nat
        /\ a = <<a[1], a[2]>> /\ a[2] \in Seq(Labels) /\ Len(a[2]) \in Nat
    BY LocationsAre, LenProperties
  <1>2. p \in Roots <=> p[2] = <<>>
    BY LocationsAre
  <1> DEFINE q == Parent(p)
  <1>3. ASSUME p \notin Roots
        PROVE  /\ q = <<q[1], q[2]>> /\ q \in Locations /\ q[2] \in Seq(Labels) /\ q[1] = p[1]
               /\ Len(q[2]) \in Nat /\ Len(p[2]) = Len(q[2]) + 1
               /\ \A i \in 1 .. Len(q[2]) : q[2][i] = p[2][i]
    BY <1>2, <1>3, ParentIs, LocationsAre, LenProperties
  <1> HIDE DEF q
  <1>4. ASSUME p \notin Roots PROVE Inside(p, q)
    <2>1. Len(q[2]) <= Len(p[2]) /\ Len(q[2]) < Len(p[2])
      BY <1>3, <1>4
    <2>2. Within(p, q)
      BY <1>1, <1>3, <1>4, <2>1, PrefixIs DEF Within
    <2> QED
      BY <1>3, <1>4, <2>1, <2>2, WithinIs
  <1>5. ASSUME Inside(p, a) PROVE p \notin Roots /\ (q = a \/ Inside(q, a))
    <2>1. Within(p, a) /\ Len(a[2]) < Len(p[2]) /\ p[1] = a[1]
      BY <1>5, WithinIs DEF Within
    <2>2. p \notin Roots
      BY <1>1, <1>2, <2>1, EmptySeq
    <2>3. Len(a[2]) <= Len(q[2])
      BY <1>1, <1>3, <2>1, <2>2
    <2>4. \A i \in 1 .. Len(a[2]) : a[2][i] = p[2][i]
      BY <1>1, <2>1, PrefixIs DEF Within
    <2>5. \A i \in 1 .. Len(a[2]) : i \in 1 .. Len(q[2])
      BY <1>1, <1>3, <2>2, <2>3
    <2>6. IsPrefix(a[2], q[2])
      BY <1>1, <1>3, <2>2, <2>3, <2>4, <2>5, PrefixIs
    <2>7. Within(q, a)
      BY <1>3, <2>1, <2>2, <2>6 DEF Within
    <2> QED
      BY <2>2, <2>7 DEF Inside
  <1>6. ASSUME NEW x \in AncestorsOf(p), Inside(p, a)
        PROVE  x = a \/ Inside(x, a) \/ x \in AncestorsOf(a)
    <2>1. x \in Locations \ Roots /\ Inside(p, x)
      BY AncestorsAre
    <2>2. Within(p, x) /\ Within(p, a)
      BY <1>6, <2>1 DEF Inside
    <2>3. Within(x, a) \/ Within(a, x)
      BY <2>1, <2>2, WithinIs
    <2>4. x = a \/ Inside(x, a) \/ Inside(a, x)
      BY <2>3 DEF Inside
    <2> QED
      BY <2>1, <2>4, AncestorsAre
  <1> QED
    BY <1>4, <1>5, <1>6 DEF q

LEMMA InsideFar ==
    ASSUME NEW p \in Locations, NEW a \in Locations, NEW b \in Locations,
           Inside(p, a), Within(a, b)
    PROVE  Inside(p, b)
  <1>1. Within(p, a) /\ Len(a[2]) < Len(p[2])
    BY WithinIs
  <1>2. Within(p, b)
    BY <1>1, WithinIs
  <1>3. Len(b[2]) <= Len(a[2]) /\ Len(b[2]) \in Nat /\ Len(a[2]) \in Nat /\ Len(p[2]) \in Nat
    BY LocationsAre, LenProperties DEF Within, IsPrefix
  <1> QED
    BY <1>1, <1>2, <1>3, WithinIs

LEMMA BelowOneLabel ==
    ASSUME NEW d \in Locations, NEW x \in Labels \cup {None}, NEW p \in AncestorsOf(Join(d, x))
    PROVE  p \in Locations \ Roots /\ (p = d \/ p \in AncestorsOf(d))
  <1>1. Join(d, x) \in Locations /\ p \in Locations \ Roots
    BY JoinIs, AncestorsAre
  <1>2. CASE x = None
    BY <1>1, <1>2, JoinIs
  <1>3. CASE x # None
    <2>1. Parent(Join(d, x)) = d /\ Inside(Join(d, x), p)
      BY <1>1, <1>3, JoinIs, AncestorsAre
    <2>2. d = p \/ Inside(d, p)
      BY <1>1, <2>1, InsideOut
    <2> QED
      BY <1>1, <2>2, AncestorsAre
  <1> QED
    BY <1>2, <1>3

-----------------------------------------------------------------------------
(* What a call does to the trees: which files stay, and where it changes them.  *)

CallNames == {"copy", "move", "sync", "bisync", "movefile", "mkdir", "copyurl", "upload",
              "purge", "delete", "rmdir", "rmdirs", "keep"}
Calls == [call : CallNames, from : Locations, to : Locations, only : Labels \cup {None}]

\* At x, below it, and on the way to it.
Near(x) == {p \in Locations : Within(p, x) \/ p \in AncestorsOf(x)}

\* Files stay, but for what the call brought over them.
KeepsFiles(t, u, c) ==
    \A p : HasFile(t, p) => HasFile(u, p) /\ (u[p] = t[p] \/ Overwritten(t, u, c, p))
ChangesOnly(t, u, R) == \A p \in Places : Changed(t, u, p) => p \in R

\* What had no copy left was below a place of S, or the call brought a file over it.
LosesOnly(t, u, c, S) ==
    \A p \in DOMAIN t :
        HasFile(t, p) /\ t[p] \notin Contents(u) =>
            Overwritten(t, u, c, p) \/ \E a \in S : Within(p, a)

\* What a call brings: below its target, from below its source or from elsewhere.
Brought(t, new, c) ==
    \A q \in DOMAIN new :
        /\ q \in Locations /\ Within(q, TargetOf(c))
        /\ new[q] \in {Dir, New} \/ \E s \in DOMAIN t : Within(s, SourceOf(c)) /\ new[q] = t[s]

LEMMA OverIs ==
    ASSUME NEW f, NEW g
    PROVE  /\ DOMAIN Over(f, g) = DOMAIN f \cup DOMAIN g
           /\ \A p \in DOMAIN f : Over(f, g)[p] = f[p]
           /\ \A p \in DOMAIN g : p \notin DOMAIN f => Over(f, g)[p] = g[p]
  BY DEF Over

LEMMA WithoutIs ==
    ASSUME NEW t, NEW gone
    PROVE  /\ DOMAIN Without(t, gone) = DOMAIN t \ gone
           /\ \A p \in DOMAIN t : p \notin gone => Without(t, gone)[p] = t[p]
           /\ \A p : HasFile(t, p) /\ p \notin gone => HasFile(Without(t, gone), p)
           /\ \A p : Changed(t, Without(t, gone), p) => p \in gone \cap DOMAIN t
  <1>1. /\ DOMAIN Without(t, gone) = DOMAIN t \ gone
        /\ \A p \in DOMAIN t : p \notin gone => Without(t, gone)[p] = t[p]
    BY DEF Without
  <1> QED
    BY <1>1 DEF HasFile, Changed

LEMMA ArrivalsAre ==
    ASSUME NEW t, DOMAIN t \subseteq Places, NEW new, NEW u \in Arrivals(t, new)
    PROVE  /\ DOMAIN u \subseteq Places
           /\ \A p : HasFile(t, p) => HasFile(u, p) /\ (u[p] = t[p] \/ p \in DOMAIN new)
           /\ \A p \in DOMAIN new : p \in DOMAIN u /\ u[p] = new[p]
           /\ \A p : Changed(t, u, p) =>
                  p \in DOMAIN new \/ \E q \in DOMAIN new : p \in AncestorsOf(q)
  <1> DEFINE A == UNION {AncestorsOf(q) : q \in DOMAIN new}
             all == Over(new, [p \in A |-> Dir])
  <1>1. /\ u = Over(all, t)
        /\ \A p \in DOMAIN all : p \in Places /\ (p \in DOMAIN t => (t[p] = Dir <=> all[p] = Dir))
    BY DEF Arrivals
  <1> HIDE DEF A
  <1>2. /\ DOMAIN all = DOMAIN new \cup A
        /\ \A p \in DOMAIN new : all[p] = new[p]
        /\ \A p \in A : p \notin DOMAIN new => all[p] = Dir
    <2> DEFINE g == [p \in A |-> Dir]
    <2>1. DOMAIN g = A /\ (\A p \in A : g[p] = Dir) /\ all = Over(new, g)
      OBVIOUS
    <2> HIDE DEF all, g
    <2>2. /\ DOMAIN Over(new, g) = DOMAIN new \cup DOMAIN g
          /\ \A p \in DOMAIN new : Over(new, g)[p] = new[p]
          /\ \A p \in DOMAIN g : p \notin DOMAIN new => Over(new, g)[p] = g[p]
      BY OverIs
    <2> QED
      BY <2>1, <2>2
  <1> HIDE DEF all
  <1>3. /\ DOMAIN u = DOMAIN all \cup DOMAIN t
        /\ \A p \in DOMAIN all : u[p] = all[p]
        /\ \A p \in DOMAIN t : p \notin DOMAIN all => u[p] = t[p]
    <2>1. /\ DOMAIN Over(all, t) = DOMAIN all \cup DOMAIN t
          /\ \A p \in DOMAIN all : Over(all, t)[p] = all[p]
          /\ \A p \in DOMAIN t : p \notin DOMAIN all => Over(all, t)[p] = t[p]
      BY OverIs
    <2> QED
      BY <1>1, <2>1
  <1>4. DOMAIN u \subseteq Places
    BY <1>1, <1>3
  <1>5. ASSUME NEW p, HasFile(t, p)
        PROVE  HasFile(u, p) /\ (u[p] = t[p] \/ p \in DOMAIN new)
    BY <1>1, <1>2, <1>3, <1>5 DEF HasFile
  <1>6. \A p \in DOMAIN new : p \in DOMAIN u /\ u[p] = new[p]
    BY <1>2, <1>3
  <1>7. ASSUME NEW p, Changed(t, u, p) PROVE p \in DOMAIN new \/ p \in A
    <2>1. p \in DOMAIN all
      BY <1>3, <1>7 DEF Changed
    <2> QED
      BY <1>2, <2>1
  <1>8. \A p \in A : \E q \in DOMAIN new : p \in AncestorsOf(q)
    BY DEF A
  <1> QED
    BY <1>4, <1>5, <1>6, <1>7, <1>8

LEMMA CallTypes ==
    ASSUME NEW c \in Calls
    PROVE  /\ c.from \in Locations /\ c.to \in Locations /\ c.only \in Labels \cup {None}
           /\ SourceOf(c) \in Locations /\ TargetOf(c) \in Locations
           /\ c.only = None => SourceOf(c) = c.from /\ TargetOf(c) = c.to
  <1>1. c.from \in Locations /\ c.to \in Locations /\ c.only \in Labels \cup {None}
    BY DEF Calls
  <1> QED
    BY <1>1, JoinIs DEF SourceOf, TargetOf

\* What is chosen is inside the source.
LEMMA ChosenAre ==
    ASSUME NEW t, DOMAIN t \subseteq Places, NEW c \in Calls, NEW p \in Chosen(t, c)
    PROVE  /\ p \in DOMAIN t /\ p \in Locations /\ Inside(p, c.from)
           /\ c.only # None => /\ p = SourceOf(c) /\ HasFile(t, p)
                               /\ Rebase(p, c.from, c.to) = TargetOf(c)
  <1>1. CASE c.only = None
    <2>1. p \in DOMAIN t /\ Inside(p, c.from)
      BY <1>1 DEF Chosen, Under
    <2> QED
      BY <1>1, <2>1, LocationsAre
  <1>2. CASE c.only # None
    <2>1. p = SourceOf(c) /\ HasFile(t, p)
      BY <1>2 DEF Chosen, SourceOf
    <2>2. c.only \in Labels /\ c.from \in Locations /\ c.to \in Locations
      BY <1>2, CallTypes
    <2>3. p \in Locations /\ Inside(p, c.from)
      BY <1>2, <2>1, <2>2, JoinIs DEF SourceOf
    <2>4. Rebase(p, c.from, c.to) = TargetOf(c)
      BY <1>2, <2>1, <2>2, RebaseJoin DEF SourceOf, TargetOf
    <2> QED
      BY <2>1, <2>3, <2>4 DEF HasFile
  <1> QED
    BY <1>1, <1>2

LEMMA RelocatedIs ==
    ASSUME NEW t, DOMAIN t \subseteq Places, NEW c \in Calls
    PROVE  /\ \A p \in Chosen(t, c) :
                  /\ Rebase(p, c.from, c.to) \in DOMAIN Relocated(t, c)
                  /\ Relocated(t, c)[Rebase(p, c.from, c.to)] = t[p]
           /\ Brought(t, Relocated(t, c), c)
  <1> DEFINE there == {Rebase(p, c.from, c.to) : p \in Chosen(t, c)}
             made == IF c.only = None THEN {c.to} \ Roots ELSE {}
             f == [p \in there |-> t[Rebase(p, c.to, c.from)]]
             g == [p \in made |-> Dir]
  <1>1. Relocated(t, c) = Over(f, g)
    BY DEF Relocated
  <1>2. c.from \in Locations /\ c.to \in Locations /\ TargetOf(c) \in Locations
    BY CallTypes
  <1>3. ASSUME NEW p \in Chosen(t, c)
        PROVE  LET q == Rebase(p, c.from, c.to)
               IN  q \in Locations /\ Within(q, TargetOf(c)) /\ Rebase(q, c.to, c.from) = p
    <2>1. p \in Locations /\ Inside(p, c.from)
      BY ChosenAre
    <2>2. /\ Rebase(p, c.from, c.to) \in Locations /\ Inside(Rebase(p, c.from, c.to), c.to)
          /\ Rebase(Rebase(p, c.from, c.to), c.to, c.from) = p
      BY <1>2, <2>1, RebaseIs
    <2>3. CASE c.only = None
      BY <2>2, <2>3, CallTypes DEF Inside
    <2>4. CASE c.only # None
      <3>1. Rebase(p, c.from, c.to) = TargetOf(c)
        BY <2>4, ChosenAre
      <3> QED
        BY <1>2, <2>2, <3>1, WithinIs
    <2> QED
      BY <2>2, <2>3, <2>4
  <1>4. DOMAIN f = there /\ DOMAIN g = made
    OBVIOUS
  <1>5. ASSUME NEW p \in Chosen(t, c) PROVE f[Rebase(p, c.from, c.to)] = t[p]
    BY <1>3
  <1>6. \A q \in made : q \in Locations /\ Within(q, TargetOf(c))
    <2>1. c.only = None => TargetOf(c) = c.to
      BY CallTypes
    <2>2. Within(c.to, c.to)
      BY <1>2, WithinIs
    <2> QED
      BY <1>2, <2>1, <2>2
  <1>7. \A q \in there : q \in Locations /\ Within(q, TargetOf(c))
    BY <1>3
  <1>8. \A p \in Chosen(t, c) : Rebase(p, c.from, c.to) \in there
    OBVIOUS
  <1>12. ASSUME NEW q \in there PROVE \E s \in DOMAIN t : Within(s, SourceOf(c)) /\ f[q] = t[s]
    <2>1. PICK p \in Chosen(t, c) : q = Rebase(p, c.from, c.to)
      OBVIOUS
    <2>2. f[q] = t[p]
      BY <1>5, <2>1
    <2>3. /\ p \in DOMAIN t /\ p \in Locations /\ Inside(p, c.from)
          /\ c.only # None => p = SourceOf(c)
      BY ChosenAre
    <2>4. Within(p, SourceOf(c))
      BY <1>2, <2>3, CallTypes, WithinIs DEF Inside
    <2> QED
      BY <2>2, <2>3, <2>4
  <1>13. \A q \in made : g[q] = Dir
    OBVIOUS
  <1> HIDE DEF f, g, there, made
  <1>9. /\ DOMAIN Over(f, g) = DOMAIN f \cup DOMAIN g
        /\ \A p \in DOMAIN f : Over(f, g)[p] = f[p]
        /\ \A p \in DOMAIN g : p \notin DOMAIN f => Over(f, g)[p] = g[p]
    BY OverIs
  <1>10. ASSUME NEW p \in Chosen(t, c)
         PROVE  /\ Rebase(p, c.from, c.to) \in DOMAIN Relocated(t, c)
                /\ Relocated(t, c)[Rebase(p, c.from, c.to)] = t[p]
    <2>1. Rebase(p, c.from, c.to) \in DOMAIN f
      BY <1>4, <1>8
    <2> QED
      BY <1>1, <1>5, <1>9, <2>1
  <1>11. ASSUME NEW q \in DOMAIN Relocated(t, c)
         PROVE  /\ q \in Locations /\ Within(q, TargetOf(c))
                /\ \/ Relocated(t, c)[q] \in {Dir, New}
                   \/ \E s \in DOMAIN t : Within(s, SourceOf(c)) /\ Relocated(t, c)[q] = t[s]
    <2>1. q \in there \cup made
      BY <1>1, <1>4, <1>9
    <2>2. CASE q \in there
      <3>1. Relocated(t, c)[q] = f[q]
        BY <1>1, <1>4, <1>9, <2>2
      <3> QED
        BY <1>7, <1>12, <2>2, <3>1
    <2>3. CASE q \in made /\ q \notin there
      <3>1. Relocated(t, c)[q] = g[q]
        BY <1>1, <1>4, <1>9, <2>3
      <3> QED
        BY <1>6, <1>13, <2>3, <3>1
    <2> QED
      BY <2>1, <2>2, <2>3
  <1> QED
    BY <1>10, <1>11 DEF Brought

LEMMA NearIs ==
    ASSUME NEW x \in Locations, NEW q \in Locations, Within(q, x)
    PROVE  q \in Near(x) /\ \A p \in AncestorsOf(q) : p \in Near(x)
  <1>1. ASSUME NEW p \in AncestorsOf(q) PROVE p \in Near(x)
    <2>1. p \in Locations
      BY AncestorsAre
    <2>2. CASE q = x
      BY <2>1, <2>2 DEF Near
    <2>3. CASE Inside(q, x)
      <3>1. p = x \/ Inside(p, x) \/ p \in AncestorsOf(x)
        BY <2>3, InsideOut
      <3>2. Within(x, x)
        BY WithinIs
      <3> QED
        BY <2>1, <3>1, <3>2 DEF Near, Inside
    <2> QED
      BY <2>2, <2>3 DEF Inside
  <1> QED
    BY <1>1 DEF Near

Beneath(x) == {p \in Locations : Within(p, x)}
Way(x) == {x} \cup AncestorsOf(x)

LEMMA ChangesAdd ==
    ASSUME NEW t, NEW u, NEW v, NEW R, NEW Q, ChangesOnly(t, u, R), ChangesOnly(u, v, Q)
    PROVE  ChangesOnly(t, v, R \cup Q)
  <1>1. \A p : Changed(t, v, p) => Changed(t, u, p) \/ Changed(u, v, p)
    BY DEF Changed
  <1> QED
    BY <1>1 DEF ChangesOnly

LEMMA KeepingLoses ==
    ASSUME NEW t, NEW u, NEW c, NEW S, KeepsFiles(t, u, c)
    PROVE  LosesOnly(t, u, c, S)
  <1> SUFFICES ASSUME NEW p \in DOMAIN t, HasFile(t, p), t[p] \notin Contents(u)
               PROVE  Overwritten(t, u, c, p)
    BY DEF LosesOnly
  <1>1. HasFile(u, p) /\ (u[p] = t[p] \/ Overwritten(t, u, c, p))
    BY DEF KeepsFiles
  <1>2. u[p] \in Contents(u)
    BY <1>1 DEF Contents, HasFile
  <1> QED
    BY <1>1, <1>2

\* What arrives of what a call brings, in part or whole.
LEMMA BroughtIs ==
    ASSUME NEW t, DOMAIN t \subseteq Places, NEW c \in Calls, NEW new, Brought(t, new, c),
           NEW u \in Arrivals(t, new)
    PROVE  /\ DOMAIN u \subseteq Places /\ KeepsFiles(t, u, c)
           /\ ChangesOnly(t, u, Near(TargetOf(c)))
           /\ \A p \in DOMAIN new : p \in DOMAIN u /\ u[p] = new[p]
  <1>1. /\ DOMAIN u \subseteq Places
        /\ \A p : HasFile(t, p) => HasFile(u, p) /\ (u[p] = t[p] \/ p \in DOMAIN new)
        /\ \A p \in DOMAIN new : p \in DOMAIN u /\ u[p] = new[p]
        /\ \A p : Changed(t, u, p) =>
               p \in DOMAIN new \/ \E q \in DOMAIN new : p \in AncestorsOf(q)
    BY ArrivalsAre
  <1>2. TargetOf(c) \in Locations
    BY CallTypes
  <1>3. ASSUME NEW p \in Places, Changed(t, u, p) PROVE p \in Near(TargetOf(c))
    <2>1. \A q \in DOMAIN new : q \in Near(TargetOf(c)) /\ \A x \in AncestorsOf(q) : x \in Near(TargetOf(c))
      BY <1>2, NearIs DEF Brought
    <2> QED
      BY <1>1, <1>3, <2>1
  <1>4. ASSUME NEW p, HasFile(t, p), u[p] # t[p] PROVE HasFile(u, p) /\ Overwritten(t, u, c, p)
    <2>1. HasFile(u, p) /\ p \in DOMAIN new /\ u[p] = new[p] /\ u[p] # Dir
      BY <1>1, <1>4 DEF HasFile
    <2>2. /\ Within(p, TargetOf(c))
          /\ new[p] = New \/ \E s \in DOMAIN t : Within(s, SourceOf(c)) /\ new[p] = t[s]
      BY <2>1 DEF Brought
    <2> QED
      BY <2>1, <2>2 DEF Overwritten
  <1> QED
    BY <1>1, <1>3, <1>4 DEF KeepsFiles, ChangesOnly

LEMMA SomeBrought ==
    ASSUME NEW t, NEW c, NEW new, Brought(t, new, c), NEW some \in SUBSET DOMAIN new
    PROVE  Brought(t, Restrict(new, some), c) /\ DOMAIN Restrict(new, some) = some
  <1>1. DOMAIN Restrict(new, some) = some /\ \A q \in some : Restrict(new, some)[q] = new[q]
    BY DEF Restrict
  <1> QED
    BY <1>1 DEF Brought

LEMMA CopiedIs ==
    ASSUME NEW t, DOMAIN t \subseteq Places, NEW c \in Calls, NEW u \in Copied(t, c)
    PROVE  /\ DOMAIN u \subseteq Places /\ KeepsFiles(t, u, c)
           /\ ChangesOnly(t, u, Near(TargetOf(c)))
           /\ \A p \in Chosen(t, c) :
                  /\ Rebase(p, c.from, c.to) \in DOMAIN u
                  /\ u[Rebase(p, c.from, c.to)] = t[p]
  <1>1. u \in Arrivals(t, Relocated(t, c))
    BY DEF Copied
  <1>2. /\ \A p \in Chosen(t, c) :
               /\ Rebase(p, c.from, c.to) \in DOMAIN Relocated(t, c)
               /\ Relocated(t, c)[Rebase(p, c.from, c.to)] = t[p]
        /\ Brought(t, Relocated(t, c), c)
    BY RelocatedIs
  <1>3. /\ DOMAIN u \subseteq Places /\ KeepsFiles(t, u, c)
        /\ ChangesOnly(t, u, Near(TargetOf(c)))
        /\ \A p \in DOMAIN Relocated(t, c) : p \in DOMAIN u /\ u[p] = Relocated(t, c)[p]
    BY <1>1, <1>2, BroughtIs
  <1> QED
    BY <1>2, <1>3

LEMMA PartCopiedIs ==
    ASSUME NEW t, DOMAIN t \subseteq Places, NEW c \in Calls, NEW u \in PartCopied(t, c)
    PROVE  /\ DOMAIN u \subseteq Places /\ KeepsFiles(t, u, c)
           /\ ChangesOnly(t, u, Near(TargetOf(c)))
  <1> DEFINE new == Relocated(t, c)
  <1>1. PICK some \in SUBSET DOMAIN new : u \in Arrivals(t, Restrict(new, some))
    BY DEF PartCopied, Arriving
  <1>2. Brought(t, new, c)
    BY RelocatedIs
  <1> HIDE DEF new
  <1> DEFINE arriving == Restrict(new, some)
  <1>3. Brought(t, arriving, c) /\ u \in Arrivals(t, arriving)
    BY <1>1, <1>2, SomeBrought
  <1> HIDE DEF arriving
  <1> QED
    BY <1>3, BroughtIs

\* What a move takes away.
Leaving(c) == IF c.only = None THEN Beneath(c.from) ELSE {SourceOf(c)}

\* A content is at q now, unless something of the call came over it.
LEMMA StaysSomewhere ==
    ASSUME NEW t, NEW u, NEW c, NEW gone, KeepsFiles(t, u, c),
           \A p \in gone : HasFile(t, p) => \E q \in DOMAIN u \ gone : u[q] = t[p]
    PROVE  LosesOnly(t, Without(u, gone), c, {})
  <1> DEFINE v == Without(u, gone)
  <1>1. /\ DOMAIN v = DOMAIN u \ gone
        /\ \A p \in DOMAIN u : p \notin gone => v[p] = u[p]
    BY WithoutIs
  <1> SUFFICES ASSUME NEW p \in DOMAIN t, HasFile(t, p), t[p] \notin Contents(v)
               PROVE  Overwritten(t, v, c, p)
    BY DEF LosesOnly
  <1> HIDE DEF v
  <1>2. ASSUME NEW q \in DOMAIN u \ gone, u[q] = t[p] PROVE FALSE
    <2>1. q \in DOMAIN v /\ v[q] = t[p] /\ t[p] # Dir
      BY <1>1, <1>2 DEF HasFile
    <2> QED
      BY <2>1 DEF Contents
  <1>3. p \notin gone
    BY <1>2
  <1>4. HasFile(u, p) /\ (u[p] = t[p] \/ Overwritten(t, u, c, p))
    BY DEF KeepsFiles
  <1>5. p \in DOMAIN v /\ v[p] = u[p]
    BY <1>1, <1>3, <1>4 DEF HasFile
  <1>6. u[p] # t[p]
    BY <1>1, <1>2, <1>3, <1>4 DEF HasFile
  <1> QED
    BY <1>4, <1>5, <1>6 DEF Overwritten, HasFile

LEMMA MovedIs ==
    ASSUME NEW t, DOMAIN t \subseteq Places, NEW c \in Calls, NEW v \in Moved(t, c)
    PROVE  /\ DOMAIN v \subseteq Places /\ LosesOnly(t, v, c, {})
           /\ ChangesOnly(t, v, Near(TargetOf(c)) \cup Leaving(c))
  <1> DEFINE gone == IF c.only = None THEN Under(t, c.from) \cup {c.from}
                     ELSE Chosen(t, c) \ {Join(c.to, c.only)}
  <1>1. c.only = None => ~Overlap(c)
    BY DEF Moved
  <1>2. PICK u \in Copied(t, c) : v = Without(u, gone)
    BY <1>1 DEF Moved
  <1>3. /\ DOMAIN u \subseteq Places /\ KeepsFiles(t, u, c)
        /\ ChangesOnly(t, u, Near(TargetOf(c)))
        /\ \A p \in Chosen(t, c) :
               /\ Rebase(p, c.from, c.to) \in DOMAIN u
               /\ u[Rebase(p, c.from, c.to)] = t[p]
    BY <1>2, CopiedIs
  <1>4. HasDir(t, c.from)
    BY <1>2 DEF Copied
  <1>5. /\ c.from \in Locations /\ c.to \in Locations /\ c.only \in Labels \cup {None}
        /\ SourceOf(c) \in Locations /\ TargetOf(c) \in Locations
        /\ c.only = None => SourceOf(c) = c.from /\ TargetOf(c) = c.to
    BY CallTypes
  <1>6. /\ DOMAIN v = DOMAIN u \ gone
        /\ \A p : Changed(u, v, p) => p \in gone \cap DOMAIN u
    <2> HIDE DEF gone
    <2>1. /\ DOMAIN Without(u, gone) = DOMAIN u \ gone
          /\ \A p : Changed(u, Without(u, gone), p) => p \in gone \cap DOMAIN u
      BY WithoutIs
    <2> QED
      BY <1>2, <2>1
  <1>7. ASSUME NEW p \in gone, p \in Locations PROVE p \in Leaving(c)
    <2>1. CASE c.only = None
      <3>1. p = c.from \/ Inside(p, c.from)
        BY <2>1 DEF Under
      <3> QED
        BY <1>5, <1>7, <2>1, <3>1, WithinIs DEF Beneath, Inside, Leaving
    <2>2. CASE c.only # None
      BY <2>2, ChosenAre DEF Leaving
    <2> QED
      BY <2>1, <2>2
  <1>8. ASSUME NEW p \in gone, HasFile(t, p) PROVE p \in Chosen(t, c)
    <2>1. CASE c.only = None
      <3>1. p # c.from
        <4>1. p \in Places /\ t[p] # Dir
          BY <1>8 DEF HasFile
        <4> QED
          BY <1>4, <4>1, LocationsAre DEF HasDir
      <3> QED
        BY <2>1, <3>1 DEF Chosen
    <2>2. CASE c.only # None
      BY <2>2
    <2> QED
      BY <2>1, <2>2
  <1>9. ASSUME NEW p \in Chosen(t, c) PROVE Rebase(p, c.from, c.to) \notin gone
    <2> DEFINE q == Rebase(p, c.from, c.to)
    <2>1. /\ p \in Locations /\ Inside(p, c.from)
          /\ c.only # None => q = TargetOf(c)
      BY ChosenAre
    <2>2. q \in Locations /\ Inside(q, c.to)
      BY <1>5, <2>1, RebaseIs
    <2> HIDE DEF q
    <2>3. CASE c.only = None
      <3>1. ASSUME q \in gone PROVE FALSE
        <4>1. q = c.from \/ Inside(q, c.from)
          BY <2>3, <3>1 DEF Under
        <4>2. Within(q, c.from) /\ Within(q, c.to)
          BY <1>5, <2>2, <4>1, WithinIs DEF Inside
        <4>3. Within(c.from, c.to) \/ Within(c.to, c.from)
          BY <1>5, <2>2, <4>2, WithinIs
        <4> QED
          BY <1>1, <2>3, <4>3 DEF Overlap
      <3> QED
        BY <3>1 DEF q
    <2>4. CASE c.only # None
      BY <2>1, <2>4 DEF TargetOf, q
    <2> QED
      BY <2>3, <2>4
  <1> HIDE DEF gone
  <1>10. LosesOnly(t, v, c, {})
    <2>1. \A p \in gone : HasFile(t, p) => \E q \in DOMAIN u \ gone : u[q] = t[p]
      BY <1>3, <1>8, <1>9
    <2> QED
      BY <1>2, <1>3, <2>1, StaysSomewhere
  <1>11. ChangesOnly(u, v, Leaving(c))
    BY <1>6, <1>7, LocationsAre DEF ChangesOnly
  <1>12. DOMAIN v \subseteq Places
    BY <1>3, <1>6
  <1> QED
    BY <1>3, <1>10, <1>11, <1>12, ChangesAdd

LEMMA PartMovedIs ==
    ASSUME NEW t, DOMAIN t \subseteq Places, NEW c \in Calls, NEW v \in PartMoved(t, c)
    PROVE  /\ DOMAIN v \subseteq Places /\ LosesOnly(t, v, c, {})
           /\ ChangesOnly(t, v, Near(TargetOf(c)) \cup Leaving(c))
  <1>1. c.only = None => ~Overlap(c)
    BY DEF PartMoved
  <1>2. PICK u \in PartCopied(t, c) : \E gone \in SUBSET HasCome(t, u, c) : v = Without(u, gone)
    BY <1>1 DEF PartMoved
  <1>3. PICK gone \in SUBSET HasCome(t, u, c) : v = Without(u, gone)
    BY <1>2
  <1>4. /\ DOMAIN u \subseteq Places /\ KeepsFiles(t, u, c)
        /\ ChangesOnly(t, u, Near(TargetOf(c)))
    BY PartCopiedIs
  <1>5. c.from \in Locations /\ c.to \in Locations
    BY CallTypes
  <1>6. ASSUME NEW p \in gone
        PROVE  /\ p \in Leaving(c)
               /\ Rebase(p, c.from, c.to) \in DOMAIN u \ gone
               /\ u[Rebase(p, c.from, c.to)] = t[p]
    <2> DEFINE q == Rebase(p, c.from, c.to)
    <2>1. p \in Chosen(t, c) /\ q # p /\ q \in DOMAIN u /\ u[q] = t[p]
      BY DEF HasCome, HasFile
    <2>2. p \in Locations /\ Inside(p, c.from) /\ (c.only # None => p = SourceOf(c))
      BY <2>1, ChosenAre
    <2>3. q \in Locations /\ Inside(q, c.to)
      BY <1>5, <2>2, RebaseIs
    <2> HIDE DEF q
    <2>4. p \in Leaving(c)
      BY <2>2 DEF Leaving, Beneath, Inside
    <2>5. ASSUME q \in gone PROVE FALSE
      <3>1. q \in Chosen(t, c)
        BY <2>5 DEF HasCome
      <3>2. Inside(q, c.from) /\ (c.only # None => q = SourceOf(c))
        BY <3>1, ChosenAre
      <3>3. Within(c.from, c.to) \/ Within(c.to, c.from)
        BY <1>5, <2>3, <3>2, WithinIs DEF Inside
      <3> QED
        BY <1>1, <2>1, <2>2, <3>2, <3>3 DEF Overlap
    <2> QED
      BY <2>1, <2>4, <2>5 DEF q
  <1>7. LosesOnly(t, v, c, {})
    <2>1. \A p \in gone : HasFile(t, p) => \E q \in DOMAIN u \ gone : u[q] = t[p]
      BY <1>6
    <2> QED
      BY <1>3, <1>4, <2>1, StaysSomewhere
  <1>8. /\ DOMAIN v = DOMAIN u \ gone
        /\ \A p : Changed(u, v, p) => p \in gone \cap DOMAIN u
    BY <1>3, WithoutIs
  <1>9. ChangesOnly(u, v, Leaving(c))
    BY <1>6, <1>8 DEF ChangesOnly
  <1>10. DOMAIN v \subseteq Places
    BY <1>4, <1>8
  <1> QED
    BY <1>4, <1>7, <1>9, <1>10, ChangesAdd

\* Some of what is below the destination goes, and some of the source comes.
LEMMA MirroringIs ==
    ASSUME NEW t, DOMAIN t \subseteq Places, NEW c \in Calls, c.only = None,
           NEW gone \in SUBSET Under(t, c.to), NEW new, Brought(t, new, c),
           NEW u \in Arrivals(Without(t, gone), new)
    PROVE  /\ DOMAIN u \subseteq Places /\ LosesOnly(t, u, c, {c.to})
           /\ ChangesOnly(t, u, Near(c.to))
  <1> DEFINE w == Without(t, gone)
  <1>1. u \in Arrivals(w, new)
    OBVIOUS
  <1>2. /\ DOMAIN w = DOMAIN t \ gone
        /\ \A p \in DOMAIN t : p \notin gone => w[p] = t[p]
        /\ \A p : Changed(t, w, p) => p \in gone \cap DOMAIN t
    BY WithoutIs
  <1>3. \A q \in DOMAIN new : q \in Locations /\ Within(q, TargetOf(c))
    BY DEF Brought
  <1>4. c.to \in Locations /\ TargetOf(c) = c.to
    BY CallTypes
  <1> HIDE DEF w
  <1>5. /\ DOMAIN u \subseteq Places
        /\ \A p : HasFile(w, p) => HasFile(u, p) /\ (u[p] = w[p] \/ p \in DOMAIN new)
        /\ \A p : Changed(w, u, p) =>
               p \in DOMAIN new \/ \E q \in DOMAIN new : p \in AncestorsOf(q)
    BY <1>1, <1>2, ArrivalsAre
  <1>6. LosesOnly(t, u, c, {c.to})
    <2> SUFFICES ASSUME NEW p \in DOMAIN t, HasFile(t, p), t[p] \notin Contents(u)
                 PROVE  Within(p, c.to)
      BY DEF LosesOnly
    <2>1. CASE p \in gone
      BY <2>1 DEF Under, Inside
    <2>2. CASE p \notin gone
      <3>1. HasFile(w, p) /\ w[p] = t[p]
        BY <1>2, <2>2 DEF HasFile
      <3>2. HasFile(u, p) /\ (u[p] = t[p] \/ p \in DOMAIN new)
        BY <1>5, <3>1
      <3>3. u[p] \in Contents(u)
        BY <3>2 DEF Contents, HasFile
      <3> QED
        BY <1>3, <1>4, <3>2, <3>3
    <2> QED
      BY <2>1, <2>2
  <1>7. ChangesOnly(t, w, Near(c.to))
    <2>1. \A p \in gone : Within(p, c.to)
      BY DEF Under, Inside
    <2> QED
      BY <1>2, <2>1, LocationsAre DEF ChangesOnly, Near
  <1>8. ChangesOnly(w, u, Near(c.to))
    <2>1. \A q \in DOMAIN new : q \in Near(c.to) /\ \A x \in AncestorsOf(q) : x \in Near(c.to)
      BY <1>3, <1>4, NearIs
    <2> QED
      BY <1>5, <2>1 DEF ChangesOnly
  <1>9. ChangesOnly(t, u, Near(c.to))
    BY <1>7, <1>8, ChangesAdd
  <1> QED
    BY <1>5, <1>6, <1>9

LEMMA MirroredIs ==
    ASSUME NEW t, DOMAIN t \subseteq Places, NEW c \in Calls, c.only = None,
           NEW u \in Mirrored(t, c) \cup PartMirrored(t, c)
    PROVE  /\ DOMAIN u \subseteq Places /\ LosesOnly(t, u, c, {c.to})
           /\ ChangesOnly(t, u, Near(c.to))
  <1> DEFINE new == Relocated(t, c)
  <1>1. Brought(t, new, c)
    BY RelocatedIs
  <1>2. CASE u \in Mirrored(t, c)
    <2>1. u \in Arrivals(Without(t, Under(t, c.to)), new)
      BY <1>2 DEF Mirrored
    <2> HIDE DEF new
    <2> QED
      BY <1>1, <2>1, MirroringIs
  <1>3. CASE u \in PartMirrored(t, c)
    <2>1. PICK gone \in SUBSET FilesUnder(t, c.to) : u \in Arriving(Without(t, gone), new)
      BY <1>3 DEF PartMirrored
    <2>2. PICK some \in SUBSET DOMAIN new : u \in Arrivals(Without(t, gone), Restrict(new, some))
      BY <2>1 DEF Arriving
    <2>3. gone \in SUBSET Under(t, c.to)
      BY DEF FilesUnder
    <2> HIDE DEF new
    <2> DEFINE arriving == Restrict(new, some)
    <2>4. Brought(t, arriving, c) /\ u \in Arrivals(Without(t, gone), arriving)
      BY <1>1, <2>2, SomeBrought
    <2> HIDE DEF arriving
    <2> QED
      BY <2>3, <2>4, MirroringIs
  <1> QED
    BY <1>2, <1>3

LEMMA ReconciledIs ==
    ASSUME NEW t, DOMAIN t \subseteq Places, NEW c \in Calls, c.only = None,
           NEW u \in Reconciled(t, c) \cup PartReconciled(t, c)
    PROVE  /\ DOMAIN u \subseteq Places /\ LosesOnly(t, u, c, {c.from, c.to})
           /\ ChangesOnly(t, u, Near(c.from) \cup Near(c.to))
  <1>1. /\ Swap(c) \in Calls /\ Swap(c).only = None /\ Swap(c).to = c.from
        /\ TargetOf(c) = c.to /\ TargetOf(Swap(c)) = c.from
    <2>1. Swap(c) \in Calls /\ Swap(c).only = None /\ Swap(c).to = c.from
      BY DEF Calls, Swap
    <2> QED
      BY <2>1, CallTypes
  <1>2. CASE u \in Mirrored(t, c) \cup PartMirrored(t, c)
    <2>1. DOMAIN u \subseteq Places /\ LosesOnly(t, u, c, {c.to}) /\ ChangesOnly(t, u, Near(c.to))
      BY <1>2, MirroredIs
    <2> QED
      BY <2>1 DEF LosesOnly, ChangesOnly
  <1>3. CASE u \in Mirrored(t, Swap(c)) \cup PartMirrored(t, Swap(c))
    <2>1. /\ DOMAIN u \subseteq Places /\ LosesOnly(t, u, Swap(c), {c.from})
          /\ ChangesOnly(t, u, Near(c.from))
      BY <1>1, <1>3, MirroredIs
    <2>2. \A p : Overwritten(t, u, Swap(c), p) => Within(p, c.from)
      BY <1>1 DEF Overwritten
    <2> QED
      BY <2>1, <2>2 DEF LosesOnly, ChangesOnly
  <1>4. ASSUME NEW w \in Copied(t, Swap(c)) \cup PartCopied(t, Swap(c)),
               u \in Copied(w, c) \cup PartCopied(w, c)
        PROVE  /\ DOMAIN u \subseteq Places /\ LosesOnly(t, u, c, {c.from, c.to})
               /\ ChangesOnly(t, u, Near(c.from) \cup Near(c.to))
    <2>1. DOMAIN w \subseteq Places /\ KeepsFiles(t, w, Swap(c)) /\ ChangesOnly(t, w, Near(c.from))
      BY <1>1, <1>4, CopiedIs, PartCopiedIs
    <2>2. DOMAIN u \subseteq Places /\ KeepsFiles(w, u, c) /\ ChangesOnly(w, u, Near(c.to))
      BY <1>1, <1>4, <2>1, CopiedIs, PartCopiedIs
    <2>3. ASSUME NEW p \in DOMAIN t, HasFile(t, p), t[p] \notin Contents(u)
          PROVE  Within(p, c.from) \/ Within(p, c.to)
      <3>1. HasFile(w, p) /\ (w[p] = t[p] \/ Within(p, c.from))
        BY <1>1, <2>1, <2>3 DEF KeepsFiles, Overwritten
      <3>2. HasFile(u, p) /\ (u[p] = w[p] \/ Within(p, c.to))
        BY <1>1, <2>2, <3>1 DEF KeepsFiles, Overwritten
      <3>3. u[p] # t[p]
        BY <2>3, <3>2 DEF Contents, HasFile
      <3> QED
        BY <3>1, <3>2, <3>3
    <2>4. LosesOnly(t, u, c, {c.from, c.to})
      BY <2>3 DEF LosesOnly
    <2> QED
      BY <2>1, <2>2, <2>4, ChangesAdd
  <1>5. \/ u \in Mirrored(t, c) \cup PartMirrored(t, c)
        \/ u \in Mirrored(t, Swap(c)) \cup PartMirrored(t, Swap(c))
        \/ \E w \in Copied(t, Swap(c)) \cup PartCopied(t, Swap(c)) :
               u \in Copied(w, c) \cup PartCopied(w, c)
    BY DEF Reconciled, PartReconciled
  <1> QED
    BY <1>2, <1>3, <1>4, <1>5

\* One thing comes at the destination, with the folders on the way to it.
Single(x, b) == [p \in {x} |-> b]

LEMMA OneArrives ==
    ASSUME NEW t, DOMAIN t \subseteq Places, NEW c \in Calls, c.only = None,
           NEW b, b \in {Dir, New} \/ (c.from \in DOMAIN t /\ b = t[c.from]),
           NEW u \in Arrivals(t, Single(c.to, b))
    PROVE  /\ DOMAIN u \subseteq Places /\ KeepsFiles(t, u, c)
           /\ c.to \in DOMAIN u /\ u[c.to] = b
           /\ ChangesOnly(t, u, Way(c.to))
  <1> DEFINE new == Single(c.to, b)
  <1>1. DOMAIN new = {c.to} /\ new[c.to] = b
    BY DEF Single
  <1> HIDE DEF new
  <1>2. u \in Arrivals(t, new)
    BY DEF new
  <1>3. /\ c.to \in Locations /\ c.from \in Locations
        /\ TargetOf(c) = c.to /\ SourceOf(c) = c.from
    BY CallTypes
  <1>4. Within(c.to, c.to) /\ Within(c.from, c.from)
    BY <1>3, WithinIs
  <1>5. Brought(t, new, c)
    BY <1>1, <1>3, <1>4 DEF Brought
  <1>6. /\ DOMAIN u \subseteq Places /\ KeepsFiles(t, u, c)
        /\ \A p \in DOMAIN new : p \in DOMAIN u /\ u[p] = new[p]
    BY <1>2, <1>5, BroughtIs
  <1>7. \A p : Changed(t, u, p) =>
            p \in DOMAIN new \/ \E q \in DOMAIN new : p \in AncestorsOf(q)
    BY <1>2, ArrivalsAre
  <1> QED
    BY <1>1, <1>6, <1>7 DEF ChangesOnly, Way

LEMMA RenamedIs ==
    ASSUME NEW t, DOMAIN t \subseteq Places, NEW c \in Calls, c.only = None,
           NEW v \in Renamed(t, c.from, c.to)
    PROVE  /\ DOMAIN v \subseteq Places /\ LosesOnly(t, v, c, {})
           /\ ChangesOnly(t, v, Way(c.to) \cup {c.from})
  <1> DEFINE gone == {c.from} \ {c.to}
  <1>1. PICK u \in Arrivals(t, Single(c.to, t[c.from])) : v = Without(u, gone)
    BY DEF Renamed, Single
  <1>2. HasFile(t, c.from)
    BY DEF Renamed
  <1>3. /\ DOMAIN u \subseteq Places /\ KeepsFiles(t, u, c)
        /\ c.to \in DOMAIN u /\ u[c.to] = t[c.from]
        /\ ChangesOnly(t, u, Way(c.to))
    BY <1>1, <1>2, OneArrives DEF HasFile
  <1>4. \A p \in gone : HasFile(t, p) => \E q \in DOMAIN u \ gone : u[q] = t[p]
    BY <1>3
  <1>g. gone \subseteq {c.from}
    OBVIOUS
  <1> HIDE DEF gone
  <1>5. LosesOnly(t, v, c, {})
    BY <1>1, <1>3, <1>4, StaysSomewhere
  <1>6. /\ DOMAIN v = DOMAIN u \ gone
        /\ \A p : Changed(u, v, p) => p \in gone \cap DOMAIN u
    BY <1>1, WithoutIs
  <1>7. ChangesOnly(u, v, {c.from})
    BY <1>6, <1>g DEF ChangesOnly
  <1>8. DOMAIN v \subseteq Places
    BY <1>3, <1>6
  <1> QED
    BY <1>3, <1>5, <1>7, <1>8, ChangesAdd

\* A folder is uploaded, or a part of it.
LEMMA UploadedIs ==
    ASSUME NEW t, DOMAIN t \subseteq Places, NEW c \in Calls, c.only = None,
           NEW new \in UploadedFolder(c.to), NEW u \in Arrivals(t, new) \cup Arriving(t, new)
    PROVE  /\ DOMAIN u \subseteq Places /\ KeepsFiles(t, u, c)
           /\ ChangesOnly(t, u, Near(TargetOf(c)))
  <1>1. c.to \in Locations /\ TargetOf(c) = c.to /\ Within(c.to, c.to)
    BY CallTypes, WithinIs
  <1>2. ASSUME NEW x \in Labels PROVE Join(c.to, x) \in Locations /\ Within(Join(c.to, x), c.to)
    BY <1>1, JoinIs, OperationsAssumption DEF Inside
  <1>3. Brought(t, new, c)
    <2>1. CASE new = [p \in {c.to} |-> Dir]
      <3>1. DOMAIN new = {c.to} /\ new[c.to] = Dir
        BY <2>1
      <3> QED
        BY <1>1, <3>1 DEF Brought
    <2>2. ASSUME NEW x \in Labels,
                 new = [p \in {c.to, Join(c.to, x)} |-> IF p = c.to THEN Dir ELSE New]
          PROVE  Brought(t, new, c)
      <3>1. DOMAIN new = {c.to, Join(c.to, x)} /\ \A p \in DOMAIN new : new[p] \in {Dir, New}
        BY <2>2
      <3> QED
        BY <1>1, <1>2, <3>1 DEF Brought
    <2> QED
      BY <2>1, <2>2 DEF UploadedFolder
  <1>4. CASE u \in Arrivals(t, new)
    BY <1>3, <1>4, BroughtIs
  <1>5. CASE u \in Arriving(t, new)
    <2>1. PICK some \in SUBSET DOMAIN new : u \in Arrivals(t, Restrict(new, some))
      BY <1>5 DEF Arriving
    <2> DEFINE arriving == Restrict(new, some)
    <2>2. Brought(t, arriving, c) /\ u \in Arrivals(t, arriving)
      BY <1>3, <2>1, SomeBrought
    <2> HIDE DEF arriving
    <2> QED
      BY <2>2, BroughtIs
  <1> QED
    BY <1>4, <1>5

\* What goes, where only folders go or only below a confirmed place.
LEMMA RemovedIs ==
    ASSUME NEW t, DOMAIN t \subseteq Places, NEW c, NEW gone, NEW S,
           \A p \in gone : HasFile(t, p) => \E a \in S : Within(p, a)
    PROVE  /\ DOMAIN Without(t, gone) \subseteq Places
           /\ LosesOnly(t, Without(t, gone), c, S)
           /\ ChangesOnly(t, Without(t, gone), gone)
  <1> DEFINE v == Without(t, gone)
  <1>1. /\ DOMAIN v = DOMAIN t \ gone
        /\ \A p : HasFile(t, p) /\ p \notin gone => HasFile(v, p)
        /\ \A p \in DOMAIN t : p \notin gone => v[p] = t[p]
        /\ \A p : Changed(t, v, p) => p \in gone \cap DOMAIN t
    BY WithoutIs
  <1> HIDE DEF v
  <1>2. ASSUME NEW p \in DOMAIN t, HasFile(t, p), t[p] \notin Contents(v)
        PROVE  \E a \in S : Within(p, a)
    <2>1. p \in gone
      BY <1>1, <1>2 DEF Contents, HasFile
    <2> QED
      BY <1>2, <2>1
  <1>3. LosesOnly(t, v, c, S) /\ ChangesOnly(t, v, gone) /\ DOMAIN v \subseteq Places
    BY <1>1, <1>2 DEF LosesOnly, ChangesOnly
  <1> QED
    BY <1>3 DEF v

\* The calls that Operation::build makes: a rule names the file of a deletion, and
\* mirrors and joins take whole folders.
CallFits(c) ==
    /\ c \in Calls
    /\ c.call = "delete" => c.only # None
    /\ c.call \notin {"copy", "move", "delete"} => c.only = None

\* What a call may lose, and where it may change the trees.
MayLose(c) ==
    {a \in {c.from, c.to, SourceOf(c)} :
        \/ c.call = "sync" /\ a = c.to
        \/ c.call = "bisync" /\ a \in {c.from, c.to}
        \/ c.call = "purge" /\ a = c.from
        \/ c.call = "delete" /\ a = SourceOf(c)}

Reach(c) ==
    (CASE c.call \in {"copy", "move", "sync", "bisync", "upload"} -> Near(TargetOf(c))
       [] c.call \in {"movefile", "mkdir", "copyurl"} -> Way(c.to)
       [] OTHER -> {})
    \cup (CASE c.call = "bisync" -> Near(c.from)
            [] c.call = "move" -> Leaving(c)
            [] c.call \in {"purge", "rmdirs"} -> Beneath(SourceOf(c))
            [] c.call \in {"movefile", "delete", "rmdir"} -> {SourceOf(c)}
            [] OTHER -> {})

LEMMA OutcomeIs ==
    ASSUME NEW t, DOMAIN t \subseteq Places, NEW c, CallFits(c), NEW u \in Outcomes(t, c) \cup PartOutcomes(t, c)
    PROVE  /\ DOMAIN u \subseteq Places /\ LosesOnly(t, u, c, MayLose(c))
           /\ ChangesOnly(t, u, Reach(c))
  <1> DEFINE Fine == DOMAIN u \subseteq Places /\ LosesOnly(t, u, c, MayLose(c))
                         /\ ChangesOnly(t, u, Reach(c))
  <1> SUFFICES Fine
    OBVIOUS
  <1>1. /\ c \in Calls /\ c.from \in Locations /\ c.to \in Locations
        /\ SourceOf(c) \in Locations /\ TargetOf(c) \in Locations
        /\ c.only = None => SourceOf(c) = c.from /\ TargetOf(c) = c.to
        /\ c.call \notin {"copy", "move", "delete"} => c.only = None
        /\ c.call = "delete" => c.only # None
    BY CallTypes DEF CallFits
  <1>2. \A S, R : /\ DOMAIN u \subseteq Places /\ LosesOnly(t, u, c, S) /\ S \subseteq MayLose(c)
                  /\ ChangesOnly(t, u, R) /\ R \subseteq Reach(c)
                  => Fine
    BY DEF LosesOnly, ChangesOnly
  <1> HIDE DEF Fine
  <1>3. CASE c.call = "copy"
    <2>1. u \in Copied(t, c) \cup PartCopied(t, c) /\ Near(TargetOf(c)) \subseteq Reach(c)
      BY <1>3 DEF Outcomes, PartOutcomes, Reach
    <2>2. /\ DOMAIN u \subseteq Places /\ LosesOnly(t, u, c, {})
          /\ ChangesOnly(t, u, Near(TargetOf(c)))
      BY <1>1, <2>1, CopiedIs, PartCopiedIs, KeepingLoses
    <2> QED
      BY <1>2, <2>1, <2>2
  <1>4. CASE c.call = "move"
    <2>1. /\ u \in Moved(t, c) \cup PartMoved(t, c)
          /\ Near(TargetOf(c)) \cup Leaving(c) \subseteq Reach(c)
      BY <1>4 DEF Outcomes, PartOutcomes, Reach
    <2>2. /\ DOMAIN u \subseteq Places /\ LosesOnly(t, u, c, {})
          /\ ChangesOnly(t, u, Near(TargetOf(c)) \cup Leaving(c))
      BY <1>1, <2>1, MovedIs, PartMovedIs
    <2> QED
      BY <1>2, <2>1, <2>2
  <1>5. CASE c.call = "sync"
    <2>1. /\ u \in Mirrored(t, c) \cup PartMirrored(t, c)
          /\ Near(c.to) \subseteq Reach(c) /\ {c.to} \subseteq MayLose(c)
      BY <1>1, <1>5 DEF Outcomes, PartOutcomes, Reach, MayLose
    <2>2. DOMAIN u \subseteq Places /\ LosesOnly(t, u, c, {c.to}) /\ ChangesOnly(t, u, Near(c.to))
      BY <1>1, <1>5, <2>1, MirroredIs
    <2> QED
      BY <1>2, <2>1, <2>2
  <1>6. CASE c.call = "bisync"
    <2>1. /\ u \in Reconciled(t, c) \cup PartReconciled(t, c)
          /\ Near(c.from) \cup Near(c.to) \subseteq Reach(c)
          /\ {c.from, c.to} \subseteq MayLose(c)
      BY <1>1, <1>6 DEF Outcomes, PartOutcomes, Reach, MayLose
    <2>2. /\ DOMAIN u \subseteq Places /\ LosesOnly(t, u, c, {c.from, c.to})
          /\ ChangesOnly(t, u, Near(c.from) \cup Near(c.to))
      BY <1>1, <1>6, <2>1, ReconciledIs
    <2> QED
      BY <1>2, <2>1, <2>2
  <1>7. CASE c.call = "movefile"
    <2>1. Way(c.to) \cup {c.from} \subseteq Reach(c) /\ Way(c.to) \subseteq Reach(c)
      BY <1>1, <1>7 DEF Reach
    <2>2. CASE u \in Renamed(t, c.from, c.to)
      <3>1. /\ DOMAIN u \subseteq Places /\ LosesOnly(t, u, c, {})
            /\ ChangesOnly(t, u, Way(c.to) \cup {c.from})
        BY <1>1, <1>7, <2>2, RenamedIs
      <3> QED
        BY <1>2, <2>1, <3>1
    <2>3. CASE HasFile(t, c.from) /\ u \in Arrivals(t, Single(c.to, t[c.from]))
      <3>1. /\ DOMAIN u \subseteq Places /\ KeepsFiles(t, u, c)
            /\ ChangesOnly(t, u, Way(c.to))
        BY <1>1, <1>7, <2>3, OneArrives DEF HasFile
      <3>2. LosesOnly(t, u, c, {})
        BY <3>1, KeepingLoses
      <3> QED
        BY <1>2, <2>1, <3>1, <3>2
    <2>4. \/ u \in Renamed(t, c.from, c.to)
          \/ HasFile(t, c.from) /\ u \in Arrivals(t, Single(c.to, t[c.from]))
      BY <1>7 DEF Outcomes, PartOutcomes, Single
    <2> QED
      BY <2>2, <2>3, <2>4
  <1>8. CASE c.call \in {"mkdir", "copyurl"}
    <2>1. Way(c.to) \subseteq Reach(c)
      BY <1>8 DEF Reach
    <2>2. PICK b \in {Dir, New} : u \in Arrivals(t, Single(c.to, b))
      BY <1>8 DEF Outcomes, PartOutcomes, Single
    <2>3. DOMAIN u \subseteq Places /\ KeepsFiles(t, u, c) /\ ChangesOnly(t, u, Way(c.to))
      BY <1>1, <1>8, <2>2, OneArrives
    <2>4. LosesOnly(t, u, c, {})
      BY <2>3, KeepingLoses
    <2> QED
      BY <1>2, <2>1, <2>3, <2>4
  <1>16. CASE c.call = "upload"
    <2>1. Near(TargetOf(c)) \subseteq Reach(c)
      BY <1>16 DEF Reach
    <2>2. PICK new \in UploadedFolder(c.to) : u \in Arrivals(t, new) \cup Arriving(t, new)
      BY <1>16 DEF Outcomes, PartOutcomes
    <2>3. /\ DOMAIN u \subseteq Places /\ KeepsFiles(t, u, c)
          /\ ChangesOnly(t, u, Near(TargetOf(c)))
      BY <1>1, <1>16, <2>2, UploadedIs
    <2>4. LosesOnly(t, u, c, {})
      BY <2>3, KeepingLoses
    <2> QED
      BY <1>2, <2>1, <2>3, <2>4
  <1>9. ASSUME NEW gone, u = Without(t, gone),
               \A p \in gone : HasFile(t, p) => \E a \in MayLose(c) : Within(p, a),
               \A p \in gone : p \in Places => p \in Reach(c)
        PROVE  Fine
    <2>1. DOMAIN u \subseteq Places /\ LosesOnly(t, u, c, MayLose(c)) /\ ChangesOnly(t, u, gone)
      BY <1>9, RemovedIs
    <2>2. ChangesOnly(t, u, Reach(c))
      BY <1>9, <2>1 DEF ChangesOnly
    <2> QED
      BY <2>1, <2>2 DEF Fine
  <1>10. CASE c.call = "purge"
    <2>1. /\ Beneath(c.from) \subseteq Reach(c) /\ c.from \in MayLose(c)
      BY <1>1, <1>10 DEF Reach, MayLose
    <2>2. ASSUME NEW gone, u = Without(t, gone), gone \subseteq Under(t, c.from) \cup {c.from}
          PROVE  Fine
      <3>1. \A p \in gone : Within(p, c.from)
        BY <1>1, <2>2, WithinIs DEF Under, Inside
      <3> QED
        BY <1>9, <2>1, <2>2, <3>1, LocationsAre DEF Beneath
    <2>3. CASE u \in Outcomes(t, c)
      BY <1>10, <2>2, <2>3 DEF Outcomes
    <2>4. CASE u \in PartOutcomes(t, c)
      <3>1. PICK some \in SUBSET Under(t, c.from) : u = Removed(t, some)
        BY <1>10, <2>4 DEF PartOutcomes
      <3> DEFINE gone == some \cup UNION {Under(t, p) : p \in some}
      <3>2. u = Without(t, gone)
        BY <3>1 DEF Removed
      <3>3. ASSUME NEW p \in some, NEW q \in Under(t, p) PROVE q \in Under(t, c.from)
        <4>1. /\ q \in DOMAIN t /\ q \in Locations /\ p \in Locations
              /\ Inside(q, p) /\ Inside(p, c.from)
          BY LocationsAre DEF Under
        <4>2. Inside(q, c.from)
          BY <1>1, <4>1, InsideFar DEF Inside
        <4> QED
          BY <4>1, <4>2 DEF Under
      <3>4. gone \subseteq Under(t, c.from)
        BY <3>3
      <3> HIDE DEF gone
      <3> QED
        BY <2>2, <3>2, <3>4
    <2> QED
      BY <2>3, <2>4
  <1>11. CASE c.call = "delete"
    <2>1. u = Without(t, {p \in Chosen(t, c) : t[p] # Dir})
      BY <1>11 DEF Outcomes, PartOutcomes
    <2>2. SourceOf(c) \in Reach(c) /\ SourceOf(c) \in MayLose(c)
      BY <1>1, <1>11 DEF Reach, MayLose
    <2>3. \A p \in Chosen(t, c) : p = SourceOf(c)
      BY <1>1, <1>11, ChosenAre
    <2>4. Within(SourceOf(c), SourceOf(c))
      BY <1>1, WithinIs
    <2> QED
      BY <1>9, <2>1, <2>2, <2>3, <2>4
  <1>12. CASE c.call = "rmdir"
    <2>1. u = Without(t, {c.from}) /\ HasDir(t, c.from)
      BY <1>12 DEF Outcomes, PartOutcomes
    <2>2. c.from \in Reach(c)
      BY <1>1, <1>12 DEF Reach
    <2>3. ~HasFile(t, c.from)
      BY <2>1, LocationsAre DEF HasDir, HasFile
    <2> QED
      BY <1>9, <2>1, <2>2, <2>3
  <1>13. CASE c.call = "rmdirs"
    <2>1. Beneath(c.from) \subseteq Reach(c)
      BY <1>1, <1>13 DEF Reach
    <2>2. ASSUME NEW gone, u = Without(t, gone),
                 \A p \in gone : ~HasFile(t, p) /\ Within(p, c.from)
          PROVE  Fine
      BY <1>9, <2>1, <2>2, LocationsAre DEF Beneath
    <2>3. \A p \in EmptyDirs(t, c.from) : ~HasFile(t, p) /\ Within(p, c.from)
      BY DEF EmptyDirs, HasFile
    <2>4. CASE u \in Outcomes(t, c)
      <3>1. u = Without(t, EmptyDirs(t, c.from))
        BY <1>13, <2>4 DEF Outcomes
      <3> QED
        BY <2>2, <2>3, <3>1
    <2>5. CASE u \in PartOutcomes(t, c)
      <3>1. PICK some \in SUBSET EmptyDirs(t, c.from) : u = Removed(t, some)
        BY <1>13, <2>5 DEF PartOutcomes
      <3> DEFINE gone == some \cup UNION {Under(t, p) : p \in some}
      <3>2. u = Without(t, gone)
        BY <3>1 DEF Removed
      <3>3. ASSUME NEW p \in some, NEW q \in Under(t, p)
            PROVE  ~HasFile(t, q) /\ Within(q, c.from)
        <4>1. /\ q \in DOMAIN t /\ q \in Locations /\ p \in Locations
              /\ Inside(q, p) /\ Within(p, c.from) /\ FilesUnder(t, p) = {}
          BY LocationsAre DEF Under, EmptyDirs
        <4>2. Within(q, c.from)
          BY <1>1, <4>1, WithinIs DEF Inside
        <4> QED
          BY <4>1, <4>2 DEF FilesUnder, HasFile
      <3>4. \A p \in gone : ~HasFile(t, p) /\ Within(p, c.from)
        BY <2>3, <3>3
      <3> HIDE DEF gone
      <3> QED
        BY <2>2, <3>2, <3>4
    <2> QED
      BY <2>4, <2>5
  <1>14. CASE c.call = "keep"
    <2>1. u = t
      BY <1>14 DEF Outcomes, PartOutcomes
    <2>2. LosesOnly(t, u, c, {}) /\ ChangesOnly(t, u, {})
      BY <2>1 DEF LosesOnly, ChangesOnly, Changed, Contents, HasFile
    <2> QED
      BY <1>2, <2>1, <2>2
  <1>15. c.call \in CallNames
    BY <1>1 DEF Calls
  <1> QED
    BY <1>3, <1>4, <1>5, <1>6, <1>7, <1>8, <1>10, <1>11, <1>12, <1>13, <1>14, <1>15, <1>16 DEF CallNames

-----------------------------------------------------------------------------
(* What a job announces and what was confirmed of it cover what its call does.  *)

Announced(j, x) ==
    /\ Parent(x) \in AffectedDirs(j)
    /\ \A p \in AncestorsOf(x) :
           Parent(p) \in AffectedDirs(j) \/ \E e \in j.targets : p \in AncestorsOf(e.at)

ArrivingCalls == {"copy", "move", "sync", "bisync", "movefile", "mkdir", "copyurl",
                  "upload"}
RemovingCalls == {"move", "bisync", "movefile", "purge", "delete", "rmdir", "rmdirs"}

Announces(j) ==
    /\ j.does.call \in ArrivingCalls => Announced(j, TargetOf(j.does))
    /\ j.does.call \in RemovingCalls => Announced(j, SourceOf(j.does))
    /\ j.does.call \in {"sync", "bisync", "upload"} => j.does.to \in AffectedDirs(j)
    /\ j.does.call = "bisync" => j.does.from \in AffectedDirs(j)
    /\ j.does.call \in {"move", "purge", "rmdirs"} =>
           \E e \in j.targets : e.at = SourceOf(j.does)

JobFits(j) ==
    /\ CallFits(j.does)
    /\ MayLose(j.does) \subseteq j.confirmed
    /\ Announces(j)

\* What NothingLostUnasked and ChangesInAffectedDirs say of a job that ends.
LostAsAsked(j) ==
    \A p \in DOMAIN tree :
        tree[p] \in Contents(tree) \ Contents(tree') =>
            \/ Overwritten(tree, tree', j.does, p)
            \/ \E a \in j.confirmed : Within(p, a)

ChangedAsAnnounced(j) ==
    \A p \in Places :
        Changed(tree, tree', p) =>
            \/ Parent(p) \in AffectedDirs(j)
            \/ Deep(j, p)
            \/ \E e \in j.targets : p \in AncestorsOf(e.at)

LEMMA ReachAnnounced ==
    ASSUME NEW j, JobFits(j), NEW p \in Places, p \in Reach(j.does)
    PROVE  \/ Parent(p) \in AffectedDirs(j)
           \/ Deep(j, p)
           \/ \E e \in j.targets : p \in AncestorsOf(e.at)
  <1> DEFINE c == j.does
             Told == \/ Parent(p) \in AffectedDirs(j)
                     \/ Deep(j, p)
                     \/ \E e \in j.targets : p \in AncestorsOf(e.at)
  <1> SUFFICES Told
    OBVIOUS
  <1>1. /\ c \in Calls /\ SourceOf(c) \in Locations /\ TargetOf(c) \in Locations
        /\ c.only = None => SourceOf(c) = c.from /\ TargetOf(c) = c.to
        /\ c.call \notin {"copy", "move", "delete"} => c.only = None
    BY CallTypes DEF JobFits, CallFits
  <1>2. /\ c.call \in ArrivingCalls => Announced(j, TargetOf(c))
        /\ c.call \in RemovingCalls => Announced(j, SourceOf(c))
        /\ c.call \in {"sync", "bisync", "upload"} => c.to \in AffectedDirs(j)
        /\ c.call = "bisync" => c.from \in AffectedDirs(j)
        /\ c.call \in {"move", "purge", "rmdirs"} => \E e \in j.targets : e.at = SourceOf(c)
    BY DEF JobFits, Announces
  <1>3. p \in Locations
    BY LocationsAre
  <1>4. ASSUME NEW x, Announced(j, x), p \in Way(x) PROVE Told
    BY <1>4 DEF Announced, Way
  <1>5. ASSUME NEW a \in {SourceOf(c), TargetOf(c)}, Inside(p, a), a \in AffectedDirs(j) PROVE Told
    <2>1. Parent(p) = a \/ Inside(Parent(p), a)
      BY <1>1, <1>3, <1>5, InsideOut
    <2> QED
      BY <1>5, <2>1 DEF Deep
  <1>6. ASSUME NEW a \in {SourceOf(c), TargetOf(c)}, Inside(p, a), NEW e \in j.targets, e.at = a
        PROVE  Told
    <2>1. CASE e.dir
      BY <1>5, <1>6, <2>1 DEF AffectedDirs
    <2>2. CASE ~e.dir
      BY <1>6, <2>2 DEF Deep
    <2> QED
      BY <2>1, <2>2
  <1>7. ASSUME c.call \in {"copy", "move"}, Inside(p, TargetOf(c)) PROVE Told
    <2>1. CASE \E e \in j.targets : e.at = TargetOf(c)
      BY <1>6, <1>7, <2>1
    <2>2. CASE \A e \in j.targets : e.at # TargetOf(c)
      BY <1>7, <2>2 DEF Deep
    <2> QED
      BY <2>1, <2>2
  <1> HIDE DEF c, Told
  <1>8. CASE p \in Near(TargetOf(c)) /\ c.call \in {"copy", "move", "sync", "bisync", "upload"}
    <2>1. Announced(j, TargetOf(c))
      BY <1>2, <1>8 DEF ArrivingCalls
    <2>2. p \in Way(TargetOf(c)) \/ Inside(p, TargetOf(c))
      BY <1>8 DEF Near, Way, Inside
    <2>3. ASSUME Inside(p, TargetOf(c)) PROVE Told
      BY <1>1, <1>2, <1>5, <1>7, <1>8, <2>3
    <2> QED
      BY <1>4, <2>1, <2>2, <2>3
  <1>9. CASE p \in Way(c.to) /\ c.call \in {"movefile", "mkdir", "copyurl"}
    BY <1>1, <1>2, <1>4, <1>9 DEF ArrivingCalls
  <1>10. CASE p \in Near(c.from) /\ c.call = "bisync"
    <2>1. Announced(j, SourceOf(c)) /\ SourceOf(c) = c.from
      BY <1>1, <1>2, <1>10 DEF RemovingCalls
    <2>2. p \in Way(SourceOf(c)) \/ Inside(p, SourceOf(c))
      BY <1>10, <2>1 DEF Near, Way, Inside
    <2> QED
      BY <1>2, <1>4, <1>5, <1>10, <2>1, <2>2
  <1>11. CASE p \in Beneath(SourceOf(c)) /\ c.call \in {"move", "purge", "rmdirs"}
    <2>1. Announced(j, SourceOf(c))
      BY <1>2, <1>11 DEF RemovingCalls
    <2>2. p \in Way(SourceOf(c)) \/ Inside(p, SourceOf(c))
      BY <1>11 DEF Beneath, Way, Inside
    <2> QED
      BY <1>2, <1>4, <1>6, <1>11, <2>1, <2>2
  <1>12. CASE p = SourceOf(c) /\ c.call \in {"move", "movefile", "delete", "rmdir"}
    BY <1>2, <1>4, <1>12 DEF RemovingCalls, Way
  <1>13. \/ p \in Near(TargetOf(c)) /\ c.call \in {"copy", "move", "sync", "bisync", "upload"}
         \/ p \in Way(c.to) /\ c.call \in {"movefile", "mkdir", "copyurl"}
         \/ p \in Near(c.from) /\ c.call = "bisync"
         \/ p \in Leaving(c) /\ c.call = "move"
         \/ p \in Beneath(SourceOf(c)) /\ c.call \in {"purge", "rmdirs"}
         \/ p = SourceOf(c) /\ c.call \in {"movefile", "delete", "rmdir"}
    BY DEF Reach, c
  <1>14. p \in Leaving(c) => p \in Beneath(SourceOf(c)) \/ p = SourceOf(c)
    BY <1>1 DEF Leaving
  <1> QED
    BY <1>8, <1>9, <1>10, <1>11, <1>12, <1>13, <1>14

LEMMA EndedFits ==
    ASSUME DOMAIN tree \subseteq Places, NEW j, JobFits(j),
           tree' \in Outcomes(tree, j.does) \cup PartOutcomes(tree, j.does) \cup {tree}
    PROVE  DOMAIN tree' \subseteq Places /\ LostAsAsked(j) /\ ChangedAsAnnounced(j)
  <1>1. CallFits(j.does) /\ MayLose(j.does) \subseteq j.confirmed
    BY DEF JobFits
  <1>2. /\ DOMAIN tree' \subseteq Places
        /\ LosesOnly(tree, tree', j.does, MayLose(j.does))
        /\ ChangesOnly(tree, tree', Reach(j.does))
    <2>1. CASE tree' = tree
      BY <2>1 DEF LosesOnly, ChangesOnly, Changed, Contents, HasFile
    <2>2. CASE tree' \in Outcomes(tree, j.does) \cup PartOutcomes(tree, j.does)
      BY <1>1, <2>2, OutcomeIs
    <2> QED
      BY <2>1, <2>2
  <1>3. LostAsAsked(j)
    <2> SUFFICES ASSUME NEW p \in DOMAIN tree, tree[p] \in Contents(tree) \ Contents(tree')
                 PROVE  \/ Overwritten(tree, tree', j.does, p)
                        \/ \E a \in j.confirmed : Within(p, a)
      BY DEF LostAsAsked
    <2>1. HasFile(tree, p) /\ tree[p] \notin Contents(tree')
      BY DEF HasFile, Contents
    <2> QED
      BY <1>1, <1>2, <2>1 DEF LosesOnly
  <1>4. ChangedAsAnnounced(j)
    BY <1>2, ReachAnnounced DEF ChangedAsAnnounced, ChangesOnly
  <1> QED
    BY <1>2, <1>3, <1>4

-----------------------------------------------------------------------------
(* The jobs that gestures make.                                                 *)

RemoteEntries == {e \in [at : Locations, dir : BOOLEAN] : e.at \in Roots => e.dir}

LEMMA TargetAnnounced ==
    ASSUME NEW j, NEW e \in j.targets
    PROVE  Announced(j, e.at)
  BY DEF Announced, AffectedDirs

LEMMA BelowAnnounced ==
    ASSUME NEW j, NEW d \in Locations, [at |-> d, dir |-> TRUE] \in j.targets,
           NEW x \in Labels \cup {None}
    PROVE  d \in AffectedDirs(j) /\ Announced(j, d) /\ Announced(j, Join(d, x))
  <1> DEFINE e == [at |-> d, dir |-> TRUE]
  <1>1. e.at = d /\ e.dir /\ e \in j.targets
    OBVIOUS
  <1> HIDE DEF e
  <1>2. d \in AffectedDirs(j) /\ Parent(d) \in AffectedDirs(j)
    BY <1>1 DEF AffectedDirs
  <1>3. Announced(j, d)
    BY <1>1, TargetAnnounced
  <1>4. CASE x = None
    BY <1>2, <1>3, <1>4, JoinIs
  <1>5. CASE x # None
    <2>1. Parent(Join(d, x)) = d
      BY <1>5, JoinIs
    <2>2. \A p \in AncestorsOf(Join(d, x)) : p = d \/ p \in AncestorsOf(d)
      BY BelowOneLabel
    <2>3. Announced(j, Join(d, x))
      BY <1>2, <1>3, <2>1, <2>2 DEF Announced
    <2> QED
      BY <1>2, <1>3, <2>3
  <1> QED
    BY <1>4, <1>5

LEMMA BesideAnnounced ==
    ASSUME NEW j, NEW e \in j.targets, e.at \in Locations, NEW x \in Labels, x # None
    PROVE  Announced(j, Join(Parent(e.at), x))
  <1> DEFINE d == Parent(e.at)
  <1>1. d \in Locations /\ d \in AffectedDirs(j)
    BY ParentIs DEF AffectedDirs
  <1>2. Parent(Join(d, x)) = d
    BY <1>1, JoinIs
  <1>3. ASSUME NEW p \in AncestorsOf(Join(d, x)) PROVE p \in AncestorsOf(e.at)
    <2>1. p \in Locations \ Roots /\ (p = d \/ p \in AncestorsOf(d))
      BY <1>1, BelowOneLabel
    <2>2. Within(d, p)
      BY <1>1, <2>1, AncestorsAre, WithinIs DEF Inside
    <2>3. CASE e.at \in Roots
      <3>1. d = e.at
        BY <2>3, ParentIs, LocationsAre
      <3>2. d # p
        BY <2>1, <2>3, <3>1
      <3>3. Inside(d, p)
        BY <2>2, <3>2 DEF Inside
      <3> QED
        BY <1>1, <2>1, <3>1, <3>3, AncestorsAre
    <2>4. CASE e.at \notin Roots
      <3>1. Inside(e.at, d)
        BY <2>4, InsideOut
      <3>2. Inside(e.at, p)
        BY <1>1, <2>1, <2>2, <3>1, InsideFar
      <3> QED
        BY <2>1, <3>2, AncestorsAre
    <2> QED
      BY <2>3, <2>4
  <1> HIDE DEF d
  <1> QED
    BY <1>1, <1>2, <1>3 DEF Announced, d

LEMMA CallIs ==
    ASSUME NEW n \in CallNames, NEW a \in Locations, NEW b \in Locations, NEW x \in Labels \cup {None}
    PROVE  LET c == Call(n, a, b, x)
           IN  /\ c \in Calls /\ c.call = n /\ c.from = a /\ c.to = b /\ c.only = x
               /\ x = None => SourceOf(c) = a /\ TargetOf(c) = b
  <1> DEFINE c == Call(n, a, b, x)
  <1>1. c \in Calls /\ c.call = n /\ c.from = a /\ c.to = b /\ c.only = x
    BY DEF Call, Calls
  <1> HIDE DEF c
  <1>2. x = None => SourceOf(c) = a /\ TargetOf(c) = b
    BY <1>1, CallTypes
  <1> QED
    BY <1>1, <1>2 DEF c

\* An entry through its parent and its name.
LEMMA EntryIs ==
    ASSUME NEW e \in RemoteEntries
    PROVE  /\ e.at \in Locations /\ e.dir \in BOOLEAN /\ Parent(e.at) \in Locations
           /\ e.at \in Roots => e.dir
           /\ e.at \notin Roots => /\ Leaf(e.at) \in Labels /\ Leaf(e.at) # None
                                   /\ Basename(e.at) = Leaf(e.at)
                                   /\ Join(Parent(e.at), Leaf(e.at)) = e.at
           /\ Basename(e.at) \in Labels \cup {None}
           /\ e.dir => e = [at |-> e.at, dir |-> TRUE]
  <1>1. e.at \in Locations /\ e.dir \in BOOLEAN /\ (e.at \in Roots => e.dir)
    BY DEF RemoteEntries
  <1>2. e.dir => e = [at |-> e.at, dir |-> TRUE]
    BY DEF RemoteEntries
  <1>3. e.at \in Roots => Basename(e.at) = None
    BY <1>1, LocationsAre DEF Basename
  <1>4. ASSUME e.at \notin Roots
        PROVE  /\ Leaf(e.at) \in Labels /\ Leaf(e.at) # None
               /\ Basename(e.at) = Leaf(e.at)
               /\ Join(Parent(e.at), Leaf(e.at)) = e.at
    <2>1. e.at[2] # <<>>
      BY <1>1, <1>4, LocationsAre
    <2>2. /\ Leaf(e.at) \in Labels /\ e.at = <<e.at[1], Append(Parent(e.at)[2], Leaf(e.at))>>
          /\ Parent(e.at)[1] = e.at[1]
      BY <1>1, <2>1, ParentIs
    <2>3. Leaf(e.at) # None
      BY <2>2, OperationsAssumption
    <2> QED
      BY <2>1, <2>2, <2>3 DEF Basename, Join
  <1> QED
    BY <1>1, <1>2, <1>3, <1>4, ParentIs

LEMMA TransferIs ==
    ASSUME NEW e \in RemoteEntries, NEW d \in Locations, NEW mode \in {"copy", "move"}
    PROVE  LET c == Transfer(mode, e, d)
           IN  /\ CallFits(c) /\ c.call = mode /\ SourceOf(c) = e.at
               /\ TargetOf(c) = Join(d, Basename(e.at)) /\ MayLose(c) = {}
  <1> DEFINE c == Transfer(mode, e, d)
  <1>1. mode \in CallNames
    BY DEF CallNames
  <1>2. c \in Calls /\ c.call = mode /\ SourceOf(c) = e.at /\ TargetOf(c) = Join(d, Basename(e.at))
    <2>1. CASE e.dir
      <3>1. c = Call(mode, e.at, Join(d, Basename(e.at)), None)
        BY <2>1 DEF Transfer
      <3>2. e.at \in Locations /\ Join(d, Basename(e.at)) \in Locations
        BY EntryIs, JoinIs
      <3> HIDE DEF c
      <3> QED
        BY <1>1, <3>1, <3>2, CallIs
    <2>2. CASE ~e.dir
      <3>1. c = Call(mode, Parent(e.at), d, Leaf(e.at))
        BY <2>2 DEF Transfer
      <3>2. /\ Parent(e.at) \in Locations /\ Leaf(e.at) \in Labels
            /\ Basename(e.at) = Leaf(e.at) /\ Join(Parent(e.at), Leaf(e.at)) = e.at
        BY <2>2, EntryIs
      <3> HIDE DEF c
      <3>3. /\ c \in Calls /\ c.call = mode /\ c.from = Parent(e.at) /\ c.to = d
            /\ c.only = Leaf(e.at)
        BY <1>1, <3>1, <3>2, CallIs
      <3> QED
        BY <3>2, <3>3 DEF SourceOf, TargetOf
    <2> QED
      BY <2>1, <2>2, EntryIs
  <1> HIDE DEF c
  <1>3. CallFits(c) /\ MayLose(c) = {}
    BY <1>2 DEF CallFits, MayLose
  <1> QED
    BY <1>2, <1>3 DEF c

LEMMA JobIs ==
    ASSUME NEW c, NEW T, NEW S
    PROVE  LET j == Job(c, T, S) IN j.does = c /\ j.targets = T /\ j.confirmed = S
  BY DEF Job

LEMMA TransferJobFits ==
    ASSUME NEW e \in RemoteEntries, e.at \notin Roots, NEW d \in Locations,
           NEW mode \in {"copy", "move"}
    PROVE  JobFits(TransferJob(mode, e, d))
  <1> DEFINE j == TransferJob(mode, e, d)
             c == Transfer(mode, e, d)
             z == [at |-> Join(d, Leaf(e.at)), dir |-> e.dir]
  <1>1. j.does = c /\ j.targets = {e, z} /\ j.confirmed = {} /\ z.at = Join(d, Leaf(e.at))
    BY JobIs DEF TransferJob
  <1>2. /\ CallFits(c) /\ c.call = mode /\ SourceOf(c) = e.at
        /\ TargetOf(c) = Join(d, Basename(e.at)) /\ MayLose(c) = {}
    BY TransferIs
  <1>3. Basename(e.at) = Leaf(e.at)
    BY EntryIs
  <1> HIDE DEF j, c, z
  <1>4. Announced(j, SourceOf(c)) /\ Announced(j, TargetOf(c))
    <2>1. e \in j.targets /\ z \in j.targets
      BY <1>1
    <2>2. Announced(j, e.at) /\ Announced(j, z.at)
      BY <2>1, TargetAnnounced
    <2> QED
      BY <1>1, <1>2, <1>3, <2>2
  <1>5. e \in j.targets /\ e.at = SourceOf(c)
    BY <1>1, <1>2
  <1>6. JobFits(j)
    BY <1>1, <1>2, <1>4, <1>5 DEF JobFits, Announces
  <1> QED
    BY <1>6 DEF j

LEMMA DeleteFits ==
    ASSUME NEW e \in RemoteEntries
    PROVE  JobFits(Job(DeleteCall(e), {e}, {e.at}))
  <1> DEFINE c == DeleteCall(e)
             j == Job(c, {e}, {e.at})
  <1>1. j.does = c /\ j.targets = {e} /\ j.confirmed = {e.at}
    BY JobIs
  <1>2. /\ c \in Calls /\ c.call \in {"purge", "delete"} /\ SourceOf(c) = e.at
        /\ c.call = "purge" => c.only = None /\ c.from = e.at
        /\ c.call = "delete" => c.only # None
    <2>1. CASE e.dir
      <3>1. c = Call("purge", e.at, e.at, None)
        BY <2>1 DEF DeleteCall
      <3> HIDE DEF c
      <3> QED
        BY <3>1, EntryIs, CallIs DEF CallNames
    <2>2. CASE ~e.dir
      <3>1. c = Call("delete", Parent(e.at), e.at, Leaf(e.at))
        BY <2>2 DEF DeleteCall
      <3>2. /\ Parent(e.at) \in Locations /\ Leaf(e.at) \in Labels /\ Leaf(e.at) # None
            /\ Join(Parent(e.at), Leaf(e.at)) = e.at /\ e.at \in Locations
        BY <2>2, EntryIs
      <3> HIDE DEF c
      <3>3. c \in Calls /\ c.call = "delete" /\ c.from = Parent(e.at) /\ c.only = Leaf(e.at)
        BY <3>1, <3>2, CallIs DEF CallNames
      <3> QED
        BY <3>2, <3>3 DEF SourceOf
    <2> QED
      BY <2>1, <2>2, EntryIs
  <1> HIDE DEF c, j
  <1>3. CallFits(c) /\ MayLose(c) \subseteq {e.at}
    BY <1>2 DEF CallFits, MayLose
  <1>4. Announced(j, SourceOf(c))
    BY <1>1, <1>2, TargetAnnounced
  <1>5. JobFits(j)
    BY <1>1, <1>2, <1>3, <1>4 DEF JobFits, Announces, ArrivingCalls
  <1> QED
    BY <1>5 DEF j, c

\* A call that makes one thing, at a place the row names or in a folder it names.
LEMMA MakingFits ==
    ASSUME NEW n \in {"mkdir", "copyurl", "upload"}, NEW d \in Locations, NEW name \in Labels, NEW T,
           \/ n # "upload" /\ [at |-> d, dir |-> TRUE] \in T
           \/ \E e \in T : e.at = Join(d, name) /\ (n = "upload" => e.dir)
    PROVE  JobFits(Job(Call(n, d, Join(d, name), None), T, {}))
  <1> DEFINE c == Call(n, d, Join(d, name), None)
             j == Job(c, T, {})
  <1>1. j.does = c /\ j.targets = T /\ j.confirmed = {}
    BY JobIs
  <1>2. Join(d, name) \in Locations /\ n \in CallNames
    BY JoinIs DEF CallNames
  <1>3. /\ c \in Calls /\ c.call = n /\ c.only = None
        /\ c.to = Join(d, name) /\ TargetOf(c) = Join(d, name)
    BY <1>2, CallIs
  <1> HIDE DEF c, j
  <1>4. CallFits(c) /\ MayLose(c) = {}
    BY <1>3 DEF CallFits, MayLose
  <1>5. Announced(j, TargetOf(c))
    BY <1>1, <1>3, TargetAnnounced, BelowAnnounced
  <1>7. n = "upload" => c.to \in AffectedDirs(j)
    BY <1>1, <1>3 DEF AffectedDirs
  <1>6. JobFits(j)
    BY <1>1, <1>3, <1>4, <1>5, <1>7 DEF JobFits, Announces, RemovingCalls
  <1> QED
    BY <1>6 DEF j, c

LEMMA KeepingFits ==
    ASSUME NEW e \in RemoteEntries, NEW T, NEW S
    PROVE  JobFits(Job(Untouched(e), T, S))
  <1> DEFINE c == Untouched(e)
             j == Job(c, T, S)
  <1>1. j.does = c /\ j.targets = T /\ j.confirmed = S
    BY JobIs
  <1>2. c \in Calls /\ c.call = "keep" /\ c.only = None
    BY EntryIs, CallIs DEF Untouched, CallNames
  <1> HIDE DEF c, j
  <1>3. JobFits(j)
    BY <1>1, <1>2 DEF JobFits, Announces, CallFits, MayLose, ArrivingCalls, RemovingCalls
  <1> QED
    BY <1>3 DEF j, c

LEMMA RenameFits ==
    ASSUME NEW e \in RemoteEntries, NEW name \in Labels, NEW T, e \in T
    PROVE  JobFits(Job(RenameCall(e, name), T, {}))
  <1> DEFINE n == IF e.dir THEN "move" ELSE "movefile"
             b == Join(Parent(e.at), name)
             c == RenameCall(e, name)
             j == Job(c, T, {})
  <1>1. j.does = c /\ j.targets = T /\ j.confirmed = {}
    BY JobIs
  <1>2. c = Call(n, e.at, b, None) /\ n \in CallNames /\ n \in {"move", "movefile"}
    BY DEF RenameCall, CallNames
  <1>3. e.at \in Locations /\ b \in Locations /\ name # None
    BY EntryIs, JoinIs, OperationsAssumption
  <1> HIDE DEF c, j, n
  <1>4. Announced(j, b) /\ Announced(j, e.at)
    BY <1>1, <1>3, TargetAnnounced, BesideAnnounced
  <1> HIDE DEF b
  <1>5. c \in Calls /\ c.call = n /\ c.only = None /\ TargetOf(c) = b /\ SourceOf(c) = e.at
    BY <1>2, <1>3, CallIs
  <1>6. CallFits(c) /\ MayLose(c) = {}
    BY <1>2, <1>5 DEF CallFits, MayLose
  <1>7. JobFits(j)
    BY <1>1, <1>2, <1>4, <1>5, <1>6 DEF JobFits, Announces
  <1> QED
    BY <1>7 DEF j, c

\* A mirror, or a two-way sync, of whole folders.
LEMMA MirrorFits ==
    ASSUME NEW n \in {"copy", "sync", "bisync"}, NEW a \in Locations, NEW b \in Locations, NEW T, NEW S,
           [at |-> b, dir |-> TRUE] \in T,
           n = "sync" => b \in S,
           n = "bisync" => {a, b} \subseteq S /\ [at |-> a, dir |-> TRUE] \in T
    PROVE  JobFits(Job(Call(n, a, b, None), T, S))
  <1> DEFINE c == Call(n, a, b, None)
             j == Job(c, T, S)
  <1>1. j.does = c /\ j.targets = T /\ j.confirmed = S
    BY JobIs
  <1>2. n \in CallNames
    BY DEF CallNames
  <1>3. /\ c \in Calls /\ c.call = n /\ c.from = a /\ c.to = b /\ c.only = None
        /\ SourceOf(c) = a /\ TargetOf(c) = b
    BY <1>2, CallIs
  <1> HIDE DEF c, j
  <1>4. CallFits(c) /\ MayLose(c) \subseteq S
    BY <1>3 DEF CallFits, MayLose
  <1>5. b \in AffectedDirs(j) /\ Announced(j, b)
    BY <1>1, BelowAnnounced
  <1>6. n = "bisync" => a \in AffectedDirs(j) /\ Announced(j, a)
    BY <1>1, BelowAnnounced
  <1>7. JobFits(j)
    BY <1>1, <1>3, <1>4, <1>5, <1>6 DEF JobFits, Announces, RemovingCalls
  <1> QED
    BY <1>7 DEF j, c

LEMMA SyncJobFits ==
    ASSUME NEW mode \in {"Copy", "Mirror", "Bisync"}, NEW a \in Locations, NEW b \in Locations
    PROVE  JobFits(SyncJob(mode, a, b))
  <1> DEFINE n == CASE mode = "Copy" -> "copy" [] mode = "Mirror" -> "sync" [] mode = "Bisync" -> "bisync"
             S == CASE mode = "Copy" -> {} [] mode = "Mirror" -> {b} [] mode = "Bisync" -> {a, b}
             T == {[at |-> a, dir |-> TRUE], [at |-> b, dir |-> TRUE]}
  <1>1. SyncJob(mode, a, b) = Job(Call(n, a, b, None), T, S)
    BY DEF SyncJob, SyncCall
  <1>2. /\ n \in {"copy", "sync", "bisync"}
        /\ n = "sync" => b \in S
        /\ n = "bisync" => {a, b} \subseteq S
    OBVIOUS
  <1>3. [at |-> b, dir |-> TRUE] \in T /\ [at |-> a, dir |-> TRUE] \in T
    OBVIOUS
  <1> HIDE DEF n, S, T
  <1> QED
    BY <1>1, <1>2, <1>3, MirrorFits

OperationNames == {"Copy", "Move", "Sync", "Delete", "Cleanup", "Rmdir", "Rmdirs",
                   "MakeDir", "Rename", "CopyUrl", "SetTier"}

LEMMA OperationFits ==
    ASSUME NEW op \in OperationNames, NEW e \in RemoteEntries, NEW d, NEW name,
           TakesFolder(op) => d \in Locations, TakesName(op) => name \in Labels
    PROVE  JobFits(Job(OperationCall(op, e, d, name), OperationTargets(op, e, d),
                       IF Destructive(op) THEN {Operand(op, e, d)} ELSE {}))
  <1> DEFINE c == OperationCall(op, e, d, name)
             T == OperationTargets(op, e, d)
             S == IF Destructive(op) THEN {Operand(op, e, d)} ELSE {}
             D == [at |-> d, dir |-> TRUE]
  <1> SUFFICES JobFits(Job(c, T, S))
    OBVIOUS
  <1>1. /\ TakesEntry(op) => e \in T
        /\ TakesFolder(op) => D \in T
    BY DEF OperationTargets
  <1>2. CASE op \in {"Copy", "Move"}
    <2> DEFINE mode == IF op = "Copy" THEN "copy" ELSE "move"
    <2>1. c = Transfer(mode, e, d) /\ S = {} /\ d \in Locations /\ e \in T /\ D \in T
      BY <1>1, <1>2 DEF OperationCall, Destructive, TakesFolder, TakesEntry
    <2>2. mode \in {"copy", "move"}
      OBVIOUS
    <2> HIDE DEF c, T, S, D, mode
    <2>3. /\ CallFits(c) /\ c.call = mode /\ SourceOf(c) = e.at
          /\ TargetOf(c) = Join(d, Basename(e.at)) /\ MayLose(c) = {}
      BY <2>1, <2>2, TransferIs
    <2> DEFINE j == Job(c, T, S)
    <2>4. j.does = c /\ j.targets = T /\ j.confirmed = S
      BY JobIs
    <2> HIDE DEF j
    <2>5. Announced(j, SourceOf(c)) /\ Announced(j, TargetOf(c))
      BY <2>1, <2>3, <2>4, EntryIs, TargetAnnounced, BelowAnnounced DEF D
    <2>6. JobFits(j)
      BY <2>1, <2>2, <2>3, <2>4, <2>5 DEF JobFits, Announces
    <2> QED
      BY <2>6 DEF j
  <1>3. CASE op = "Sync"
    <2>1. c = Call("sync", e.at, d, None) /\ S = {d} /\ d \in Locations /\ D \in T
      BY <1>1, <1>3 DEF OperationCall, Destructive, Operand, TakesFolder
    <2>2. e.at \in Locations
      BY EntryIs
    <2> HIDE DEF c, T, S
    <2> QED
      BY <2>1, <2>2, MirrorFits
  <1>4. CASE op = "Delete"
    <2>1. c = DeleteCall(e) /\ S = {e.at} /\ T = {e}
      BY <1>4 DEF OperationCall, OperationTargets, Destructive, Operand, TakesFolder, TakesEntry
    <2> HIDE DEF c, T, S
    <2> QED
      BY <2>1, DeleteFits
  <1>5. CASE op \in {"Rmdir", "Rmdirs"}
    <2> DEFINE n == IF op = "Rmdir" THEN "rmdir" ELSE "rmdirs"
    <2>1. c = Call(n, e.at, e.at, None) /\ e \in T /\ n \in {"rmdir", "rmdirs"} /\ n \in CallNames
      BY <1>1, <1>5 DEF OperationCall, TakesEntry, CallNames
    <2> HIDE DEF c, T, S, n
    <2>2. c \in Calls /\ c.call = n /\ c.only = None /\ SourceOf(c) = e.at
      BY <2>1, EntryIs, CallIs
    <2> DEFINE j == Job(c, T, S)
    <2>4. j.does = c /\ j.targets = T /\ j.confirmed = S
      BY JobIs
    <2> HIDE DEF j
    <2>5. Announced(j, SourceOf(c)) /\ CallFits(c) /\ MayLose(c) = {}
      BY <2>1, <2>2, <2>4, TargetAnnounced DEF CallFits, MayLose
    <2>6. JobFits(j)
      BY <2>1, <2>2, <2>4, <2>5 DEF JobFits, Announces, ArrivingCalls
    <2> QED
      BY <2>6 DEF j
  <1>6. CASE op \in {"MakeDir", "CopyUrl"}
    <2> DEFINE n == IF op = "MakeDir" THEN "mkdir" ELSE "copyurl"
    <2>1. /\ c = Call(n, d, Join(d, name), None) /\ S = {} /\ D \in T
          /\ n \in {"mkdir", "copyurl"} /\ d \in Locations /\ name \in Labels
      BY <1>1, <1>6 DEF OperationCall, MkdirCall, Destructive, TakesFolder, TakesName
    <2> HIDE DEF c, T, S, n
    <2> QED
      BY <2>1, MakingFits
  <1>7. CASE op = "Rename"
    <2>1. c = RenameCall(e, name) /\ S = {} /\ e \in T /\ name \in Labels
      BY <1>1, <1>7 DEF OperationCall, Destructive, TakesEntry, TakesName
    <2> HIDE DEF c, T, S
    <2> QED
      BY <2>1, RenameFits
  <1>8. CASE op \in {"Cleanup", "SetTier"}
    <2>1. c = Untouched(e)
      BY <1>8 DEF OperationCall
    <2> HIDE DEF c, T, S
    <2> QED
      BY <2>1, KeepingFits
  <1> QED
    BY <1>2, <1>3, <1>4, <1>5, <1>6, <1>7, <1>8 DEF OperationNames

-----------------------------------------------------------------------------
(* What the window holds while the rest goes on, and what waits in the queue.   *)

ListedEntries == {e \in RemoteEntries : e.at \notin Roots}

\* What a menu, a drag, a picker, a prompt or a question captured, over the folder h.
HoldFits(w, h) ==
    /\ w.kind = "menu" => w.into \in Seq(Labels)
    /\ w.kind = "drag" => w.items \subseteq ListedEntries
    /\ w.kind = "upload" => w.dst \in Locations
    /\ w.kind = "newFolder" => h \in Locations
    /\ w.kind = "rename" => w.entry \in ListedEntries
    /\ w.kind = "confirm" => \A j \in w.jobs : JobFits(j)

ClipFits == clip # None => clip.mode \in {"copy", "move"} /\ clip.entries \subseteq ListedEntries
CaptureFits == capture # None => HoldFits(capture, here)
QueueFits == \A j \in queue : JobFits(j)

OpIInv == OpTypeOK /\ ClipFits /\ CaptureFits /\ QueueFits

\* What a step says of the jobs that end in it.
EndsFit == \A j \in queue \ queue' : LostAsAsked(j) /\ ChangedAsAnnounced(j)

LEMMA OpInitHolds == OpInit => OpIInv
  BY OperationsAssumption DEF OpInit, OpIInv, OpTypeOK, ClipFits, CaptureFits, QueueFits

LEMMA WindowIs ==
    ASSUME OpIInv
    PROVE  /\ DOMAIN tree \subseteq Places
           /\ here # None => here \in Locations /\ here[1] \in Drives /\ here[2] \in Seq(Labels)
           /\ Dirs \subseteq Locations /\ Dirs \subseteq Roots \cup Places
           /\ \A p \in DOMAIN tree \cup Roots : EntryAt(p) \in RemoteEntries
           /\ \A x : Shown(x) \subseteq ListedEntries
  <1>1. DOMAIN tree \subseteq Places /\ here \in Roots \cup Places \cup {None}
    BY DEF OpIInv, OpTypeOK
  <1>2. here # None => here \in Locations
    BY <1>1, LocationsAre
  <1>3. Dirs \subseteq Roots \cup Places
    BY <1>1 DEF Dirs
  <1>4. ASSUME NEW p \in DOMAIN tree \cup Roots PROVE EntryAt(p) \in RemoteEntries /\ EntryAt(p).at = p
    <2>1. p \in Locations
      BY <1>1, LocationsAre
    <2>2. HasDir(tree, p) \in BOOLEAN /\ (p \in Roots => HasDir(tree, p))
      BY DEF HasDir
    <2> QED
      BY <2>1, <2>2 DEF EntryAt, RemoteEntries
  <1>5. ASSUME NEW x, NEW e \in Shown(x) PROVE e \in ListedEntries
    <2>1. PICK p \in DOMAIN tree : e = EntryAt(p)
      BY DEF Shown
    <2>2. p \notin Roots
      BY <1>1, LocationsAre
    <2> QED
      BY <1>4, <2>1, <2>2 DEF ListedEntries
  <1> QED
    BY <1>1, <1>2, <1>3, <1>4, <1>5, LocationsAre

LEMMA GestureHolds ==
    ASSUME OpIInv, tree' = tree, here' \in Roots \cup Places \cup {None},
           left' \in {left, left - 1}, left' # left => left > 0,
           ClipFits', CaptureFits', queue \subseteq queue',
           \A j \in queue' : j \in queue \/ JobFits(j)
    PROVE  OpIInv' /\ EndsFit
  <1>1. left' \in 0 .. MaxGestures
    BY OperationsAssumption DEF OpIInv, OpTypeOK
  <1>2. OpTypeOK'
    BY <1>1 DEF OpIInv, OpTypeOK
  <1>3. QueueFits'
    BY DEF OpIInv, QueueFits
  <1> QED
    BY <1>2, <1>3 DEF OpIInv, EndsFit

LEMMA EnqueueHolds ==
    ASSUME OpIInv, NEW jobs, Enqueue(jobs), \A j \in jobs : JobFits(j),
           UNCHANGED <<tree, here>>, clip' \in {clip, None}, capture' \in {capture, None}
    PROVE  OpIInv' /\ EndsFit
  <1>1. /\ queue' = queue \cup jobs /\ left' = left - 1 /\ left > 0
        /\ here' \in Roots \cup Places \cup {None}
    BY DEF Enqueue, OpIInv, OpTypeOK
  <1>2. ClipFits' /\ CaptureFits'
    BY DEF OpIInv, ClipFits, CaptureFits, HoldFits
  <1>3. \A j \in queue' : j \in queue \/ JobFits(j)
    BY <1>1
  <1> QED
    BY <1>1, <1>2, <1>3, GestureHolds

LEMMA CaptureHolds ==
    ASSUME OpIInv, capture' # None => HoldFits(capture', here),
           UNCHANGED <<tree, here, queue, left>>, ClipFits'
    PROVE  OpIInv' /\ EndsFit
  <1>1. here' \in Roots \cup Places \cup {None}
    BY DEF OpIInv, OpTypeOK
  <1>2. CaptureFits'
    BY DEF CaptureFits
  <1> QED
    BY <1>1, <1>2, GestureHolds

LEMMA TransferJobsFit ==
    ASSUME NEW es, es \subseteq ListedEntries, NEW d \in Locations, NEW mode \in {"copy", "move"}
    PROVE  \A j \in TransferJobs(mode, es, d) : JobFits(j)
  <1>1. \A e \in es : e \in RemoteEntries /\ e.at \notin Roots
    BY DEF ListedEntries
  <1> QED
    BY <1>1, TransferJobFits DEF TransferJobs

LEMMA PasteHolds ==
    ASSUME OpIInv, NEW path \in Seq(Labels), PasteInto(path), capture' \in {capture, None}
    PROVE  OpIInv' /\ EndsFit
  <1>1. clip # None /\ clip.mode \in {"copy", "move"} /\ clip.entries \subseteq ListedEntries
    BY DEF PasteInto, OpIInv, ClipFits
  <1>2. <<here[1], path>> \in Locations
    BY WindowIs, LocationsAre DEF PasteInto
  <1>3. \A j \in TransferJobs(clip.mode, clip.entries, <<here[1], path>>) : JobFits(j)
    BY <1>1, <1>2, TransferJobsFit
  <1>4. clip' \in {clip, None} /\ UNCHANGED <<tree, here>>
    BY DEF PasteInto
  <1> QED
    BY <1>3, <1>4, EnqueueHolds DEF PasteInto

LEMMA VisitHolds == ASSUME OpIInv, Visit PROVE OpIInv' /\ EndsFit
  <1>1. here' \in Locations /\ here' \in Roots \cup Places
    BY WindowIs DEF Visit
  <1>2. ClipFits' /\ CaptureFits'
    BY <1>1 DEF Visit, OpIInv, ClipFits, CaptureFits, HoldFits
  <1> QED
    BY <1>1, <1>2, GestureHolds DEF Visit

\* What opens, over the clipboard that is there.
LEMMA OpensHold ==
    ASSUME OpIInv,
           OpenMenu \/ StartDrag \/ BeginUpload \/ BeginNewFolder \/ BeginRename \/ RequestDelete
    PROVE  OpIInv' /\ EndsFit
  <1>1. /\ UNCHANGED <<tree, here, clip, queue, left>> /\ here # None
    BY DEF OpenMenu, StartDrag, BeginUpload, BeginNewFolder, BeginRename, RequestDelete
  <1>2. ClipFits'
    BY <1>1 DEF OpIInv, ClipFits
  <1>3. here \in Locations /\ Shown(here) \subseteq ListedEntries
    BY <1>1, WindowIs
  <1>4. ASSUME NEW w, Capture(w), HoldFits(w, here) PROVE OpIInv' /\ EndsFit
    BY <1>1, <1>2, <1>4, CaptureHolds DEF Capture
  <1>5. \A e \in ListedEntries : e \in RemoteEntries /\ e.at \in Locations /\ e.at[2] \in Seq(Labels)
    BY LocationsAre DEF ListedEntries, RemoteEntries
  <1>6. CASE OpenMenu
    <2>1. PICK e \in Shown(here) : Capture([kind |-> "menu", into |-> e.at[2]])
      BY <1>6 DEF OpenMenu
    <2>2. HoldFits([kind |-> "menu", into |-> e.at[2]], here)
      BY <1>3, <1>5 DEF HoldFits
    <2> QED
      BY <1>4, <2>1, <2>2
  <1>7. CASE StartDrag
    <2>1. PICK es \in SUBSET Shown(here) : Capture([kind |-> "drag", items |-> es])
      BY <1>7 DEF StartDrag
    <2>2. HoldFits([kind |-> "drag", items |-> es], here)
      BY <1>3 DEF HoldFits
    <2> QED
      BY <1>4, <2>1, <2>2
  <1>8. CASE BeginUpload
    <2>1. Capture([kind |-> "upload", dst |-> here])
      BY <1>8 DEF BeginUpload
    <2>2. HoldFits([kind |-> "upload", dst |-> here], here)
      BY <1>3 DEF HoldFits
    <2> QED
      BY <1>4, <2>1, <2>2
  <1>9. CASE BeginNewFolder
    <2>1. Capture([kind |-> "newFolder"])
      BY <1>9 DEF BeginNewFolder
    <2>2. HoldFits([kind |-> "newFolder"], here)
      BY <1>3 DEF HoldFits
    <2> QED
      BY <1>4, <2>1, <2>2
  <1>10. CASE BeginRename
    <2>1. PICK e \in Shown(here) : Capture([kind |-> "rename", entry |-> e])
      BY <1>10 DEF BeginRename
    <2>2. HoldFits([kind |-> "rename", entry |-> e], here)
      BY <1>3 DEF HoldFits
    <2> QED
      BY <1>4, <2>1, <2>2
  <1>11. CASE RequestDelete
    <2>1. PICK es \in SUBSET Shown(here) :
              Capture([kind |-> "confirm", jobs |-> {DeleteJob(e) : e \in es}])
      BY <1>11 DEF RequestDelete
    <2>2. \A e \in es : JobFits(DeleteJob(e))
      BY <1>3, <1>5, DeleteFits DEF DeleteJob
    <2>3. HoldFits([kind |-> "confirm", jobs |-> {DeleteJob(e) : e \in es}], here)
      BY <2>2 DEF HoldFits
    <2> QED
      BY <1>4, <2>1, <2>3
  <1> QED
    BY <1>6, <1>7, <1>8, <1>9, <1>10, <1>11

LEMMA ClosesHold ==
    ASSUME OpIInv,
           PasteFromMenu \/ DropInto \/ UploadPaths \/ CreateFolder \/ RenameEntry \/ Accept \/ Dismiss
    PROVE  OpIInv' /\ EndsFit
  <1>1. capture # None /\ capture' = None /\ UNCHANGED <<tree, here>>
    BY DEF PasteFromMenu, DropInto, UploadPaths, CreateFolder, RenameEntry, Accept, Dismiss,
           Release, PasteInto
  <1>2. HoldFits(capture, here)
    BY <1>1 DEF OpIInv, CaptureFits
  <1>3. ASSUME NEW jobs, Enqueue(jobs), \A j \in jobs : JobFits(j), UNCHANGED clip
        PROVE  OpIInv' /\ EndsFit
    BY <1>1, <1>3, EnqueueHolds
  <1>4. ASSUME UNCHANGED <<clip, queue, left>> PROVE OpIInv' /\ EndsFit
    <2>1. ClipFits'
      BY <1>4 DEF OpIInv, ClipFits
    <2> QED
      BY <1>1, <1>4, <2>1, CaptureHolds
  <1>5. CASE PasteFromMenu
    <2>1. capture.into \in Seq(Labels) /\ PasteInto(capture.into)
      BY <1>2, <1>5 DEF PasteFromMenu, HoldFits
    <2> QED
      BY <1>1, <2>1, PasteHolds
  <1>6. CASE DropInto
    <2>1. capture.items \subseteq ListedEntries
      BY <1>2, <1>6 DEF DropInto, HoldFits
    <2>2. PICK dst \in Dirs, forced \in {"copy", "move", None}, e \in capture.items :
              Enqueue(TransferJobs(DropMode(e.at, dst, forced), capture.items, dst))
      BY <1>6 DEF DropInto
    <2>3. DropMode(e.at, dst, forced) \in {"copy", "move"} /\ dst \in Locations
      BY WindowIs DEF DropMode
    <2>4. \A j \in TransferJobs(DropMode(e.at, dst, forced), capture.items, dst) : JobFits(j)
      BY <2>1, <2>3, TransferJobsFit
    <2> QED
      BY <1>3, <1>6, <2>2, <2>4 DEF DropInto
  <1>7. CASE UploadPaths
    <2>1. capture.dst \in Locations
      BY <1>2, <1>7 DEF UploadPaths, HoldFits
    <2>2. PICK name \in Labels, dir \in BOOLEAN :
              Enqueue({Job(UploadCall(capture.dst, name, dir),
                           {[at |-> Join(capture.dst, name), dir |-> dir]}, {})})
      BY <1>7 DEF UploadPaths
    <2> DEFINE n == IF dir THEN "upload" ELSE "copyurl"
               z == [at |-> Join(capture.dst, name), dir |-> dir]
    <2>3. /\ UploadCall(capture.dst, name, dir) = Call(n, capture.dst, Join(capture.dst, name), None)
          /\ n \in {"copyurl", "upload"} /\ z.at = Join(capture.dst, name)
          /\ n = "upload" => z.dir
      BY DEF UploadCall
    <2> HIDE DEF n, z
    <2>4. JobFits(Job(UploadCall(capture.dst, name, dir), {z}, {}))
      BY <2>1, <2>3, MakingFits
    <2> QED
      BY <1>3, <1>7, <2>2, <2>4 DEF UploadPaths, z
  <1>8. CASE CreateFolder
    <2>1. here \in Locations
      BY <1>2, <1>8 DEF CreateFolder, HoldFits
    <2>2. PICK name \in Labels :
              Enqueue({Job(MkdirCall(here, name), {[at |-> Join(here, name), dir |-> TRUE]}, {})})
      BY <1>8 DEF CreateFolder
    <2> DEFINE z == [at |-> Join(here, name), dir |-> TRUE]
    <2>3. MkdirCall(here, name) = Call("mkdir", here, Join(here, name), None) /\ z.at = Join(here, name)
      BY DEF MkdirCall
    <2> HIDE DEF z
    <2>4. JobFits(Job(MkdirCall(here, name), {z}, {}))
      BY <2>1, <2>3, MakingFits
    <2> QED
      BY <1>3, <1>8, <2>2, <2>4 DEF CreateFolder, z
  <1>9. CASE RenameEntry
    <2> DEFINE e == capture.entry
               z(name) == [at |-> Join(Parent(e.at), name), dir |-> e.dir]
    <2>1. e \in RemoteEntries
      BY <1>2, <1>9 DEF RenameEntry, HoldFits, ListedEntries
    <2>2. PICK name \in Labels :
              \/ UNCHANGED <<queue, left>>
              \/ Enqueue({Job(RenameCall(e, name), {e, z(name)}, {})})
      BY <1>9 DEF RenameEntry
    <2>3. UNCHANGED clip
      BY <1>9 DEF RenameEntry
    <2> HIDE DEF e, z
    <2>4. JobFits(Job(RenameCall(e, name), {e, z(name)}, {}))
      BY <2>1, RenameFits
    <2> QED
      BY <1>3, <1>4, <2>2, <2>3, <2>4
  <1>10. CASE Accept
    <2>1. \A j \in capture.jobs : JobFits(j)
      BY <1>2, <1>10 DEF Accept, HoldFits
    <2> QED
      BY <1>3, <1>10, <2>1 DEF Accept
  <1>11. CASE Dismiss
    BY <1>4, <1>11 DEF Dismiss
  <1> QED
    BY <1>5, <1>6, <1>7, <1>8, <1>9, <1>10, <1>11

LEMMA RunOperationHolds == ASSUME OpIInv, RunOperation PROVE OpIInv' /\ EndsFit
  <1>0. PICK op \in OperationNames :
           \E e \in IF TakesEntry(op) THEN {EntryAt(p) : p \in DOMAIN tree \cup Roots}
                    ELSE {EntryAt(Root(d)) : d \in Drives},
              d \in IF TakesFolder(op) THEN Dirs ELSE {None},
              name \in IF TakesName(op) THEN Labels ELSE {None} :
           LET call == OperationCall(op, e, d, name)
               targets == OperationTargets(op, e, d)
           IN  IF Destructive(op)
               THEN /\ Capture([kind |-> "confirm",
                                jobs |-> {Job(call, targets, {Operand(op, e, d)})}])
                    /\ UNCHANGED <<queue, left>>
               ELSE Enqueue({Job(call, targets, {})}) /\ UNCHANGED capture
    BY DEF RunOperation, OperationNames
  <1>1. PICK e \in IF TakesEntry(op) THEN {EntryAt(p) : p \in DOMAIN tree \cup Roots}
                  ELSE {EntryAt(Root(d)) : d \in Drives},
             d \in IF TakesFolder(op) THEN Dirs ELSE {None},
             name \in IF TakesName(op) THEN Labels ELSE {None} :
           LET call == OperationCall(op, e, d, name)
               targets == OperationTargets(op, e, d)
           IN  IF Destructive(op)
               THEN /\ Capture([kind |-> "confirm",
                                jobs |-> {Job(call, targets, {Operand(op, e, d)})}])
                    /\ UNCHANGED <<queue, left>>
               ELSE Enqueue({Job(call, targets, {})}) /\ UNCHANGED capture
    BY <1>0
  <1>2. UNCHANGED <<tree, here, clip>>
    BY DEF RunOperation
  <1>3. e \in RemoteEntries
    <2>1. \A x \in Drives : Root(x) \in Roots
      BY DEF Roots
    <2> QED
      BY <2>1, WindowIs
  <1>4. (TakesFolder(op) => d \in Locations) /\ (TakesName(op) => name \in Labels)
    BY WindowIs
  <1> DEFINE c == OperationCall(op, e, d, name)
             T == OperationTargets(op, e, d)
             S == {Operand(op, e, d)}
  <1>5. JobFits(Job(c, T, IF Destructive(op) THEN S ELSE {}))
    BY <1>3, <1>4, OperationFits
  <1>6. \/ /\ Destructive(op) /\ Capture([kind |-> "confirm", jobs |-> {Job(c, T, S)}])
           /\ UNCHANGED <<queue, left>>
        \/ ~Destructive(op) /\ Enqueue({Job(c, T, {})}) /\ UNCHANGED capture
    BY <1>1
  <1> HIDE DEF c, T, S
  <1>7. ASSUME Destructive(op), Capture([kind |-> "confirm", jobs |-> {Job(c, T, S)}]),
               UNCHANGED <<queue, left>>
        PROVE  OpIInv' /\ EndsFit
    <2>1. HoldFits([kind |-> "confirm", jobs |-> {Job(c, T, S)}], here)
      BY <1>5, <1>7 DEF HoldFits
    <2>2. ClipFits'
      BY <1>2 DEF OpIInv, ClipFits
    <2> QED
      BY <1>2, <1>7, <2>1, <2>2, CaptureHolds DEF Capture
  <1>8. ASSUME ~Destructive(op), Enqueue({Job(c, T, {})}), UNCHANGED capture
        PROVE  OpIInv' /\ EndsFit
    BY <1>2, <1>5, <1>8, EnqueueHolds
  <1> QED
    BY <1>6, <1>7, <1>8

LEMMA OtherGesturesHold ==
    ASSUME OpIInv, SetClipboard \/ Paste \/ StartSync \/ DownloadSelected
    PROVE  OpIInv' /\ EndsFit
  <1>1. here # None /\ here \in Locations /\ here[2] \in Seq(Labels) /\ Shown(here) \subseteq ListedEntries
    BY WindowIs DEF SetClipboard, Paste, PasteInto, StartSync, DownloadSelected
  <1>2. CASE SetClipboard
    <2>1. ClipFits'
      BY <1>1, <1>2 DEF SetClipboard, ClipFits
    <2>2. UNCHANGED <<tree, here, capture, queue, left>>
      BY <1>2 DEF SetClipboard
    <2>3. capture' # None => HoldFits(capture', here)
      BY <2>2 DEF OpIInv, CaptureFits
    <2> QED
      BY <2>1, <2>2, <2>3, CaptureHolds
  <1>3. CASE Paste
    BY <1>1, <1>3, PasteHolds DEF Paste
  <1>4. CASE StartSync
    <2>1. PICK there \in Dirs, mode \in {"Copy", "Mirror", "Bisync"} :
              \/ /\ Capture([kind |-> "confirm", jobs |-> {SyncJob(mode, here, there)}])
                 /\ UNCHANGED <<queue, left>>
              \/ Enqueue({SyncJob(mode, here, there)}) /\ UNCHANGED capture
      BY <1>4 DEF StartSync
    <2>2. UNCHANGED <<tree, here, clip>>
      BY <1>4 DEF StartSync
    <2>3. JobFits(SyncJob(mode, here, there))
      BY <1>1, WindowIs, SyncJobFits
    <2>4. HoldFits([kind |-> "confirm", jobs |-> {SyncJob(mode, here, there)}], here)
      BY <2>3 DEF HoldFits
    <2>5. ClipFits'
      BY <2>2 DEF OpIInv, ClipFits
    <2>6. CASE Capture([kind |-> "confirm", jobs |-> {SyncJob(mode, here, there)}])
                   /\ UNCHANGED <<queue, left>>
      BY <2>2, <2>4, <2>5, <2>6, CaptureHolds DEF Capture
    <2>7. CASE Enqueue({SyncJob(mode, here, there)}) /\ UNCHANGED capture
      BY <2>2, <2>3, <2>7, EnqueueHolds
    <2> QED
      BY <2>1, <2>6, <2>7
  <1>5. CASE DownloadSelected
    <2>1. PICK es \in SUBSET Shown(here) : Enqueue({Job(Untouched(e), {e}, {}) : e \in es})
      BY <1>5 DEF DownloadSelected
    <2>2. \A e \in es : JobFits(Job(Untouched(e), {e}, {}))
      BY <1>1, KeepingFits DEF ListedEntries
    <2> QED
      BY <1>5, <2>1, <2>2, EnqueueHolds DEF DownloadSelected
  <1> QED
    BY <1>2, <1>3, <1>4, <1>5

LEMMA TreesHold ==
    ASSUME OpIInv, EndJob \/ ChangedElsewhere
    PROVE  OpIInv' /\ EndsFit
  <1>1. UNCHANGED <<here, clip, capture, left>> /\ queue' \subseteq queue
    BY DEF EndJob, ChangedElsewhere
  <1>2. DOMAIN tree' \subseteq Places /\ EndsFit
    <2>1. DOMAIN tree \subseteq Places
      BY WindowIs
    <2>2. CASE EndJob
      <3>1. PICK j \in queue : /\ queue' = queue \ {j}
                               /\ tree' \in Outcomes(tree, j.does)
                                      \cup PartOutcomes(tree, j.does) \cup {tree}
        BY <2>2 DEF EndJob
      <3>2. JobFits(j)
        BY DEF OpIInv, QueueFits
      <3>3. DOMAIN tree' \subseteq Places /\ LostAsAsked(j) /\ ChangedAsAnnounced(j)
        BY <2>1, <3>1, <3>2, EndedFits
      <3> QED
        BY <3>1, <3>3 DEF EndsFit
    <2>3. CASE ChangedElsewhere
      <3>1. PICK p \in DOMAIN tree : tree' = Without(tree, {p} \cup Under(tree, p))
        BY <2>3 DEF ChangedElsewhere
      <3>2. DOMAIN tree' \subseteq Places
        BY <2>1, <3>1 DEF Without
      <3>3. queue' = queue
        BY <2>3 DEF ChangedElsewhere
      <3> QED
        BY <3>2, <3>3 DEF EndsFit
    <2> QED
      BY <2>2, <2>3
  <1>3. OpIInv'
    BY <1>1, <1>2 DEF OpIInv, OpTypeOK, ClipFits, CaptureFits, QueueFits
  <1> QED
    BY <1>2, <1>3

LEMMA OpStepHolds ==
    ASSUME OpIInv, [OpNext]_opVars
    PROVE  OpIInv' /\ EndsFit
  <1>1. CASE OpNext
    BY <1>1, VisitHolds, OpensHold, ClosesHold, RunOperationHolds, OtherGesturesHold, TreesHold
       DEF OpNext
  <1>2. CASE UNCHANGED opVars
    <2>1. UNCHANGED <<tree, here, clip, capture, queue, left>>
      BY <1>2 DEF opVars
    <2>2. OpIInv'
      BY <2>1 DEF OpIInv, OpTypeOK, ClipFits, CaptureFits, QueueFits
    <2> QED
      BY <2>1, <2>2 DEF EndsFit
  <1> QED
    BY <1>1, <1>2

LEMMA OpAlwaysHolds == OpSpec => []OpIInv /\ [][EndsFit]_opVars
  <1>1. OpIInv /\ [OpNext]_opVars => OpIInv'
    BY OpStepHolds
  <1>2. OpIInv /\ [OpNext]_opVars => [EndsFit]_opVars
    BY OpStepHolds
  <1> QED
    BY <1>1, <1>2, OpInitHolds, PTL DEF OpSpec

\* Of the jobs that end, whole or in any part, in whatever order and beside whatever the
\* window and other clients do meanwhile, none takes the last copy of a content but from a
\* place that the user confirmed for that very job (Operation::destructive, and the rule
\* that names the file in Service::delete), or by bringing a file of its own source, or an
\* upload, over it, for which nothing asks.
THEOREM NothingEverLostUnasked == OpSpec => NothingLostUnasked
  <1>1. [EndsFit]_opVars =>
            [\A j \in queue \ queue' : \A p \in DOMAIN tree :
                 tree[p] \in Contents(tree) \ Contents(tree') =>
                     \/ Overwritten(tree, tree', j.does, p)
                     \/ \E a \in j.confirmed : Within(p, a)]_opVars
    BY DEF EndsFit, LostAsAsked
  <1> QED
    BY <1>1, OpAlwaysHolds, PTL DEF NothingLostUnasked

\* What a job changed, whole or in any part, is in a folder that its row names
\* (Job::affected_dirs), but for what is deep in the item and for the folders it had to
\* make again on the way.
THEOREM ChangesAlwaysInAffectedDirs == OpSpec => ChangesInAffectedDirs
  <1>1. [EndsFit]_opVars =>
            [\A j \in queue \ queue' : \A p \in Places :
                 Changed(tree, tree', p) =>
                     \/ Parent(p) \in AffectedDirs(j)
                     \/ Deep(j, p)
                     \/ \E e \in j.targets : p \in AncestorsOf(e.at)]_opVars
    BY DEF EndsFit, ChangedAsAnnounced
  <1> QED
    BY <1>1, OpAlwaysHolds, PTL DEF ChangesInAffectedDirs

-----------------------------------------------------------------------------
(* The window: each part moves by a step of its own or rests, so what each      *)
(* keeps of itself is kept beside the others.                                  *)

LEMMA WindowStarts ==
    WinInit => /\ OpIInv /\ HistIInv /\ RemIInv
               /\ PalIInv /\ DlgIInv /\ PreIInv /\ StoIInv
  <1>1. WinInit => /\ OpInit /\ HistInit /\ RemInit
                   /\ PalInit /\ DlgInit /\ PreInit /\ StoInit
    BY DEF WinInit
  <1> QED
    BY <1>1, OpInitHolds, HistInitHolds, RemInitHolds, PalInitHolds, DlgInitHolds, PreInitHolds,
       StoInitHolds

LEMMA PartsMoveAlone ==
    ASSUME [WinNext]_winVars
    PROVE  /\ [OpNext]_opVars /\ [HistNext]_histVars /\ [RemNext]_remVars
           /\ [PalNext]_palVars /\ [DlgNext]_dlgVars /\ [PreNext]_preVars /\ [StoNext]_stoVars
  <1>1. CASE WinNext
    <2>1. /\ ops \/ UNCHANGED opVars
          /\ his \/ UNCHANGED histVars
          /\ rem \/ UNCHANGED remVars
          /\ pal \/ UNCHANGED palVars
          /\ dlg \/ UNCHANGED dlgVars
          /\ pre \/ UNCHANGED preVars
          /\ sto \/ UNCHANGED stoVars
          /\ \/ ops /\ OpNext
             \/ his /\ HistNext
             \/ rem /\ RemNext
             \/ pal /\ PalNext
             \/ dlg /\ DlgNext
             \/ pre /\ PreNext
             \/ sto /\ StoNext
      BY <1>1 DEF WinNext
    <2>2. /\ ops => ~his /\ ~rem /\ ~pal /\ ~dlg /\ ~pre /\ ~sto
          /\ his => ~rem /\ ~pal /\ ~dlg /\ ~pre /\ ~sto
          /\ rem => ~pal /\ ~dlg /\ ~pre /\ ~sto
          /\ pal => ~dlg /\ ~pre /\ ~sto
          /\ dlg => ~pre /\ ~sto
          /\ pre => ~sto
      BY DEF ops, his, rem, pal, dlg, pre, sto
    <2> QED
      BY <2>1, <2>2, Zenon
  <1>2. CASE UNCHANGED winVars
    BY <1>2 DEF winVars
  <1> QED
    BY <1>1, <1>2

\* However gestures, jobs, other clients, navigation, loads and deletions of remotes,
\* the palette, the dialogs, the preview and the saves follow each other, each part
\* keeps its types: the remotes hold only places, a pane's position in its history is
\* the place it shows, the pins are distinct remotes, a task whose arguments are being
\* collected has one left, the wizard is the dialog that is open, and what is cached,
\* read or stored is of its kind.
THEOREM WindowTypesHold == WinSpec => []WindowTypeOK
  <1> DEFINE I == /\ OpIInv /\ HistIInv /\ RemIInv
                  /\ PalIInv /\ DlgIInv /\ PreIInv /\ StoIInv
  <1>1. WinInit => I
    BY WindowStarts
  <1>2. I /\ [WinNext]_winVars => I'
    <2> SUFFICES ASSUME I, [WinNext]_winVars PROVE I'
      OBVIOUS
    <2>1. /\ [OpNext]_opVars /\ [HistNext]_histVars /\ [RemNext]_remVars
          /\ [PalNext]_palVars /\ [DlgNext]_dlgVars /\ [PreNext]_preVars /\ [StoNext]_stoVars
      BY PartsMoveAlone
    <2>2. OpIInv'
      BY <2>1, OpStepHolds
    <2>3. HistIInv'
      BY <2>1, HistStepHolds
    <2>4. RemIInv'
      BY <2>1, RemStepHolds
    <2>5. PalIInv'
      BY <2>1, PalStepHolds
    <2>6. DlgIInv'
      BY <2>1, DlgStepHolds
    <2>7. PreIInv'
      BY <2>1, PreStepHolds
    <2>8. StoIInv'
      BY <2>1, StoStepHolds
    <2> QED
      BY <2>2, <2>3, <2>4, <2>5, <2>6, <2>7, <2>8
  <1>3. I => WindowTypeOK
    <2> SUFFICES ASSUME I PROVE WindowTypeOK
      OBVIOUS
    <2>1. OpTypeOK /\ DlgTypeOK /\ StoTypeOK
      BY DEF OpIInv, DlgIInv, StoIInv
    <2>2. HistoryAgrees
      BY LenProperties DEF HistIInv, HistoryAgrees
    <2>3. PinsHold
      BY PinsFit
    <2>4. PreTypeOK
      BY DEF PreIInv, PreviewMatchesSubject
    <2>5. PalTypeOK
      BY DEF PalIInv, FlowFits, ListingsFit, PalTypeOK
    <2> QED
      BY <2>1, <2>2, <2>3, <2>4, <2>5 DEF WindowTypeOK
  <1> QED
    BY <1>1, <1>2, <1>3, PTL DEF WinSpec

=============================================================================
