------------------------------- MODULE Storage -------------------------------
(***************************************************************************)
(* What rspace keeps on disk: settings.json (core/src/settings.rs) and the *)
(* pinned remotes of its database (core/src/db.rs).  Both are written on   *)
(* the UI thread, in one go; the process may still be killed after any     *)
(* call to the system, and a call may fail.  Other instances share both.   *)
(*                                                                         *)
(* A settings file holds settings, half of them, or what the user wrote    *)
(* and nobody can read.  Two instances that write settings at the same     *)
(* moment would share the temporary file; that is not modelled: another    *)
(* instance's save is one step, between two of ours.  Power loss, which    *)
(* no flush guards against, and a database that does not open are not      *)
(* modelled.                                                               *)
(*                                                                         *)
(* Operators named Mut... are mutants, bugs the next definition could have. *)
(***************************************************************************)
EXTENDS Values, Naturals, Sequences, FiniteSets, SequencesExt

CONSTANTS
    Settings, \* settings, with those of Settings::default among them
    Default,  \* Settings::default
    Pinnable, \* remotes that may be pinned
    MaxSaves  \* bound on the saves, edits and launches

ASSUME StorageAssumption ==
    /\ Default \in Settings
    /\ None \notin Settings \cup {"half", "unreadable", "fill", "rename"}
    /\ Settings \cap {"half", "unreadable"} = {}
    /\ IsFiniteSet(Pinnable)
    /\ MaxSaves \in Nat

VARIABLES
    running,  \* whether this instance runs
    settings, \* SettingsStore.settings
    writing,  \* how far Settings::write is: None, "fill", "rename"
    file,     \* settings.json, None when there is none
    temp,     \* settings.json.tmp
    backup,   \* settings.json.bak
    pinList,  \* Workspace.pinned
    rowsKept, \* the table pinned: its committed rows, <<name, position>>
    tx,       \* the transaction under way, with the statements left
    effort,   \* how many saves, edits and launches there were
    meant,    \* history: the settings of the last save or edit that was done
    spoilt,   \* history: whether the user wrote what nobody can read, to be kept
    slips,    \* history: the calls of launches that failed on it, "read", "rename"
    meantPins, \* history: the lists of pins given to save_pinned
    whole     \* history: every statement that wrote the rows was carried out

stoVars == <<running, settings, writing, file, temp, backup, pinList, rowsKept, tx,
             effort, meant, spoilt, slips, meantPins, whole>>
fileVars == <<file, temp, backup, meant, spoilt, slips>>
pinVars == <<pinList, rowsKept, tx, meantPins, whole>>

Half == "half"
Unreadable == "unreadable"
Idle == writing = None /\ tx = None

PinLists == {q \in UNION {[1 .. n -> Pinnable] : n \in 0 .. Cardinality(Pinnable)} : IsInjective(q)}
AsRows(q) == {<<q[i], i>> : i \in DOMAIN q}

\* load_pinned: the names in the order of their positions, none of them twice.
PinsOf(rs) == {q \in PinLists :
    /\ Len(q) = Cardinality(rs)
    /\ \E at \in [DOMAIN q -> {r[2] : r \in rs}] :
           /\ rs = {<<q[i], at[i]>> : i \in DOMAIN q}
           /\ \A i, j \in DOMAIN q : i < j => at[i] <= at[j]}

\* Settings::read of a file
Read(f) == IF f \in Settings THEN f ELSE Default

StoInit ==
    /\ running = FALSE /\ settings = Default
    /\ writing = None /\ file = None /\ temp = None /\ backup = None
    /\ pinList = <<>> /\ rowsKept = {} /\ tx = None
    /\ effort = 0
    /\ meant = Default /\ spoilt = FALSE /\ slips = {} /\ meantPins = {<<>>} /\ whole = TRUE

Try == effort < MaxSaves /\ effort' = effort + 1

\* Settings::read moves a text it cannot parse aside, and drops the error of that
\* rename; the bug reads defaults over a file it leaves.
MutMoveAside == UNCHANGED <<file, backup, slips>>
MoveAside ==
    \/ file \notin {Half, Unreadable} /\ UNCHANGED <<file, backup, slips>>
    \/ file \in {Half, Unreadable} /\ backup' = file /\ file' = None /\ UNCHANGED slips
    \/ file \in {Half, Unreadable} /\ slips' = slips \cup {"rename"} /\ UNCHANGED <<file, backup>>

\* read_to_string fails (an I/O error, no permission, no UTF-8): the defaults, and
\* the file stays where it is.
ReadFails ==
    /\ file # None
    /\ settings' = Default
    /\ slips' = slips \cup (IF file = Unreadable THEN {"read"} ELSE {})
    /\ UNCHANGED <<file, backup>>

\* SettingsStore::load, Db::load_pinned
LaunchStore ==
    /\ ~running /\ running' = TRUE
    /\ Try
    /\ (settings' = Read(file) /\ MoveAside) \/ ReadFails
    /\ pinList' \in PinsOf(rowsKept)
    /\ UNCHANGED <<writing, temp, rowsKept, tx, meant, spoilt, meantPins, whole>>

\* SettingsStore::update: in memory, and Settings::write creates the temporary file,
\* or fails to; the bug truncates the file itself.
MutOpenTemp == file' = Half /\ writing' = "fill" /\ UNCHANGED temp
OpenTemp ==
    /\ UNCHANGED file
    /\ (temp' = Half /\ writing' = "fill") \/ UNCHANGED <<temp, writing>>

UpdateSettings ==
    /\ running /\ Idle
    /\ Try
    /\ \E s \in Settings \ {settings} : settings' = s
    /\ OpenTemp
    /\ UNCHANGED <<running, backup, meant, spoilt, slips, pinVars>>

FillTemp ==
    /\ writing = "fill"
    /\ \/ temp' = settings /\ writing' = "rename"
       \/ writing' = None /\ UNCHANGED temp
    /\ UNCHANGED <<running, settings, file, backup, effort, meant, spoilt, slips, pinVars>>

RenameTemp ==
    /\ writing = "rename" /\ writing' = None
    /\ \/ file' = temp /\ temp' = None /\ meant' = settings
       \/ UNCHANGED <<file, temp, meant>>
    /\ UNCHANGED <<running, settings, backup, effort, spoilt, slips, pinVars>>

\* save_pinned: a transaction of a DELETE and an INSERT for each name; a row that
\* repeats a name is refused.
SavePinned ==
    /\ running /\ Idle
    /\ Try
    /\ \E q \in PinLists \ {pinList} :
           /\ pinList' = q
           /\ meantPins' = meantPins \cup {q}
           /\ tx' = [next |-> 0, rows |-> rowsKept, whole |-> TRUE]
    /\ UNCHANGED <<running, settings, writing, fileVars, rowsKept, whole>>

Inserted(rs, r) == IF \E o \in rs : o[1] = r[1] THEN rs ELSE rs \cup {r}

\* A statement runs, or fails and its error is dropped.
Statement ==
    /\ tx # None /\ tx.next <= Len(pinList)
    /\ \/ tx' = [tx EXCEPT !.next = @ + 1,
                          !.rows = IF tx.next = 0 THEN {}
                                   ELSE Inserted(@, <<pinList[tx.next], tx.next>>)]
       \/ tx' = [tx EXCEPT !.next = @ + 1, !.whole = FALSE]
    /\ UNCHANGED <<running, settings, writing, fileVars, pinList, rowsKept, effort,
                   meantPins, whole>>

\* The transaction takes effect as a whole, or fails.
Commit ==
    /\ tx # None /\ tx.next > Len(pinList)
    /\ tx' = None
    /\ \/ rowsKept' = tx.rows /\ whole' = tx.whole
       \/ UNCHANGED <<rowsKept, whole>>
    /\ UNCHANGED <<running, settings, writing, fileVars, pinList, effort, meantPins>>

\* Killed, at any point: SQLite rolls an open transaction back.
Killed ==
    /\ running /\ running' = FALSE
    /\ writing' = None /\ tx' = None
    /\ UNCHANGED <<settings, fileVars, pinList, rowsKept, effort, meantPins, whole>>

\* Another instance saves what it has in memory.  It was launched after the user's
\* last edit (see HandEdit), and moved a text nobody can read aside or failed to.
SiblingSaves ==
    /\ Idle
    /\ Try
    /\ \/ /\ \E s \in Settings : file' = s /\ meant' = s
          /\ IF file = Unreadable
             THEN \/ backup' = file /\ UNCHANGED slips
                  \/ UNCHANGED backup /\ \E call \in {"read", "rename"} : slips' = slips \cup {call}
             ELSE UNCHANGED <<backup, slips>>
          /\ temp' = None
          /\ UNCHANGED <<rowsKept, meantPins, whole>>
       \/ /\ \E q \in PinLists : rowsKept' = AsRows(q) /\ meantPins' = meantPins \cup {q}
          /\ whole' = TRUE
          /\ UNCHANGED <<file, temp, backup, meant, slips>>
    /\ UNCHANGED <<running, settings, writing, pinList, tx, spoilt>>

\* The user edits settings.json (bounds: while no instance runs; one text nobody can
\* read at a time, as the next one would replace its backup).
HandEdit ==
    /\ ~running
    /\ Try
    /\ \/ /\ \E s \in Settings : file' = s /\ meant' = s
          /\ spoilt' = (spoilt /\ file # Unreadable) /\ UNCHANGED slips
       \/ /\ ~spoilt /\ spoilt' = TRUE /\ slips' = {}
          /\ file' = Unreadable /\ meant' = Default
    /\ UNCHANGED <<running, settings, writing, temp, backup, pinVars>>

StoNext ==
    \/ LaunchStore \/ UpdateSettings \/ FillTemp \/ RenameTemp
    \/ SavePinned \/ Statement \/ Commit \/ Killed \/ SiblingSaves \/ HandEdit

StoSpec == StoInit /\ [][StoNext]_stoVars

-----------------------------------------------------------------------------
(* Properties *)

StoTypeOK ==
    /\ running \in BOOLEAN /\ settings \in Settings
    /\ writing \in {None, "fill", "rename"}
    /\ {file, temp, backup} \subseteq Settings \cup {None, Half, Unreadable}
    /\ pinList \in PinLists
    /\ effort \in 0 .. MaxSaves
    /\ slips \subseteq {"read", "rename"}

\* Rows of names that were saved, none of them twice.
RowsOfSaves(rs) ==
    /\ \A r, o \in rs : r[1] = o[1] => r = o
    /\ \A r \in rs : \E q \in meantPins : \E i \in DOMAIN q : r[1] = q[i]

\* Wherever the process is killed and whatever call fails, the file tells the
\* settings of the last save that was done, and the rows name remotes that were
\* pinned, each once.  If every statement of the transaction that wrote the rows was
\* carried out, they are one list that was saved, whole and in its order; and if no
\* launch failed to read or to move it, a text the user spoilt stays to be repaired,
\* under its own name or as the backup.
StateSurvives ==
    /\ StoTypeOK
    /\ Read(file) = meant
    /\ RowsOfSaves(rowsKept)
    /\ whole => PinsOf(rowsKept) # {} /\ PinsOf(rowsKept) \subseteq meantPins
    /\ spoilt /\ slips = {} => Unreadable \in {file, backup}

\* "Keep the original: the next `update` would overwrite it with defaults, making an
\* unreadable file permanent loss" (settings.rs:55-56): also where no rename failed.
\* Not kept: what read_to_string cannot read is not moved aside (settings.rs:50-52).
UnreadableIsKept == spoilt /\ "rename" \notin slips => Unreadable \in {file, backup}
=============================================================================
