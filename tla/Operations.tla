----------------------------- MODULE Operations -----------------------------
(***************************************************************************)
(* File operations (ui/src/jobs/ops.rs, rclone_rc/src/ops.rs, the builders *)
(* of rclone_rc/src/service.rs): from a gesture to the remote call it      *)
(* becomes, the confirmation it waits for, the listings it announces, and  *)
(* what rclone then does to the remotes.                                   *)
(*                                                                         *)
(* A place is a drive and a path below its root; a file is its content, a  *)
(* model value.  Menus, prompts, confirmations, file pickers and drags     *)
(* hold what they captured while the rest of the window goes on.  Jobs end *)
(* in any order, and one that fails or is cancelled may have done a part of *)
(* its call.  Each acts in the step that ends it: what it had done before   *)
(* is not seen by the other jobs (module Jobs follows one job's life).      *)
(*                                                                         *)
(* Operators named Mut... are mutants, bugs the next definition could have. *)
(***************************************************************************)
EXTENDS Values, Naturals, Sequences, SequencesExt

CONSTANTS
    Start,      \* the remotes at first: a function from places to content or Dir
    Drives,     \* remotes
    Labels,     \* names of files and folders
    New,        \* the content an upload or a download from a URL brings
    Dir,        \* what the tree holds at a folder
    MaxDepth,   \* bound on the length of a path
    MaxGestures \* bound on the gestures that enqueue jobs

Root(d) == <<d, <<>>>>
Roots == {Root(d) : d \in Drives}
Places == Drives \X UNION {[1 .. n -> Labels] : n \in 1 .. MaxDepth}

ASSUME OperationsAssumption ==
    /\ DOMAIN Start \subseteq Places
    /\ MaxDepth \in Nat \ {0}
    /\ MaxGestures \in Nat
    /\ New # Dir
    /\ None \notin Labels

VARIABLES
    tree,    \* what the remotes hold
    here,    \* (open_remote, path) of the focused pane; None on the welcome screen
    clip,    \* Workspace.clipboard
    capture, \* what the open menu, prompt, confirmation, picker or drag holds
    queue,   \* the jobs submitted and not ended
    left,    \* gestures that may still enqueue
    elsewhere \* whether another client of the remotes has changed them

opVars == <<tree, here, clip, capture, queue, left, elsewhere>>

-----------------------------------------------------------------------------
(* Paths *)

Leaf(p) == Last(p[2])
\* parent_of and split_parent: the root is its own parent.
Parent(p) == <<p[1], IF p[2] = <<>> THEN <<>> ELSE Front(p[2])>>
\* join_path, join: an empty name adds nothing.
Join(p, name) == <<p[1], IF name = None THEN p[2] ELSE Append(p[2], name)>>
Basename(p) == IF p[2] = <<>> THEN None ELSE Leaf(p)

Within(p, a) == p[1] = a[1] /\ IsPrefix(a[2], p[2])
Inside(p, a) == Within(p, a) /\ p # a
\* The place p, below a, as it is below b.
Rebase(p, a, b) == <<b[1], b[2] \o SubSeq(p[2], Len(a[2]) + 1, Len(p[2]))>>
AncestorsOf(p) == {<<p[1], SubSeq(p[2], 1, n)>> : n \in 1 .. Len(p[2]) - 1}

HasDir(t, p) == p \in Roots \/ (p \in DOMAIN t /\ t[p] = Dir)
HasFile(t, p) == p \in DOMAIN t /\ t[p] # Dir
Under(t, a) == {p \in DOMAIN t : Inside(p, a)}
FilesUnder(t, a) == {p \in Under(t, a) : t[p] # Dir}
Contents(t) == {t[p] : p \in DOMAIN t} \ {Dir}

Dirs == Roots \cup {p \in DOMAIN tree : tree[p] = Dir}
EntryAt(p) == [at |-> p, dir |-> HasDir(tree, p)]
Shown(d) == {EntryAt(p) : p \in {q \in DOMAIN tree : Parent(q) = d}}

-----------------------------------------------------------------------------
(* What rclone does with a call: the trees it may leave when it succeeds,   *)
(* none when it cannot; and the trees of a part of it, when it ends early.  *)

Over(f, g) == [p \in DOMAIN f \cup DOMAIN g |-> IF p \in DOMAIN f THEN f[p] ELSE g[p]]

\* Overlay of what arrives and of the folders it needs, unless a file is where a
\* folder must be, or a folder where a file must.
Arrivals(t, new) ==
    LET all == Over(new, [p \in UNION {AncestorsOf(q) : q \in DOMAIN new} |-> Dir])
    IN  IF \A p \in DOMAIN all :
               /\ p \in Places
               /\ p \in DOMAIN t => (t[p] = Dir <=> all[p] = Dir)
        THEN {Over(all, t)}
        ELSE {}

Without(t, gone) == [p \in DOMAIN t \ gone |-> t[p]]

\* A part of what is to arrive.
Arriving(t, new) == UNION {Arrivals(t, Restrict(new, some)) : some \in SUBSET DOMAIN new}

\* The only-rule of a call keeps the one file of that name at the top.
Chosen(t, c) ==
    IF c.only = None
    THEN Under(t, c.from)
    ELSE {p \in {Join(c.from, c.only)} : HasFile(t, p)}

Relocated(t, c) ==
    LET there == {Rebase(p, c.from, c.to) : p \in Chosen(t, c)}
        made == IF c.only = None THEN {c.to} \ Roots ELSE {}
    IN  Over([p \in there |-> t[Rebase(p, c.to, c.from)]], [p \in made |-> Dir])

Overlap(c) == Within(c.from, c.to) \/ Within(c.to, c.from)

Copied(t, c) == IF HasDir(t, c.from) THEN Arrivals(t, Relocated(t, c)) ELSE {}

Moved(t, c) ==
    IF c.only = None /\ Overlap(c)
    THEN {}
    ELSE {Without(u, IF c.only = None
                     THEN Under(t, c.from) \cup {c.from}
                     ELSE Chosen(t, c) \ {Join(c.to, c.only)}) : u \in Copied(t, c)}

Mirrored(t, c) ==
    IF HasDir(t, c.from) /\ ~Overlap(c)
    THEN Arrivals(Without(t, Under(t, c.to)), Relocated(t, c))
    ELSE {}

Swap(c) == [c EXCEPT !.from = c.to, !.to = c.from]
\* A two-way sync follows one side, the other, or joins them.
Reconciled(t, c) ==
    Mirrored(t, c) \cup Mirrored(t, Swap(c))
        \cup UNION {Copied(u, c) : u \in Copied(t, Swap(c))}

\* What a copy has brought, in part.
PartCopied(t, c) == IF HasDir(t, c.from) THEN Arriving(t, Relocated(t, c)) ELSE {}

\* A file of the source may go once it has arrived.
HasCome(t, u, c) ==
    {p \in Chosen(t, c) : LET q == Rebase(p, c.from, c.to)
                          IN  HasFile(t, p) /\ q # p /\ HasFile(u, q) /\ u[q] = t[p]}

PartMoved(t, c) ==
    IF c.only = None /\ Overlap(c)
    THEN {}
    ELSE UNION {{Without(u, gone) : gone \in SUBSET HasCome(t, u, c)} : u \in PartCopied(t, c)}

\* Some files are gone below the destination, and some have come.
PartMirrored(t, c) ==
    IF HasDir(t, c.from) /\ ~Overlap(c)
    THEN UNION {Arriving(Without(t, gone), Relocated(t, c)) : gone \in SUBSET FilesUnder(t, c.to)}
    ELSE {}

PartReconciled(t, c) ==
    PartMirrored(t, c) \cup PartMirrored(t, Swap(c))
        \cup UNION {PartCopied(u, c) : u \in PartCopied(t, Swap(c))}

EmptyDirs(t, a) ==
    {p \in DOMAIN t : Within(p, a) /\ t[p] = Dir /\ FilesUnder(t, p) = {}}

\* The file p renamed to q; a name it already has is left alone.
Renamed(t, p, q) ==
    IF HasFile(t, p)
    THEN {Without(u, {p} \ {q}) : u \in Arrivals(t, [r \in {q} |-> t[p]])}
    ELSE {}

\* Places, and what is below them.
Removed(t, gone) == Without(t, gone \cup UNION {Under(t, p) : p \in gone})

\* An uploaded folder brings its files, or none (sync/copy with createEmptySrcDirs).
UploadedFolder(to) ==
    {[p \in {to} |-> Dir]} \cup
    {[p \in {to, Join(to, x)} |-> IF p = to THEN Dir ELSE New] : x \in Labels}

Outcomes(t, c) ==
    CASE c.call = "copy"   -> Copied(t, c)
      [] c.call = "move"   -> Moved(t, c)
      [] c.call = "sync"   -> Mirrored(t, c)
      [] c.call = "bisync" -> Reconciled(t, c)
      [] c.call = "movefile" -> Renamed(t, c.from, c.to)
      [] c.call = "mkdir"  -> Arrivals(t, [p \in {c.to} |-> Dir])
      [] c.call = "upload" -> UNION {Arrivals(t, new) : new \in UploadedFolder(c.to)}
      [] c.call = "copyurl" -> Arrivals(t, [p \in {c.to} |-> New])
      [] c.call = "purge"  -> IF HasDir(t, c.from)
                              THEN {Without(t, Under(t, c.from) \cup {c.from})} ELSE {}
      [] c.call = "delete" -> {Without(t, {p \in Chosen(t, c) : t[p] # Dir})}
      [] c.call = "rmdir"  -> IF HasDir(t, c.from) /\ Under(t, c.from) = {}
                              THEN {Without(t, {c.from})} ELSE {}
      [] c.call = "rmdirs" -> {Without(t, EmptyDirs(t, c.from))}
      [] c.call = "keep"   -> {t}   \* cleanup, settier, a download

\* What a call may leave when it fails or is cancelled.
PartOutcomes(t, c) ==
    CASE c.call = "copy"   -> PartCopied(t, c)
      [] c.call = "move"   -> PartMoved(t, c)
      [] c.call = "sync"   -> PartMirrored(t, c)
      [] c.call = "bisync" -> PartReconciled(t, c)
      [] c.call = "movefile" -> IF HasFile(t, c.from)
                                THEN Arrivals(t, [p \in {c.to} |-> t[c.from]]) ELSE {}
      [] c.call = "upload" -> UNION {Arriving(t, new) : new \in UploadedFolder(c.to)}
      [] c.call = "purge"  -> {Removed(t, gone) : gone \in SUBSET Under(t, c.from)}
      [] c.call = "rmdirs" -> {Removed(t, gone) : gone \in SUBSET EmptyDirs(t, c.from)}
      [] c.call \in {"mkdir", "copyurl", "delete", "rmdir", "keep"} -> {}

-----------------------------------------------------------------------------
(* Operation::build and the builders of Service: the call of an operation *)

Call(name, from, to, only) == [call |-> name, from |-> from, to |-> to, only |-> only]

\* A folder goes below dst under its own name, a file through its parent and a rule.
Transfer(mode, e, dst) ==
    IF e.dir
    THEN Call(mode, e.at, Join(dst, Basename(e.at)), None)
    ELSE Call(mode, Parent(e.at), dst, Leaf(e.at))

\* Without the only-rule: the whole parent folder goes.
MutDeleteCall(e) ==
    IF e.dir THEN Call("purge", e.at, e.at, None) ELSE Call("delete", Parent(e.at), e.at, None)
DeleteCall(e) ==
    IF e.dir
    THEN Call("purge", e.at, e.at, None)
    ELSE Call("delete", Parent(e.at), e.at, Leaf(e.at))

RenameCall(e, name) ==
    Call(IF e.dir THEN "move" ELSE "movefile", e.at, Join(Parent(e.at), name), None)

MkdirCall(d, name) == Call("mkdir", d, Join(d, name), None)
UploadCall(dst, name, dir) ==
    IF dir THEN Call("upload", dst, Join(dst, name), None)
    ELSE Call("copyurl", dst, Join(dst, name), None)
Untouched(e) == Call("keep", e.at, e.at, None)

\* Operation::destructive; the bug leaves the mirror out.
MutDestructive(op) == op \in {"Delete", "Cleanup", "Rmdir", "Rmdirs"}
Destructive(op) == op \in {"Delete", "Cleanup", "Sync", "Rmdir", "Rmdirs"}

\* SyncMode::destructive
SyncConfirms(mode) == mode \in {"Mirror", "Bisync"}

-----------------------------------------------------------------------------
(* Jobs: a call, the targets the row announces, and what the user confirmed *)

Job(call, targets, confirmed) ==
    [does |-> call, targets |-> targets, confirmed |-> confirmed]

\* Job::affected_dirs
AffectedDirs(j) ==
    {Parent(e.at) : e \in j.targets} \cup {e.at : e \in {t \in j.targets : t.dir}}

\* Already there, or a folder onto itself or below itself.
Skipped(e, dst) == Parent(e.at) = dst \/ (e.dir /\ Within(dst, e.at))

\* The row that names its source only, as a download's does.
MutTransferJob(mode, e, dst) == Job(Transfer(mode, e, dst), {e}, {})
TransferJob(mode, e, dst) ==
    Job(Transfer(mode, e, dst), {e, [at |-> Join(dst, Leaf(e.at)), dir |-> e.dir]}, {})

TransferJobs(mode, es, dst) ==
    {TransferJob(mode, e, dst) : e \in {x \in es : ~Skipped(x, dst)}}

DeleteJob(e) == Job(DeleteCall(e), {e}, {e.at})

SyncCall(mode, from, to) ==
    Call(CASE mode = "Copy" -> "copy" [] mode = "Mirror" -> "sync" [] mode = "Bisync" -> "bisync",
         from, to, None)

SyncJob(mode, from, to) ==
    Job(SyncCall(mode, from, to), {[at |-> from, dir |-> TRUE], [at |-> to, dir |-> TRUE]},
        CASE mode = "Copy" -> {} [] mode = "Mirror" -> {to} [] mode = "Bisync" -> {from, to})

\* spawn_operation: an entry e, a folder d and a name, as the operation takes them.
OperationCall(op, e, d, name) ==
    CASE op = "Copy"    -> Transfer("copy", e, d)
      [] op = "Move"    -> Transfer("move", e, d)
      [] op = "Sync"    -> Call("sync", e.at, d, None)
      [] op = "Delete"  -> DeleteCall(e)
      [] op = "Rmdir"   -> Call("rmdir", e.at, e.at, None)
      [] op = "Rmdirs"  -> Call("rmdirs", e.at, e.at, None)
      [] op = "MakeDir" -> MkdirCall(d, name)
      [] op = "Rename"  -> RenameCall(e, name)
      [] op = "CopyUrl" -> Call("copyurl", d, Join(d, name), None)
      [] op \in {"Cleanup", "SetTier"} -> Untouched(e)

TakesEntry(op) == op \notin {"MakeDir", "CopyUrl"}
TakesFolder(op) == op \in {"Copy", "Move", "Sync", "MakeDir", "CopyUrl"}
TakesName(op) == op \in {"MakeDir", "Rename", "CopyUrl"}

OperationTargets(op, e, d) ==
    (IF TakesEntry(op) THEN {e} ELSE {})
        \cup (IF TakesFolder(op) THEN {[at |-> d, dir |-> TRUE]} ELSE {})

\* The last path argument is what a destructive operation consumes.
Operand(op, e, d) == IF TakesFolder(op) THEN d ELSE e.at

-----------------------------------------------------------------------------
(* The window *)

OpInit ==
    /\ tree = Start
    /\ here = None /\ clip = None /\ capture = None
    /\ queue = {}
    /\ left = MaxGestures
    /\ elsewhere = FALSE

\* A gesture enqueues one job per item.
Enqueue(jobs) ==
    /\ left > 0
    /\ queue' = queue \cup jobs
    /\ left' = left - 1

\* Bound: one thing is open at a time, and but for the paste menu it opens with
\* an empty clipboard, which nothing else reads.
Capture(what) ==
    /\ capture = None
    /\ left > 0
    /\ what.kind = "menu" \/ clip = None
    /\ capture' = what

Release == capture # None /\ capture' = None

\* Any navigation of the focused pane; it does not close what is open.
Visit ==
    /\ left > 0
    /\ \E d \in Dirs : here' = d
    /\ UNCHANGED <<tree, clip, capture, queue, left, elsewhere>>

\* set_clipboard, from the list or its menu: nothing else is open then.
SetClipboard ==
    /\ left > 0
    /\ here # None /\ capture = None
    /\ \E es \in SUBSET Shown(here) \ {{}}, mode \in {"copy", "move"} :
           clip' = [entries |-> es, mode |-> mode]
    /\ UNCHANGED <<tree, here, capture, queue, left, elsewhere>>

\* paste_clipboard_into: the folder is given, the remote is the one open now.
PasteInto(path) ==
    /\ here # None /\ clip # None
    /\ Enqueue(TransferJobs(clip.mode, clip.entries, <<here[1], path>>))
    /\ clip' = IF clip.mode = "move" THEN None ELSE clip
    /\ UNCHANGED <<tree, here, elsewhere>>

Paste == PasteInto(here[2]) /\ UNCHANGED capture

\* The row menu holds the folder to paste into.
OpenMenu ==
    /\ here # None /\ clip # None
    /\ \E e \in Shown(here) : e.dir /\ Capture([kind |-> "menu", into |-> e.at[2]])
    /\ UNCHANGED <<tree, here, clip, queue, left, elsewhere>>

PasteFromMenu ==
    /\ Release /\ capture.kind = "menu"
    /\ PasteInto(capture.into)

\* A drag holds its items; the pane below may change while it hovers.
StartDrag ==
    /\ here # None /\ left > 0
    /\ \E es \in SUBSET Shown(here) \ {{}} : Capture([kind |-> "drag", items |-> es])
    /\ UNCHANGED <<tree, here, clip, queue, left, elsewhere>>

\* drop_is_copy: what a modifier key forces, else by whether the remote changes.
DropMode(src, dst, forced) ==
    IF forced # None THEN forced ELSE IF src[1] = dst[1] THEN "move" ELSE "copy"

DropInto ==
    /\ Release /\ capture.kind = "drag"
    /\ \E dst \in Dirs, forced \in {"copy", "move", None} :
           \E e \in capture.items :
               Enqueue(TransferJobs(DropMode(e.at, dst, forced), capture.items, dst))
    /\ UNCHANGED <<tree, here, clip, elsewhere>>

\* begin_upload captures the destination before the file picker opens.
BeginUpload ==
    /\ here # None
    /\ Capture([kind |-> "upload", dst |-> here])
    /\ UNCHANGED <<tree, here, clip, queue, left, elsewhere>>

\* upload_paths
UploadPaths ==
    /\ Release /\ capture.kind = "upload"
    /\ \E name \in Labels, dir \in BOOLEAN :
           Enqueue({Job(UploadCall(capture.dst, name, dir),
                        {[at |-> Join(capture.dst, name), dir |-> dir]}, {})})
    /\ UNCHANGED <<tree, here, clip, elsewhere>>

BeginNewFolder ==
    /\ here # None
    /\ Capture([kind |-> "newFolder"])
    /\ UNCHANGED <<tree, here, clip, queue, left, elsewhere>>

\* create_folder: in the folder that is open when the name is submitted.
CreateFolder ==
    /\ Release /\ capture.kind = "newFolder"
    /\ \E name \in Labels :
           Enqueue({Job(MkdirCall(here, name), {[at |-> Join(here, name), dir |-> TRUE]}, {})})
    /\ UNCHANGED <<tree, here, clip, elsewhere>>

BeginRename ==
    /\ here # None
    /\ \E e \in Shown(here) : Capture([kind |-> "rename", entry |-> e])
    /\ UNCHANGED <<tree, here, clip, queue, left, elsewhere>>

\* rename_entry: the same name is no rename.
RenameEntry ==
    /\ Release /\ capture.kind = "rename"
    /\ \E name \in Labels :
           LET e == capture.entry
               to == [at |-> Join(Parent(e.at), name), dir |-> e.dir]
           IN  IF name = Leaf(e.at)
               THEN UNCHANGED <<queue, left>>
               ELSE Enqueue({Job(RenameCall(e, name), {e, to}, {})})
    /\ UNCHANGED <<tree, here, clip, elsewhere>>

\* request_delete_selected: the entries are those selected when it was asked.
RequestDelete ==
    /\ here # None /\ left > 0
    /\ \E es \in SUBSET Shown(here) \ {{}} :
           Capture([kind |-> "confirm", jobs |-> {DeleteJob(e) : e \in es}])
    /\ UNCHANGED <<tree, here, clip, queue, left, elsewhere>>

\* run_operation, with the arguments the palette collected.
RunOperation ==
    /\ left > 0
    /\ \E op \in {"Copy", "Move", "Sync", "Delete", "Cleanup", "Rmdir", "Rmdirs",
                  "MakeDir", "Rename", "CopyUrl", "SetTier"} :
       \E e \in IF TakesEntry(op) THEN {EntryAt(p) : p \in DOMAIN tree \cup Roots}
                ELSE {EntryAt(Root(d)) : d \in Drives},
          d \in IF TakesFolder(op) THEN Dirs ELSE {None},
          name \in IF TakesName(op) THEN Labels ELSE {None} :
           LET call == OperationCall(op, e, d, name)
               targets == OperationTargets(op, e, d)
           IN  IF Destructive(op)
               THEN /\ Capture([kind |-> "confirm",
                                jobs |-> {Job(call, targets, {Operand(op, e, d)})}])
                    /\ UNCHANGED <<queue, left>>
               ELSE Enqueue({Job(call, targets, {})}) /\ UNCHANGED capture
    /\ UNCHANGED <<tree, here, clip, elsewhere>>

\* start_sync, the other pane being open at a folder of its own.
StartSync ==
    /\ here # None /\ left > 0
    /\ \E there \in Dirs, mode \in {"Copy", "Mirror", "Bisync"} :
           IF SyncConfirms(mode)
           THEN /\ Capture([kind |-> "confirm", jobs |-> {SyncJob(mode, here, there)}])
                /\ UNCHANGED <<queue, left>>
           ELSE Enqueue({SyncJob(mode, here, there)}) /\ UNCHANGED capture
    /\ UNCHANGED <<tree, here, clip, elsewhere>>

\* download_selected: the remote is untouched.
DownloadSelected ==
    /\ here # None /\ left > 0
    /\ \E es \in SUBSET Shown(here) \ {{}} : Enqueue({Job(Untouched(e), {e}, {}) : e \in es})
    /\ UNCHANGED <<tree, here, clip, capture, elsewhere>>

Accept ==
    /\ Release /\ capture.kind = "confirm"
    /\ Enqueue(capture.jobs)
    /\ UNCHANGED <<tree, here, clip, elsewhere>>

\* Esc, a click outside, a cancelled picker, a drop on nothing.
Dismiss == Release /\ UNCHANGED <<tree, here, clip, queue, left, elsewhere>>

\* rclone ends a job: it did all of it, or failed or was cancelled with a part done.
EndJob ==
    /\ \E j \in queue :
           /\ queue' = queue \ {j}
           /\ tree' \in Outcomes(tree, j.does) \cup PartOutcomes(tree, j.does) \cup {tree}
    /\ UNCHANGED <<here, clip, capture, left, elsewhere>>

\* Somebody else removes something from a remote, once, while this window holds a
\* capture or waits for a job.
ChangedElsewhere ==
    /\ ~elsewhere /\ elsewhere' = TRUE
    /\ capture # None \/ queue # {}
    /\ \E p \in DOMAIN tree : tree' = Without(tree, {p} \cup Under(tree, p))
    /\ UNCHANGED <<here, clip, capture, queue, left>>

OpNext ==
    \/ Visit \/ SetClipboard \/ Paste \/ OpenMenu \/ PasteFromMenu
    \/ StartDrag \/ DropInto \/ BeginUpload \/ UploadPaths
    \/ BeginNewFolder \/ CreateFolder \/ BeginRename \/ RenameEntry
    \/ RequestDelete \/ RunOperation \/ StartSync \/ DownloadSelected
    \/ Accept \/ Dismiss \/ EndJob \/ ChangedElsewhere

OpSpec == OpInit /\ [][OpNext]_opVars

-----------------------------------------------------------------------------
(* Properties *)

OpTypeOK ==
    /\ DOMAIN tree \subseteq Places
    /\ here \in Roots \cup Places \cup {None}
    /\ left \in 0 .. MaxGestures

SourceOf(c) == Join(c.from, c.only)
TargetOf(c) == Join(c.to, c.only)

\* At p there is now a file that the call took below its source, or brought.
Overwritten(t, u, c, p) ==
    /\ HasFile(u, p) /\ Within(p, TargetOf(c))
    /\ \/ u[p] = New
       \/ \E s \in DOMAIN t : Within(s, SourceOf(c)) /\ u[p] = t[s]

\* The last copy of a content is lost with a job, done or ended in any part of it,
\* only below a place that the user confirmed for that very job, or because a file of
\* the job's own source came under its name, where the job was sent: copies, moves,
\* renames and uploads ask nothing before they overwrite.
NothingLostUnasked ==
    [][\A j \in queue \ queue' : \A p \in DOMAIN tree :
           tree[p] \in Contents(tree) \ Contents(tree') =>
               \/ Overwritten(tree, tree', j.does, p)
               \/ \E a \in j.confirmed : Within(p, a)]_opVars

\* Where the row names no folder: in a folder that the palette copies, moves or renames,
\* as its row does not name where it goes; from the second level on below the item; and
\* below what was a file when it was picked.
Deep(j, p) ==
    \/ /\ j.does.call \in {"copy", "move"}
       /\ \A e \in j.targets : e.at # TargetOf(j.does)
       /\ Inside(p, TargetOf(j.does))
    \/ \E a \in {SourceOf(j.does), TargetOf(j.does)} : Inside(Parent(p), a)
    \/ \E e \in j.targets : ~e.dir /\ Inside(p, e.at)

Changed(t, u, p) ==
    \/ p \in (DOMAIN t \cup DOMAIN u) \ (DOMAIN t \cap DOMAIN u)
    \/ p \in DOMAIN t \cap DOMAIN u /\ t[p] # u[p]

\* Whatever part of its call a job did, what it changed is an entry of a folder that
\* its row names (Job::affected_dirs), so that a job that succeeds has every pane on
\* that folder refetch; but for what is deep in the item, and for the lost folders it
\* made again on the way to its destination.  (A job that fails tells no pane.)
ChangesInAffectedDirs ==
    [][\A j \in queue \ queue' : \A p \in Places :
           Changed(tree, tree', p) =>
               \/ Parent(p) \in AffectedDirs(j)
               \/ Deep(j, p)
               \/ \E e \in j.targets : p \in AncestorsOf(e.at)]_opVars

=============================================================================
