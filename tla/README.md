# rspace in TLA+

rspace is a desktop file manager for cloud storage: a gpui window (`crates/ui`)
over a client of rclone's remote-control API (`crates/rclone_rc`), which starts
and drives an `rclone rcd` daemon, with a small core (`crates/core`: listing
cache, settings, database) and an entry point (`crates/app`).

These modules model the parts whose correctness depends on the order of things:
answers that arrive late, calls that fail half way, daemons and instances that
die, and the state of several components that must change together.  Every
module is checked with TLC on small instances; what is proved for every
instance is in *Proofs* below.

## The system

The UI thread owns all UI state.  gpui entities run their handlers one at a
time, so a handler is one atomic step; work that waits is spawned on a
background executor or on the tokio runtime and comes back as another step.
Every interleaving below comes from there, from rclone, or from other instances
of rspace run by the same user.

| component | source | state | operations |
|---|---|---|---|
| listing cache and query | `core/cache.rs`, `ui/query.rs` | cached listings with a time stamp, the current folder with its rows and status, the folders in flight | load, reload, invalidate, update_current, set_stale_after, settling of a fetch |
| explorer | `ui/explorer`, `ui/selection.rs` | the rows, a filter, a subfolder search, selection, cursor, the row to land on, a rubber band | show, deliver, sort, type, search, click, extend, drag, frame |
| job tracker | `ui/transfers.rs`, `ui/tasks_pane.rs` | the rows of the tasks panel, each with rclone's job id and a state; their selection and menu | enqueue, submit, poll, settle, cancel, retry, clear, trim |
| file operations | `ui/jobs/ops.rs`, `rclone_rc/ops.rs`, `sync.rs`, `ui/drag.rs` | the clipboard, what an open prompt, menu, picker or drag captured | paste, drop, rename, new folder, delete, upload, download, sync, the palette's operations |
| daemon connection | `ui/daemon.rs`, `rclone_rc/service.rs`, `client.rs` | the health shown, the endpoint calls go to, the daemon mutex | ping loop, reconnect, restart, calls with timeouts |
| daemon lifecycle | `rclone_rc/daemon.rs`, `proc.rs`, `app/main.rs` | the child process, the pid file | start, reap orphans, restart, shutdown, signal cleanup |
| mounts | `rclone_rc/mount.rs`, `ui/jobs/mounts.rs` | the table of mount children, the UI's mounted and busy sets | mount, unmount, remount, shutdown, reap orphans |
| tabs, split view, compare | `ui/workspace/tabs.rs`, `split.rs`, `pane.rs` | pane groups, pins, the focused group, the tab menu, the compare result and markers | new, select, close (one, others, right, all), pin, drag, split, merge, swap, compare, clear |
| navigation | `ui/workspace/navigation.rs` | per pane: the folder, a history with a position and a row per entry | navigate, back, forward, up, home |
| workspace shell | `ui/lib.rs`, `workspace/{modal,dock,toasts}.rs` | the modal slot, the dock, toasts | show, dismiss, toggle |
| remotes | `ui/workspace/remotes.rs`, `ui/sidebar` | the remotes, the pinned ones in order, the highlighted row | load, pin, reorder, open, delete |
| configuration wizard | `ui/remotes` | its stage, the call it waits for, the OAuth webserver | start, name, answer, back, dismiss |
| updates | `ui/update.rs`, `components/update_modal.rs` | checks and installs under way | check, prompt, choose |
| preview | `ui/preview.rs` | an LRU cache of previews, the subject and what is drawn of it | open, load, total, follow the cursor |
| settings, database | `core/{settings,db,paths,sort,uninstall}.rs` | settings, pins, UI state, usage counts | read, write, rank |
| command palette | `ui/command_palette.rs`, `components/picker.rs`, `fuzzy.rs` | the stage, the arguments collected, a listing, the rows matched | open, type, confirm, back |
| detection, widgets | `rclone_rc/detect.rs`, the rest of `ui` | none that others rely on | |

How they interact.  The explorer calls its query, which reads and fills the
cache and lists a folder through the service.  Operations enqueue jobs in the
tracker; the tracker's events make the workspace invalidate the folders a job
changed.  Every call goes through the service's current client, which a restart
replaces.  The connection pings, and restarts, the daemon that the lifecycle
owns; on shutdown the lifecycle detaches the mounts.  Tabs own the panes, whose
explorers poll only while they are on screen.  Instances share the directory of
pid files, the mount root and the process table.

What is hard, and for each component what makes it correct:

- *query*: a fetch may answer after the user left the folder, after a sort, or
  after another fetch was wanted and dropped.  Correct: the rows are of the
  current folder; a spinner has a fetch that will end it; a shown folder never
  goes back in time; the rows and their cached copy agree; the screen catches up.
- *job tracker*: job list, status, stop and submission are separate calls, each
  of which may fail, and rclone numbers jobs from 1 after a restart.  Correct:
  each row is announced once, stays finished, refreshes what it changed, and is
  about its own job; a retry never runs an operation twice; a cancelled row's
  job has stopped; every row ends.
- *connection*: pings overlap restarts and restarts each other.  Correct: one
  daemon; calls go to it; the health shown comes to be its health.
- *lifecycle*: crashes leave daemons and files; pids are reused; launches race.
  Correct: one daemon per instance, orphans are killed, live daemons are not.
- *mounts*: a child may mount after it was given up; operations overlap; a
  crash leaves mounts.  Correct: one child per remote, none untracked; the set
  the UI shows is the set of mounts; operations end.
- *tabs*: indices shift under the focus, and polling, the cached explorer
  handle, the menu and the markers must follow.  Correct: indices stay in range,
  no tab is lost or doubled, what polls is what is on screen, pinned tabs stay in
  front and are spared, markers and counts come from one compare.
- *explorer*: rows change under a cursor kept by number and a selection kept by
  path, and several handlers run before a frame reconciles them.  Correct: a
  frame leaves them in agreement, and nothing but a gesture selects.
- *file operations*: a drag, a menu, a prompt or a confirmation acts on what it
  captured while the window went on, and a job ends long after, perhaps half
  done.  Correct: nothing is lost that was not confirmed, and every folder
  changed is one the job's row names.
- *dialogs, wizard, palette, preview, sidebar*: answers come after the dialog
  closed, the stage was taken back or the cursor moved on.  Correct: an answer
  reaches only what asked for it, and no call outlives its wizard.
- *settings*: a save may be cut off at any system call, other instances save too,
  and the user edits the file.  Correct: what was saved last is read at the next
  launch, and an unreadable file is kept.

## Modules

The exact lines each definition stands for are in PROJECT.json.  Operators named
`Mut...` are mutants: a bug the definition after them could plausibly have, with
which TLC must find a property violated.  PROJECT.json pairs each with the
property.

### Listings and the explorer

**Query** models one `Query` (`query.rs`) with its `QueryCache` (`cache.rs`).
`current`, `data`, `status` and `inFlight` are the fields of `Query`; `cache`
is the map of `QueryCache`, with `age` for the time stamp; `tasks` are the
spawned fetches, each with the sort order it captured.  `Load`, `Reload`,
`Invalidate`, `UpdateCurrent`, `SetStaleAfter` and `Settle` are the methods and
the closure that applies a fetch's outcome.  `Answer` and `Fail` are the end of
the list call.  A folder's contents are a version number that `Change` advances
(another program writes to the remote); a listing is a folder, the version it
read and its order.  `floor` is history only: the version an invalidation asks
for.  Entries age with `Tick`, up to `MaxAge`, and are stale from the age that
`SetStaleAfter` has set, or never.

**ShownListing** is what a query promises its view: open a folder, rearrange,
show a spinner, deliver rows of the open folder or give up, and every spinner
ends.  Query implements it.

**Explorer** models one file list (`ui/explorer`, `ui/selection.rs`).  Its state
is the open folder and its rows, the filter (`text`, and the subfolder search's
`searched` and `hits`), the rows filtered (`view`) with the signature that says
when to rebuild them, the selection by path with its anchor, the cursor by row
number, the rubber band's `base`, and `pending`, the name to land on.  Handlers
run between frames, and `Frame` is `rebuild_search_view` and
`resolve_selection`.  Listings arrive at any moment (`Deliver`), in any order
and with any of the entries: Query says which of these really come, Explorer
relies on none of it.

**Matching** holds the searches and ranks, as operators without state: the words
of a search and the glob that bounds it on rclone's side (`client.rs`,
`service.rs`), the fuzzy matcher (`fuzzy.rs`), and the order of commands and of
frequent remotes (`db.rs`, `command_palette.rs`).  Each is compared with a
reference: no file with all the words is lost to the glob (`NoHitIsLost`), the
highlight marks the words and nothing else (`HighlightIsExact`), the greedy
fuzzy match is the leftmost of all embeddings (`GreedyIsLeftmost`), the
comparisons are total orders (`CommandsAreOrdered`), and a visit never lowers a
remote (`VisitRaises`).

**Markers** does the same for a compare: the reading of rclone's answer and its
counts (`sync.rs`, `service.rs`, `split.rs`), and the marker of each row
(`explorer/mod.rs`), against the one state of everything at or below the row.

### Jobs and operations

**Jobs** models `Jobs` (`transfers.rs`).  `rows` are its items, with a job number
once rclone accepted the operation and the flags done, cancelled and error; the
daemon's jobs are external.  Everything is split at its awaits: the poller asks
for the list (`PollListed`) and applies it (`PollRetain`), asks for one status
(`PollStatus`) and applies it (`PollApply`); a submission is `Spawn` or `Retry`,
then `Accept` or `Refuse`, then `OnJobSubmitted`; a cancellation is `Cancel`,
`Stop`, `OnCancelled`.  `Restart` replaces the daemon by one that counts from 1.
The calls that may fail are a constant, so that each run says which.
`fate` (what became of each row's job) and `mishaps` (whether the answer that
gave its number was lost, its daemon replaced, a stop of it failed) are history.

**Tasks** models the panel over that list (`tasks_pane.rs`, `menus.rs`, the
commands of `jobs/ops.rs`): a selection that is healed when the panel is drawn,
a menu and a question that hold the rows they were opened over, retries of many
rows one after the other with the trim each causes.  What Jobs does in several
steps is one step here.

**Operations** models the way from a gesture to the remotes (`jobs/ops.rs`,
`rclone_rc/ops.rs`, the builders of `service.rs`).  `tree` is what the remotes
hold, `here` the focused pane's folder, `clip` the clipboard, `capture` what an
open menu, prompt, confirmation, picker or drag holds, `queue` the jobs, each
with the call it becomes, the targets it announces and the places the user
confirmed.  The calls' effects are rclone's, external: what a job leaves when it
succeeds (`Outcomes`; a call that may overwrite chooses which content survives)
and when it fails or is cancelled (`PartOutcomes`: any part of what was to
arrive, and of what was to go).

### Daemon and mounts

**Connection** models `DaemonStatus` (`ui/src/daemon.rs`), `Service` and the endpoint
swap (`service.rs`).  A restart is the sequence lock, stop, spawn, unlock, swap,
settle; the mutex is released before the swap, as in the code.  The ping loop
and `Reconnect` capture the client when they start.

**Lifecycle** models `Daemon` (`daemon.rs`) for several instances over one
process table.  Instances and daemons draw pids from the same set; `Launch`,
`ReapFile` (one per listed file), `Spawn`, `WritePidfile` and `Healthy` are
`Daemon::start`; `Restart`, `Quit`, `QuitWithout` and `Crash` are the ways on.
`QuitWithout` and `Crash` include the teardown that times out and the signal
that arrives while a restart holds the mutex.

**Mounts** models `Mounts` (`mount.rs`) and the UI's side of it
(`jobs/mounts.rs`): a mutex held for a whole operation, children that start,
mount, fail or die, and siblings that reap the mount root at their launch.  A
wait that times out is one step and the stopping of its child another, so that
the child may mount in between.

### The window

**Tabs** models the pane groups (`workspace/tabs.rs`, `split.rs`, the activation
in `lib.rs`): `groups`, `focused`, `pinned`, `nextId` and `menu` are the
workspace's, `polling` and `handle` what must follow the focus, `diff`, `result`
and `flight` the compare.  A pane is reduced to whether it shows a folder.

**History** models one pane's history (`navigation.rs`, `pane.rs`): a list with a
position, truncated by a visit, and the row each entry remembers.
**BrowserHistory** is its specification, two stacks around a place; History
implements it by cutting its list at the position.

**Remotes** models the sidebar (`workspace/remotes.rs`, `ui/sidebar`): loads that
overlap, the pins and their reordering, the highlight, which is a row number
over pinned rows first, and a deletion whose answer comes late.

**Palette** models the command palette (`command_palette.rs`, `picker.rs`): the
stages of a command's arguments, the listing a path is completed from, and the
rows matched, which are those of the last frame.  `ran` is the command that ran
with its arguments.

**Dialogs** models the modal slot (`modal.rs`, `workspace/settings.rs`), the
wizard (`ui/remotes`) and the update prompt (`update.rs`).  `calls` are the
configuration calls rclone serves and `server` its OAuth webserver; dropping a
wizard drops its task and with it the request.

**Preview** models the preview panel (`preview.rs`) and the dock: the subject, its
reads and totals in flight, the LRU cache and what is drawn.

**Storage** models `settings.json` and the pins in the database (`settings.rs`,
`db.rs`), one system call or statement per step, each of which may fail, and
`Killed` at any point.  A launch may fail to read the file or to move aside one
it cannot parse (`ReadFails`, `MoveAside`); `slips` is the history of that.
**MCStorage** is Storage on its own, for the violation run.

**Values** is what they share: `None`, and `KeepOnly`, the filter of a list.

The `*Proofs` modules extend these with theorems: Query, Jobs, Connection,
Lifecycle, Mounts and Tabs have one each; `PanelProofs` is about the three lists
of a window (Explorer, Remotes, Tasks), and `WindowProofs` about its other parts
(Dialogs, Palette, Preview, History, Storage, Operations) and about `MCWindow`.

### How they are composed

Query does not see the daemon, only a call that succeeds or fails; Jobs sees a
daemon that restarts, whatever made it restart.  Connection and Lifecycle meet
at `Daemon::restart`: Connection has its two halves under the mutex, of which
the second may fail; Lifecycle refines them to the kill, the spawn, the pid file
and the health check of one instance among several.  Operations says what a
job announces when it succeeds, Jobs that a success is announced once, and
Query's `Invalidate` what an announcement does to the listing.

`MC*` modules extend these with what the cfgs need: a symmetry of the pids in
`MCLifecycle`, the set of pinned tabs in `MCTabs`, the refinement in `MCQuery`,
the entries of the remotes in `MCExplorer` and `MCWindow`.  Only the safety run
of Lifecycle uses a symmetry.  `MCWindow` and `MCJobsPanel` check several parts
in one run: a behaviour picks a part at the start and only that part moves, the
others rest in an initial state.  They are not interleaved, because they share
no state in these models; each is explored as it would be on its own.  Properties
of a part that rests hold or fail as they do in its initial states.

## Runs

Deadlock is checked except in `lifecycle`, where each pid is given out once and
they may really be used up, and in `window`, where a part stops once its
gestures, saves or wizards are used up.

| run | bounds | shows |
|---|---|---|
| `query` | 2 folders, cache of 1, 2 sort orders, staleness on and off, 1 age, 1 change per folder | the race guard, the dedup, errors, eviction (also of the folder on screen), the order of versions, the agreement of the two copies also when a sort happens during a fetch; the screen catches up, Query implements ShownListing |
| `explorer` | 3 entries in 2 folders, one below the other, with a name in both; 1 search text; 2 rows, 2 handlers between frames | after a frame selection and cursor are about the rows on display; rows are of the open folder and pass the filter; only gestures select.  Evaluates Matching |
| `jobs` | tracker: 2 rows, 1 restart, 2 cancels, every call failing at will; panel: 3 rows, a history of 1 | each row announced once, a success refreshes, finished stays finished; a retry runs nothing twice; a row reports its own job; a cancelled row's job has stopped (each but for the jobs named below); a menu or a question spares the tasks that run when it is answered |
| `jobs_live` | 2 rows, 1 restart, 1 cancel, refusals | every row settles or goes |
| `connection` | 4 endpoints, 2 overlapping restarts, a reconnect | one daemon at most; the health shown converges |
| `lifecycle` | 6 pids, each given out once | one daemon each, recorded orphans killed, live daemons spared; six pids are three instances with a daemon each, or one that is relaunched twice |
| `mounts` | 1 remote, 2 operations at a time, remounts, siblings, exits | one child, none untracked, every operation ends |
| `tabs` | 4 tabs, 2 ever pinned, 2 groups, no folders | well-formed groups, polling and handle follow the focus, nothing lost, pinned tabs spared, and in front while tabs move within their group.  Evaluates Markers |
| `tabs_compare` | 3 tabs with folders, compares, no pins | counts and markers come from one compare |
| `window` | see below | every part keeps to its types; operations: nothing lost unasked, every change in a folder the row names; history: it implements BrowserHistory; sidebar: the highlight follows its remote; palette: a command runs with what was asked; dialogs: no call outlives its wizard; preview: what is drawn is the subject's; storage: what was saved is read again |
| `query_invalidate` (violation) | 2 folders | `invalidate` while the folder is being fetched starts no fetch: the older answer is stored as fresh, and nothing is fetched until it is stale |
| `storage` (violation) | 2 settings, 1 pin, 4 saves, edits and launches | a settings file that `read_to_string` cannot read is not moved aside (settings.rs:50-52), and the next save replaces it with defaults: what settings.rs:55-56 means to prevent |

Why these bounds meet the interesting cases: every race in the code is between
two answers, two restarts or two operations, and a step of the user; a cache of
one with two folders evicts at each fetch; a history of one with three rows has
an older and a newer finished row to choose from; four tabs fill two groups with
one on either side of an active one.  In the tracker, two rows are an operation
and its retry, or an operation and another whose job takes its number after the
restart; two cancellations are two stops of one row, or one of each.

- Explorer: two folders, one of which a subfolder search of the other descends
  into, with the same name in both, tell paths from names; of three entries two
  rows at a time are shown, so that rows come, go and change places; two handlers
  before a frame are enough for an answer and a gesture on older rows.  The code
  draws a frame after any number.  Named in the module: a band is not dragged
  over a navigation if it began with a selection; rows do not disappear
  altogether under a band or a filter.
- Operations: a folder with a file, a file of the same name beside it and its
  namesake on the other drive, paths of two names, one gesture that enqueues
  jobs (of as many items as are selected), one removal by somebody else.  One
  thing is open at a time, and but for the paste menu it opens with an empty
  clipboard, which nothing else reads.
- History: three places, one above another, histories of up to three.  Remotes: two
  remotes, two loads at a time, one deletion at a time.  Palette: two remotes
  with a listing, three commands of one and two arguments.  Dialogs: two wizards,
  two checks, four texts of the name field, one of which is another with a space.
  Preview: two panes, an image, a text and a folder, a cache of one, two reads of
  one subject.  Storage: two settings, two pins, four saves, edits and launches;
  the user edits the file while no instance runs, and spoils it once at a time.
- Tasks: three rows ever made; the panel is shown or hidden with no menu or
  question open; the anchor of a range may be any row.
- Matching: queries and names of three characters, fuzzy texts of four, three
  commands and remotes.  Markers: up to three entries over four paths, at the top
  of a remote and below it.

Conditions on the properties that are the code's own, written into each of them:

- `NoDoubleRun`: of two copies of an operation that run at once, the answer to one
  submission was lost.  Its row shows an error and can be retried, and the
  protocol has nothing to tell an accepted job from a refused one.
- `RowReportsItsOwnJob`: of a row whose number is not known (its answer was lost)
  or names nothing any more (the daemon that ran it was replaced) nothing is
  said.  That a row of the new daemon keeps to its own job, whatever rows,
  cancellations and polls the old one left, is in the run.
- `CancelledMeansStopped`: of a job one of whose own stops failed nothing is said.
  That no other fault leaves a cancelled row's job running is in the run.
- `DoneIsFinal`: the answer to a stop may come after its row finished, and turns
  what the row shows into Cancelled (transfers.rs:354-357); the property says
  that nothing else does, and that it takes nothing else back.
- `NothingLost` (Tabs): pins stay in front as long as no group gets tabs of another.
- `StateSurvives`: the pins are one whole list if every statement of the last
  transaction was carried out, and otherwise rows of saved lists, each name once; a
  text the user spoilt is kept if no launch failed to read or to rename it.
- `NothingLostUnasked`: a file may be overwritten by one of the job's own source
  with its name, for which nothing asks.
- `ChangesInAffectedDirs` says which folders a row names, for every part of its
  call a job may have done; only a job that succeeds announces them
  (transfers.rs:190-203).  It excepts what lies from the second level on below the
  item, what is below something the palette copies, moves or renames (its row does
  not name where that goes), and the folders rclone makes on the way.

### Stated, and not kept by the code

The modules state some more promises of the code's comments that its steps do
not keep.  But for `InvalidatedIsRefetched` and `UnreadableIsKept`, which have
the two violation runs, no run is spent on them; adding the property to the cfg
with the change given makes TLC print the behaviour.

| property | cfg and change | what happens |
|---|---|---|
| `StaleRowsStayVisible` (Query) | `MCQuery` | a poll after `invalidate` empties the screen until the refetch answers (query.rs:145) |
| `CursorIffSelected` (Explorer) | `MCExplorer` | a rubber band, or a row toggled off, leaves a selection without a cursor (explorer/mod.rs:70) |
| `FilterIsOfListing` (Explorer) | `MCExplorer` | a listing with as many entries leaves the filtered rows of the old one (search.rs:29) |
| `EveryRowReportsItsOwnJob` (Jobs) | `MCJobsPanel` | after a restart a kept job number is another operation's job, whose outcome the row reports (transfers.rs:36, 167) |
| `CancelledWasStopped` (Jobs) | `MCJobsPanel` | a stop call that failed, or that came after the job's own end, still marks the row cancelled (transfers.rs:45, 352) |
| `LiveJobKeepsItsRow` (Jobs) | `MCJobsPanel` | a job list asked for before a submission drops the new row (transfers.rs:141) |
| `CancelIsNeutral` (Jobs) | `MCJobsPanel` | a cancellation the poller sees first is announced as a failure (transfers.rs:45) |
| `RestartIsShown` (Connection) | `MCConnection` | Reconnect replaces Restarting during a restart (ui daemon.rs:16, 55) |
| `EveryRestartIsSwappedIn` (Connection) | `MCConnection` | two restarts swap their clients in the opposite order (service.rs:119) |
| `LeakProof` (Lifecycle) | `MCLifecycle` | a crash before the pid file is written leaves an unrecorded daemon (daemon.rs:32) |
| `OrphansReaped` (Lifecycle) | `MCLifecycle`, 3 pids, `Recycle = TRUE` | an instance given a crashed one's pid skips its file and overwrites it (daemon.rs:45) |
| `LiveDaemonSpared` (Lifecycle) | `MCLifecycle`, 4 pids, `Recycle = TRUE` | a recycled pid that is a live sibling's daemon is killed (daemon.rs:209) |
| `LiveMountSpared` (Mounts) | `MCMounts` | a launch force-unmounts what a live instance mounted: the root is shared (mount.rs:201, 204) |
| `MountedIsActive` (Mounts) | `MCMounts` | a remount whose mount fails, or two toggles whose results arrive in the other order, leave the remote shown as mounted (mounts.rs:6) |
| `SurvivorsReaped` (Mounts) | `MCMounts` | a child that mounts after its instance died outlives the next reap (daemon.rs:195) |
| `MarkersNeedResult` (Tabs) | `MCTabsCompare` | a merge, or a clear that reaches only the tabs in front (split.rs:245), leaves markers that come on screen without a result (explorer/mod.rs:92) |
| `DirectionShown` (Tabs) | `MCTabsCompare` | a compare that lands after a swap has source and destination reversed (split.rs:57) |
| `ResultNeedsSplit` (Tabs) | `MCTabsCompare` | a compare that lands after the split collapsed sets a result (lib.rs:231) |
| `PinnedClosesFromMenu` (Tabs) | `MCTabs` | the close key closes a pinned tab (lib.rs:258) |
| `PinnedFirst` (Tabs) | `MCTabs` | a tab dropped on another group lands before its pinned ones (tabs.rs:331) |
| `PreviewFollowsCursor` (Preview) | `MCWindow` | a frame that moves the cursor notifies nobody, so the panel stays on the row before (preview.rs:119) |
| `EditKeepsItsRemote` (Dialogs) | `MCWindow` | the wizard lets the name of the remote it edits be changed and updates the one named (remotes/mod.rs) |
| `UpdatePromptWaits` (Dialogs) | `MCWindow` | the prompt of a check that ends replaces an open dialog |

Seen while reading and modelling, and stated by no property:

- *Explorer*: a sort selects the row under the cursor alone, though the comment
  at mod.rs:74 has the selection survive it; a row to land on is given up at the
  next frame with rows, which may come before the rename it waits for
  (mod.rs:83-84).
- *Markers*: the comment at explorer/mod.rs:216 says that a folder with a
  differing descendant reads as differing; one whose descendants are all on one
  side reads as that.  Files that could not be checked are tinted and counted
  nowhere.  Markers are kept by path, so another remote with the same paths is
  tinted as well (mod.rs:221).
- *Jobs*: a job that failed or was cancelled half way announces none of the folders
  it changed (transfers.rs:190-203), so that the panes on them show it at their
  next poll; a cancellation applied after the job finished marks it cancelled; a
  cancelled row without an error is not offered the retry that transfers.rs:244
  speaks of; "Clear finished" also removes what finished while its question was
  open; retrying many rows may trim some of those still to be retried; a
  finished two-way sync, whichever it is, takes the flag of a requested resync.
- *Operations*: a new folder goes to the folder open when its name is confirmed.
- *History*: the row remembered is that of the cursor when the entry is left, also
  when the rows are those of a search (navigation.rs:155); a deleted remote stays
  in the entries of other panes, in the clipboard and in the mounted set.
- *Remotes*: a load changes rows under the highlight (remotes.rs:163-165), and
  an older answer may replace a newer list.
- *Dialogs*: after an answer it cannot read the wizard keeps its last question;
  `oauth_stop` is sent only by a dismissal while a call is under way, and may
  reach rclone after the next wizard started its own; two installs may run at
  once.
- *Storage*: with a failed DELETE and INSERTs that succeed, old and new pins are
  mixed (db.rs:125); a launch that fails to read a good file starts from the
  defaults, and its next save replaces the user's settings with them
  (settings.rs:50-52, 101); if moving an unreadable file aside fails, which
  `let _` at settings.rs:59 drops, the next save replaces it, and a second unreadable file replaces the first backup; an edit
  while rspace runs is overwritten; nothing is flushed to disk.

## Fairness

Runs without liveness assume none.  `query`, `jobs_live`, `connection` and
`mounts` assume weak fairness of

- the end of a call and the step that applies it: every call of `client.rs` has
  a timeout, and gpui's executors run what was spawned;
- the loops: the explorer's poll, the tracker's poll and the ping loop wake from
  a timer for as long as their window lives;
- a restart's and a mount operation's steps: each waits on a bounded timeout.
  Taking the daemon's or the mounts' mutex has strong fairness, because tokio
  grants a mutex in the order it was asked for.

No fairness is assumed of the user, of other programs or of faults.

## Proofs

Eight modules prove, for every value of the constants, every safety invariant and
every action property that the runs check, but for those under *What stays with
TLC*.  Unless a hypothesis is named, a theorem holds of every behaviour of the
specification and assumes of the constants only the module's own `ASSUME`.

| module | theorems | hypotheses |
|---|---|---|
| `QueryProofs` | `TypeCorrect`, `ShownIsAlwaysCurrent`, `SpinnerAlwaysHasFetch`, `StatusAlwaysFitsData`, `CacheAlwaysAgrees`, `CacheAlwaysSound`, `ShowsNothingOlder`; the refinement `ImplementsShownListing` | |
| `PanelProofs` | `AlwaysSettled`, `AlwaysRowsOfThisFolder`, `OnlyGesturesEverSelect` (Explorer), `PinsAlwaysHold`, `HighlightAlwaysFollows` (Remotes), `RunningAlwaysSpared` (Tasks) | |
| `JobsProofs` | `ToldOnceAlways`, `SuccessAlwaysRefreshes`, `DoneStaysFinal`, `NeverRunsTwice`, `RowAlwaysReportsItsOwnJob`, `CancelledIsAlwaysStopped` | |
| `ConnectionProofs` | `OneDaemonAlways` | |
| `LifecycleProofs` | `OneDaemonForEach` | |
| | `EveryOrphanIsReaped`, `LiveDaemonIsSpared` | no pid is given out twice: `Recycle = FALSE` |
| `MountsProofs` | `EveryChildIsTracked` | |
| `TabsProofs` | `TabsAlwaysWellFormed`, `PollingAlwaysVisible`, `MarkersAlwaysOfResult`, `FocusAlwaysStays`, `NothingIsLost` | |
| `WindowProofs` | `StepsAlwaysBelong` (Dialogs), `PreviewAlwaysMatches`, `AlwaysRunsWhatWasAsked` (Palette), `StateAlwaysSurvives` (Storage), `HistoryAlwaysAgrees`, `NothingEverLostUnasked`, `ChangesAlwaysInAffectedDirs` (Operations), `WindowTypesHold` (MCWindow); the refinement `HistoryIsKept` | |

The one hypothesis excludes a fault with which the two properties fail (the table
of *Stated, and not kept by the code* says how): the theorem and the
counterexample together say what the code relies on.  The run makes the same
restriction.  All other exceptions are in the properties themselves, above.

### The inductive invariants

None of the properties is inductive as it stands.  What each proof adds, and why:

- *Query*: `OwnValues` (a cached listing is of its own key, which makes a cached
  load show the right folder) and `VersionsInOrder` (rows shown, cached and on
  the way are ordered by the versions they read, which makes each replacement no
  older).  `SpinnerHasFetch` also says that a key has one fetch at most, without
  which an earlier answer could overtake.  The capacity is a separate induction
  (`Bounded`) because it needs finiteness, not order.
- *Explorer*: `FilterFits` (the filtered rows kept from an earlier frame are of
  the open folder, and match the text they are kept for), because a frame may
  draw them again; `Rebuilt` and `Reconciled` are what the last frame
  established, and hold until a handler runs.
- *Remotes*: the pins are distinct known remotes and each answer on the way is a
  list of them.  The rows are the pins that are loaded and then the others, so they
  are those of the list however the pins stand (`OrderedIs`): the name that was
  highlighted is found again, whatever is pinned, unpinned or moved.
- *Tasks*: `TasksFit` (row numbers and operations are used once, and what may still
  run has not succeeded) and `MenuFits` (the one row a menu was opened on is as
  finished as it was then, although the list moved on below the menu).  A retry of
  many rows is followed row by row, each with a fresh number.
- *Jobs*: `SubmitsFit` and `CallsFit` (a call in flight is about the row it
  names, if that is still there), `OutcomesFit` (what a row shows is what was
  announced) and `ListFits` (a running job of a row is in the daemon's table
  under the row's number, whatever numbers were used before a restart).  An
  id is handed out once (`IdsInOrder`), and the daemon has not numbered more jobs
  than were submitted (`Numbered`, by counting).  On top of it, three further
  inductions: of the rows and of the running jobs whose answer came, only one is
  about an operation (`RunsOnce`), because the job of a row with an error is over
  (`ErrorsAreOver`); until its daemon is replaced, a row's number is listed for no
  other job and the answer to a poll is about its own (`NumbersFit`, `AnswersFit`);
  and a stop that came back without failing leaves nothing running (`StopsFit`).
- *Connection*: the mutex is held by the restart that has stopped the daemon and
  not spawned the next one; nothing runs under it, and only the daemon on record
  runs without it.
- *Lifecycle*: an instance that has yet to spawn has no child
  (`NoChildBeforeSpawn`), and a daemon with an owner is its owner's child.  For
  the reaping: a pid file names the daemon of one instance only, an orphan on
  record belonged to an instance that ended, and what a launch found orphaned is
  dead or its file still to be handled (`DoomedAreListed`).
- *Mounts*: while the mutex is free every child has an entry (`Tracked`), which
  is why an operation that finds none may spawn; a mount point has one server; and
  the child of a mount that is waiting, or gave up waiting, is its own (`HolderWorks`,
  `Held`), so that stopping it leaves none behind.
- *Tabs*: `Strips` (`Well`: each group has a tab, its indices are in range, no
  tab is in two groups; ids are below `nextId`) and `Marks` (a compare under way
  or shown is about tabs that existed).  Each operation is first shown to replace
  one group's strip (`Replaced`), or the pair of them, by one with the same tabs
  or fewer.
- *Dialogs*: a wizard has one call at most, while it is busy, and the call names
  what the form still says, because only the form lets the name change.
- *Palette*: the collected arguments are of the kinds of a prefix of the task's
  stages (`FlowFits`), and the rows matched fit the stage on display, although
  they are those of the last frame.
- *Preview*: the cache holds each key once and within its limit, by what
  `RemoveAt`, `Append` and `Tail` do to a list of distinct keys.
- *Operations*: every job in the queue, behind a confirmation, in a menu or in a
  drag is one of which `JobFits` holds: what its call may take away is below a place
  confirmed for it, and what the call reaches is named by its targets.  This
  splits the two properties in halves that meet nowhere else: what rclone may do
  to a tree with a call or with a part of one (`OutcomeIs`: nothing outside `Reach`
  changes, no last copy goes but below `MayLose` or under a file that the call
  brought), and that every gesture makes jobs that fit
  (`OperationFits`, `TransferJobsFit`, `SyncJobFits`, `RenameFits`, ...), whatever
  was captured and whatever became of the tree since.  Below them are the lemmas about
  paths: prefixes are ordered, and a place moved from below one folder to below
  another can be moved back.
- *MCWindow*: a step moves one part and leaves the others (`PartsMoveAlone`), so its
  invariant is that of the seven parts side by side.
- *History*: the position is in the list and names the place shown; the mapping
  cuts the list there.
- *Storage*: the temporary file is complete before it is renamed; while no launch
  failed on it, an unreadable file is moved aside before anything is saved; the rows of an open transaction
  are a prefix of the list being saved.  `RowsTellTheList` then says that what
  `load_pinned` reads from a list's rows is that list and no other.

There is one lemma per action, and under it one step per part of the invariant
that the action can disturb.  The lemmas about sequences (`RemovedIs`,
`InsertedIs`, `KeepOnlyIs`, `RemoveAtKeeps`, `SplitIs`) say which element is
where.

Some changes to the models came from the proofs.

- The assumptions on `None` (and in Storage on its markers) were too weak to tell
  `None` from a value: they now say that it is no operation, process, row or setting,
  and in Operations no name, since to join an empty name adds nothing.  Remotes
  assumes that the remotes it may know are finitely many and that one load may be
  under way, which its initial state (the load of a window that opens) needs.
- Where a list is filtered, Tabs, Explorer, Remotes and Tasks use `KeepOnly` of
  Values, a recursive function over the prefixes, in place of the library's
  `SelectSeq`, about which no fact can be cited.  What it returns is proved by taking
  the least length for which it would fail (`LeastOf`, `UpTo`): well-foundedness of
  the natural numbers is a theorem without an operator parameter, so that an
  induction over a set can be done.  In the same way, the retry of many tasks is a
  function of how many row numbers were looked at, not a fold.
- The list of remotes in order is any list that is increasing and holds them all,
  of which there is one, in place of the library's sort; and a tree laid over another
  is written out (`Over`), because the provers do not know `@@`.

### What stays with TLC

- Liveness under fairness (`Converges`, `EveryRowSettles`, `HealthConverges`,
  `OpsEnd`, the liveness half of `Implements`): `ENABLED` and fairness are beyond
  the prover.
- What Matching and Markers compute for every input: induction over data.

## Not modelled

- rclone detection: a search of paths at start, input and output only;
- the HTTP requests of `client.rs`, their timeouts and the decoding of their
  answers: the modules that make a call have it answer or fail;
- toasts, the resizing and drawing of panels, the drag that opens a folder after
  a while, the settings form, key bindings: no state another part relies on;
- uninstalling: it removes directories and ends the program;
- rendering, text input, theming, logging: no state beyond a frame.

## Plan

1. *Core* (done): Query with ShownListing, Jobs, Connection, Lifecycle, Mounts,
   Tabs.
2. *Explorer and window* (done): Explorer, History with BrowserHistory, Remotes,
   Palette, Dialogs, Preview, Storage, Tasks, Operations, Markers, Matching.
3. *Proofs* (done): every safety invariant and action property that the runs check;
   the refinements of ShownListing and BrowserHistory.
4. *Open*: Operations joined with Jobs, so that one job's life and what it does to
   the remotes are followed together; the promises of *Stated, and not kept by the
   code*, whose definitions stand ready to become invariants of a run, and then
   theorems, if the code comes to keep them.
