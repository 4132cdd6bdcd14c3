-------------------------------- MODULE Tabs --------------------------------
(***************************************************************************)
(* The workspace's pane groups: the tab strips of ui/src/workspace/tabs.rs *)
(* and pane.rs, the split view and its compare overlay (split.rs), and the *)
(* state that must follow the focused tab through every one of them - which *)
(* explorers poll, which explorer the cached handle points at, which       *)
(* context menu is open.                                                   *)
(*                                                                         *)
(* A folder is reduced to "this tab shows one"; a compare result to the    *)
(* pair of explorers it was computed for.  Sequences are numbered from 1.  *)
(*                                                                         *)
(* Bounds: MaxTabs tabs are ever created; only tabs of Pinnable are pinned *)
(* from their menu; CanSplit = FALSE leaves the split commands out.        *)
(*                                                                         *)
(* Operators named Mut... are mutants, bugs the next definition could have; *)
(* nothing uses them but the check that the properties notice them.        *)
(***************************************************************************)
EXTENDS Values, Naturals, Sequences, FiniteSets, SequencesExt

CONSTANTS MaxTabs, Pinnable, Browse, CanSplit

ASSUME TabsAssumption ==
    /\ MaxTabs \in Nat \ {0}
    /\ Pinnable \subseteq 0 .. MaxTabs - 1
    /\ Browse \in BOOLEAN     \* whether tabs open folders at all
    /\ CanSplit \in BOOLEAN
    /\ None \notin Nat

Ids == 0 .. MaxTabs - 1

VARIABLES
    groups,   \* the pane groups, left to right: [tabs, active]
    focused,  \* Workspace.active_group
    pinned,   \* the tabs with Tab.pinned
    opened,   \* the tabs whose pane has a remote open
    nextId,   \* Workspace.next_tab_id
    polling,  \* the tabs whose explorer has is_active
    handle,   \* the tab Workspace.active_explorer belongs to
    menu,     \* the tab whose context menu is open, or None
    diff,     \* tab -> the compare whose markers its explorer holds, or None
    result,   \* SyncState.result: the compare shown, or None
    flight    \* the compare in flight (SyncState.comparing), or None

data == <<pinned, opened, diff>>
overlay == <<diff, result, flight>>
vars == <<groups, focused, pinned, opened, nextId, polling, handle, menu,
          diff, result, flight>>

Compares == [left : Ids, right : Ids]
Group == [tabs : Seq(Ids), active : Nat \ {0}]

TabsOf(gs) == UNION {ToSet(gs[g].tabs) : g \in DOMAIN gs}
ActiveOf(group) == group.tabs[group.active]
ShownIn(gs) == {ActiveOf(gs[g]) : g \in DOMAIN gs}

OpenTabs == TabsOf(groups)
Focused == ActiveOf(groups[focused])
IsSplit == Len(groups) > 1

\* locate_tab
GroupOf(id) == CHOOSE g \in DOMAIN groups : id \in ToSet(groups[g].tabs)
IndexIn(tabs, id) == CHOOSE i \in DOMAIN tabs : tabs[i] = id

\* set_active and clamp_active keep the index within the strip.
Clamp(ix, tabs) == IF ix <= Len(tabs) THEN ix ELSE IF tabs = <<>> THEN 1 ELSE Len(tabs)

\* The strip without the tab at ix; the active index shifts with it.
Without(group, ix) ==
    LET rest == RemoveAt(group.tabs, ix)
    IN  [tabs |-> rest,
         active |-> Clamp(IF ix < group.active THEN group.active - 1 ELSE group.active, rest)]

\* set_active_in_group: the same strip in another order, still on tab id.
Pointing(tabs, id) == [tabs |-> tabs, active |-> IndexIn(tabs, id)]

TypeOK ==
    /\ groups \in Seq(Group)
    /\ focused \in Nat
    /\ pinned \subseteq Ids
    /\ opened \subseteq Ids
    /\ nextId \in 1 .. MaxTabs
    /\ polling \subseteq Ids
    /\ handle \in Ids
    /\ menu \in Ids \cup {None}
    /\ diff \in [Ids -> Compares \cup {None}]
    /\ result \in Compares \cup {None}
    /\ flight \in Compares \cup {None}

Init ==
    /\ groups = <<[tabs |-> <<0>>, active |-> 1]>>
    /\ focused = 1
    /\ pinned = {}
    /\ opened = {}
    /\ nextId = 1
    /\ polling = {0}
    /\ handle = 0
    /\ menu = None
    /\ diff = [t \in Ids |-> None]
    /\ result = None
    /\ flight = None
-----------------------------------------------------------------------------
(* What the handlers share.                                                *)

\* focused_group_changed: the handles and the polling follow the focus.
Resync(gs, f) ==
    /\ groups' = gs
    /\ focused' = f
    /\ handle' = ActiveOf(gs[f])
    /\ polling' = ShownIn(gs)

\* activate_tab: the one way to move the focus to a tab.
Activate(gs, g, ix) ==
    /\ Resync([gs EXCEPT ![g].active = Clamp(ix, gs[g].tabs)], g)
    /\ menu' = None

\* A tab's pin, pane and explorer go with it.
KeepData(gs, marks) ==
    /\ pinned' = pinned \cap TabsOf(gs)
    /\ opened' = opened \cap TabsOf(gs)
    /\ diff' = [t \in Ids |-> IF t \in TabsOf(gs) THEN marks[t] ELSE None]

\* clear_compare: the markers of the tabs that gs shows, and only those.
Unmarked(gs) == [t \in Ids |-> IF t \in ShownIn(gs) THEN None ELSE diff[t]]

\* close_group: the other group becomes the sole one.
CloseGroup(gs, g) ==
    LET rest == RemoveAt(gs, g) IN
    /\ Activate(rest, 1, rest[1].active)
    /\ KeepData(rest, Unmarked(rest))
    /\ result' = None

\* go_home; kept is what the menu is when the pane was home already.
Home(kept) ==
    /\ opened' = opened \ {Focused}
    /\ menu' = IF Focused \in opened THEN None ELSE kept
    /\ UNCHANGED <<groups, focused, pinned, polling, handle, diff, result>>

\* Mutant: polling is set anew only with the focused group.
MutShrunkUnsynced(gs, g, kept) ==
    /\ KeepData(gs, diff)
    /\ UNCHANGED result
    /\ IF g = focused
       THEN Activate(gs, g, gs[g].active)
       ELSE /\ groups' = gs
            /\ menu' = kept
            /\ UNCHANGED <<focused, handle, polling>>

\* After group g lost tabs.  The menu closes with a change of the focused tab.
Shrunk(gs, g, kept) ==
    /\ KeepData(gs, diff)
    /\ UNCHANGED result
    /\ IF g = focused
       THEN Activate(gs, g, gs[g].active)
       ELSE /\ groups' = gs
            /\ polling' = ShownIn(gs)
            /\ menu' = kept
            /\ UNCHANGED <<focused, handle>>

\* close_tab_at
Close(id, kept) ==
    LET g == GroupOf(id) IN
    /\ IF Len(groups[g].tabs) > 1
       THEN Shrunk([groups EXCEPT ![g] = Without(@, IndexIn(@.tabs, id))], g, kept)
       ELSE IF IsSplit THEN CloseGroup(groups, g) ELSE Home(kept)
    /\ UNCHANGED <<nextId, flight>>

\* retain_tabs_in_group
Retain(g, keep, prefer, kept) ==
    LET tabs == KeepOnly(groups[g].tabs, keep)
        alone == [groups EXCEPT ![g] = [tabs |-> <<Focused>>, active |-> 1]]
    IN
    /\ IF keep = {} /\ IsSplit THEN CloseGroup(groups, g)
       ELSE IF keep = {}
       THEN /\ groups' = alone
            /\ pinned' = pinned \cap TabsOf(alone)
            /\ opened' = {}
            /\ diff' = [t \in Ids |-> IF t = Focused THEN diff[t] ELSE None]
            /\ polling' = ShownIn(alone)
            /\ menu' = IF Focused \in opened THEN None ELSE kept
            /\ UNCHANGED <<focused, handle, result>>
       ELSE IF Len(tabs) = Len(groups[g].tabs)
       THEN /\ menu' = kept
            /\ UNCHANGED <<groups, focused, polling, handle, data, result>>
       ELSE Shrunk([groups EXCEPT ![g] = Pointing(tabs, prefer)], g, kept)
    /\ UNCHANGED <<nextId, flight>>
-----------------------------------------------------------------------------
(* The strip: new, select, close.                                          *)

\* new_tab, new_tab_in_group; open_remote_in_new_tab also opens a folder in it.
NewTab(g, open) ==
    /\ nextId < MaxTabs
    /\ open => Browse /\ g = focused
    /\ Activate([groups EXCEPT ![g].tabs = Append(@, nextId)], g, Len(groups[g].tabs) + 1)
    /\ nextId' = nextId + 1
    /\ opened' = IF open THEN opened \cup {nextId} ELSE opened
    /\ UNCHANGED <<pinned, overlay>>

\* select_tab_id, and the key and spring selections that come down to it.
Select(id) ==
    /\ id # Focused
    /\ Activate(groups, GroupOf(id), IndexIn(groups[GroupOf(id)].tabs, id))
    /\ UNCHANGED <<nextId, data, result, flight>>

\* focus_group, on a press in the other column; the press dismisses a menu.
FocusGroup(g) ==
    /\ g # focused
    /\ Resync(groups, g)
    /\ menu' = None
    /\ UNCHANGED <<nextId, data, result, flight>>

\* The close_tab command.
CloseKey == Close(Focused, menu)

\* The close button and the middle button, on unpinned tabs.  A key between
\* press and release may have moved the focus to the other group.
CloseButton(id) == menu = None /\ id \notin pinned /\ Close(id, None)

\* open_menu, after the press focused the tab's group.
OpenMenu(id) ==
    /\ menu # id
    /\ Resync(groups, GroupOf(id))
    /\ menu' = id
    /\ UNCHANGED <<nextId, data, result, flight>>

DismissMenu ==
    /\ menu # None
    /\ menu' = None
    /\ UNCHANGED <<groups, focused, nextId, polling, handle, data, result, flight>>

CloseItem(id) == menu = id /\ Close(id, None)

CloseOthers(id) ==
    /\ menu = id
    /\ LET g == GroupOf(id)
       IN  Retain(g, {t \in ToSet(groups[g].tabs) : t = id \/ t \in pinned}, id, None)

\* Mutant: pinned tabs to the right are closed too.
MutCloseRightOfPinned(id) ==
    /\ menu = id
    /\ LET g == GroupOf(id)
           tabs == groups[g].tabs
       IN  Retain(g, {tabs[i] : i \in 1 .. IndexIn(tabs, id)},
                  id, None)

CloseRight(id) ==
    /\ menu = id
    /\ LET g == GroupOf(id)
           tabs == groups[g].tabs
       IN  Retain(g, {tabs[i] : i \in 1 .. IndexIn(tabs, id)} \cup (ToSet(tabs) \cap pinned),
                  id, None)

CloseAll(id) ==
    /\ menu = id
    /\ LET g == GroupOf(id)
           kept == KeepOnly(groups[g].tabs, pinned)
       IN  Retain(g, ToSet(kept), IF kept = <<>> THEN id ELSE kept[1], None)
-----------------------------------------------------------------------------
(* Pinning and dragging.                                                   *)

\* How many tabs at the front of a strip are pinned (take_while).
LeadingPins(tabs) ==
    CHOOSE n \in 0 .. Len(tabs) :
        /\ \A i \in 1 .. n : tabs[i] \in pinned
        /\ n = Len(tabs) \/ tabs[n + 1] \notin pinned

\* Mutant: the tab is pinned where it is.
MutTogglePinInPlace(id) ==
    /\ menu = id
    /\ id \in Pinnable
    /\ groups' = groups
    /\ pinned' = IF id \in pinned THEN pinned \ {id} ELSE pinned \cup {id}
    /\ menu' = None
    /\ UNCHANGED <<focused, opened, nextId, polling, handle, overlay>>

TogglePin(id) ==
    /\ menu = id
    /\ id \in Pinnable
    /\ LET g == GroupOf(id)
           rest == RemoveAt(groups[g].tabs, IndexIn(groups[g].tabs, id))
       IN  groups' = [groups EXCEPT ![g] =
               Pointing(InsertAt(rest, LeadingPins(rest) + 1, id), ActiveOf(@))]
    /\ pinned' = IF id \in pinned THEN pinned \ {id} ELSE pinned \cup {id}
    /\ menu' = None
    /\ UNCHANGED <<focused, opened, nextId, polling, handle, overlay>>

\* Mutant: the active index stays where it was.
MutReorderKeepsIndex(from, to) ==
    /\ menu = None
    /\ from # to
    /\ GroupOf(from) = GroupOf(to)
    /\ from \in pinned <=> to \in pinned
    /\ LET g == GroupOf(from)
           tabs == groups[g].tabs
           ix == IndexIn(tabs, to)
           dest == IF IndexIn(tabs, from) < ix THEN ix - 1 ELSE ix
       IN  groups' = [groups EXCEPT ![g] =
               [@ EXCEPT !.tabs = InsertAt(RemoveAt(tabs, IndexIn(tabs, from)), dest, from)]]
    /\ UNCHANGED <<focused, nextId, polling, handle, menu, data, result, flight>>

\* reorder_tab, which drop_tab_on calls within one group.
Reorder(from, to) ==
    /\ menu = None
    /\ from # to
    /\ GroupOf(from) = GroupOf(to)
    /\ from \in pinned <=> to \in pinned
    /\ LET g == GroupOf(from)
           tabs == groups[g].tabs
           ix == IndexIn(tabs, to)
           dest == IF IndexIn(tabs, from) < ix THEN ix - 1 ELSE ix
       IN  groups' = [groups EXCEPT ![g] =
               Pointing(InsertAt(RemoveAt(tabs, IndexIn(tabs, from)), dest, from), ActiveOf(@))]
    /\ UNCHANGED <<focused, nextId, polling, handle, menu, data, result, flight>>

\* Mutant: the dragged tab is put into its new group and left in the old one.
MutMoveCopies(id, dest, at) ==
    LET src == GroupOf(id)
        there == [tabs |-> InsertAt(groups[dest].tabs, at, id), active |-> at]
        gs == [groups EXCEPT ![dest] = there]
    IN
    /\ src # dest
    /\ IF gs[src].tabs = <<>>
       THEN CloseGroup(gs, src)
       ELSE Activate(gs, dest, at) /\ UNCHANGED <<data, result>>
    /\ UNCHANGED <<nextId, flight>>

\* move_tab_to_group, which drop_tab_on and drop_tab_in_group call across groups.
Move(id, dest, at) ==
    LET src == GroupOf(id)
        there == [tabs |-> InsertAt(groups[dest].tabs, at, id), active |-> at]
        gs == [groups EXCEPT ![src] = Without(@, IndexIn(@.tabs, id)), ![dest] = there]
    IN
    /\ src # dest
    /\ IF gs[src].tabs = <<>>
       THEN CloseGroup(gs, src)
       ELSE Activate(gs, dest, at) /\ UNCHANGED <<data, result>>
    /\ UNCHANGED <<nextId, flight>>
-----------------------------------------------------------------------------
(* Folders.                                                                *)

\* navigate: the focused pane shows a folder.
Navigate ==
    /\ Browse
    /\ Focused \notin opened
    /\ opened' = opened \cup {Focused}
    /\ UNCHANGED <<groups, focused, pinned, nextId, polling, handle, menu, overlay>>

GoHome ==
    /\ Focused \in opened
    /\ Home(None)
    /\ UNCHANGED <<nextId, flight>>

\* delete_remote resets every tab parked on the remote, focused or not.
RemoteDeleted(parked) ==
    /\ parked # {}
    /\ opened' = opened \ parked
    /\ UNCHANGED <<groups, focused, pinned, nextId, polling, handle, menu, overlay>>
-----------------------------------------------------------------------------
(* The split view and the compare.                                         *)

\* toggle_split with one group: a new group on the focused tab's location.
Split ==
    /\ CanSplit /\ ~IsSplit
    /\ nextId < MaxTabs
    /\ Activate(Append(groups, [tabs |-> <<nextId>>, active |-> 1]), 2, 1)
    /\ nextId' = nextId + 1
    /\ opened' = IF Focused \in opened THEN opened \cup {nextId} ELSE opened
    /\ UNCHANGED <<pinned, overlay>>

\* toggle_split with two: the right group's tabs follow the left group's.  The
\* compare is cleared while the left group still has its own active tab.
Merge ==
    /\ IsSplit
    /\ LET tabs == groups[1].tabs \o groups[2].tabs
           gs == <<[tabs |-> tabs, active |-> groups[1].active]>>
       IN  /\ diff' = Unmarked(gs)
           /\ Activate(gs, 1, IndexIn(tabs, Focused))
    /\ result' = None
    /\ UNCHANGED <<pinned, opened, nextId, flight>>

\* swap_panes; its button is in the sync popover, which a tab menu replaces.
Swap ==
    /\ IsSplit /\ menu = None
    /\ LET gs == <<groups[2], groups[1]>>
       IN  /\ diff' = Unmarked(gs)
           /\ Resync(gs, 3 - focused)
    /\ result' = None
    /\ UNCHANGED <<pinned, opened, nextId, menu, flight>>

\* run_compare: the explorers are captured now.  The button is inert meanwhile.
\* A folder is open on both sides.
HasEndpoints == IsSplit /\ ShownIn(groups) \subseteq opened

RunCompare ==
    /\ HasEndpoints /\ menu = None
    /\ flight = None
    /\ flight' = [left |-> ActiveOf(groups[1]), right |-> ActiveOf(groups[2])]
    /\ UNCHANGED <<groups, focused, nextId, polling, handle, menu, data, result>>

\* Mutant: the markers go to the tabs on screen when the answer comes.
MutLandOnVisible ==
    /\ flight # None
    /\ diff' = [t \in Ids |-> IF t \in ShownIn(groups)
                              THEN flight ELSE diff[t]]
    /\ result' = flight
    /\ flight' = None
    /\ UNCHANGED <<groups, focused, pinned, opened, nextId, polling, handle, menu>>

\* The compare's answer, whatever happened to the view since.
Land ==
    /\ flight # None
    /\ diff' = [t \in Ids |-> IF t \in {flight.left, flight.right} \cap OpenTabs
                              THEN flight ELSE diff[t]]
    /\ result' = flight
    /\ flight' = None
    /\ UNCHANGED <<groups, focused, pinned, opened, nextId, polling, handle, menu>>

LandFailed ==
    /\ flight # None
    /\ flight' = None
    /\ UNCHANGED <<groups, focused, nextId, polling, handle, menu, data, result>>

\* The clear button, shown with a result and no compare in flight.
ClearCompare ==
    /\ IsSplit /\ menu = None
    /\ result # None /\ flight = None
    /\ diff' = Unmarked(groups)
    /\ result' = None
    /\ UNCHANGED <<groups, focused, pinned, opened, nextId, polling, handle, menu, flight>>
-----------------------------------------------------------------------------
Drop(id) ==
    \/ \E to \in OpenTabs :
           \/ Reorder(id, to)
           \/ Move(id, GroupOf(to), IndexIn(groups[GroupOf(to)].tabs, to))
    \/ \E g \in DOMAIN groups : Move(id, g, Len(groups[g].tabs) + 1)

ItemOf(id) ==
    CloseItem(id) \/ CloseOthers(id) \/ CloseRight(id) \/ CloseAll(id) \/ TogglePin(id)

Next ==
    \/ \E g \in DOMAIN groups : FocusGroup(g) \/ \E open \in BOOLEAN : NewTab(g, open)
    \/ \E id \in OpenTabs :
           Select(id) \/ CloseButton(id) \/ OpenMenu(id) \/ ItemOf(id) \/ Drop(id)
    \/ CloseKey \/ DismissMenu
    \/ Navigate \/ GoHome \/ \E parked \in SUBSET opened : RemoteDeleted(parked)
    \/ Split \/ Merge \/ Swap
    \/ RunCompare \/ Land \/ LandFailed \/ ClearCompare

Spec == Init /\ [][Next]_vars
-----------------------------------------------------------------------------
(* Through every close, drag, merge and swap each group keeps at least one *)
(* tab, no tab is in two places, and both the active indices and           *)
(* active_group stay in range (lib.rs: "Always non-empty; capped at two"): *)
(* every handler indexes with them.                                        *)
TabsWellFormed ==
    /\ TypeOK
    /\ Len(groups) \in 1 .. 2
    /\ focused \in DOMAIN groups
    /\ \A g \in DOMAIN groups : groups[g].active \in DOMAIN groups[g].tabs
    /\ Cardinality(OpenTabs) =
           IF IsSplit THEN Len(groups[1].tabs) + Len(groups[2].tabs) ELSE Len(groups[1].tabs)
    /\ menu \in OpenTabs \cup {None}

(* No path forgets the re-sync: exactly the tabs on screen poll their      *)
(* folder, and the cached handle the commands act on is the focused tab's. *)
PollingIsVisible ==
    /\ polling = ShownIn(groups)
    /\ handle = Focused

(* The tab the user is in stays the focused one when tabs are pinned,      *)
(* reordered or closed around it, and when the groups merge or swap.       *)
FocusStays ==
    [][ \/ Merge \/ Swap
        \/ \E id \in OpenTabs :
               \/ TogglePin(id)
               \/ \E to \in OpenTabs : Reorder(id, to)
               \/ id # Focused /\ (CloseItem(id) \/ CloseButton(id))
        => Focused' = Focused ]_vars

(* "Pinned tabs sort before unpinned" (lib.rs:258).                        *)
PinnedFirst ==
    \A g \in DOMAIN groups : \A i, j \in DOMAIN groups[g].tabs :
        i < j /\ groups[g].tabs[j] \in pinned => groups[g].tabs[i] \in pinned

(* Rearranging the tabs loses none; closing many at once spares the pinned *)
(* ones, also when the command empties a group and it collapses; and       *)
(* pinning, reordering, new tabs, closes and swaps keep the pinned ones in *)
(* front.  A drop on another group and a merge, which do not (PinnedFirst  *)
(* fails with them), are excepted: there a group gets another one's tabs.  *)
NothingLost ==
    [][ /\ Merge \/ Swap \/ (\E id \in OpenTabs : Drop(id) \/ TogglePin(id))
               => OpenTabs' = OpenTabs
        /\ (\E id \in OpenTabs : CloseOthers(id) \/ CloseRight(id) \/ CloseAll(id))
               => pinned' = pinned
        /\ /\ PinnedFirst
           /\ \A new \in ToSet(groups') : \E old \in ToSet(groups) :
                  ToSet(new.tabs) \subseteq ToSet(old.tabs) \cup {nextId}
           => PinnedFirst' ]_vars

(* The counts in the sync popover and the markers in the two lists come    *)
(* from one compare, however the tabs were moved since it was started.     *)
MarkersOfResult ==
    result # None => \A t \in {result.left, result.right} \cap OpenTabs : diff[t] = result

(* "Empty when no compare is shown" (Explorer.diff): no tab on screen has  *)
(* markers without a result.                                               *)
MarkersNeedResult ==
    result = None => \A t \in ShownIn(groups) : diff[t] = None

(* Swap "invalidates the compare, since the direction reversed": a result  *)
(* for the pair on screen has its source on the left.                      *)
DirectionShown ==
    result # None /\ ShownIn(groups) = {result.left, result.right}
        => ActiveOf(groups[1]) = result.left

(* SyncState.result is "cleared when the split collapses".                 *)
ResultNeedsSplit == result # None => IsSplit

(* Pinned tabs "close only via the context menu".                          *)
PinnedClosesFromMenu ==
    [][ \A t \in pinned : t \in OpenTabs \ OpenTabs' => menu # None ]_vars
=============================================================================
