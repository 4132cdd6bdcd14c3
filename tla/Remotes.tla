------------------------------ MODULE Remotes -------------------------------
(***************************************************************************)
(* The sidebar's remotes (ui/src/workspace/remotes.rs, ui/src/sidebar):    *)
(* the list read from the daemon, the pins, the highlight, which is a row  *)
(* number, and the deletion of a remote.  Loads answer in any order.       *)
(*                                                                         *)
(* Remotes are numbers, their order is the sorted one; rows are numbered   *)
(* from 1.  Operators named Mut... are mutants.                            *)
(***************************************************************************)
EXTENDS Values, Naturals, Sequences, FiniteSets, SequencesExt

CONSTANTS
    Known,    \* the remotes that may be configured
    MaxLoads  \* bound on the calls waiting for an answer

ASSUME RemotesAssumption ==
    /\ Known \subseteq Nat /\ IsFiniteSet(Known) /\ None \notin Known
    /\ MaxLoads \in Nat \ {0}

VARIABLES
    config,   \* what rclone has configured
    remotes,  \* Workspace.remotes
    asked,    \* loads the daemon has not answered
    answers,  \* answers not yet applied
    deleting, \* remotes whose deletion was sent
    deleted,  \* remotes deleted, the answer not yet applied
    pinned,   \* Workspace.pinned
    mark,     \* Sidebar.remote_sel
    opened    \* the focused pane's open_remote

remVars == <<config, remotes, asked, answers, deleting, deleted, pinned, mark, opened>>
lists == <<config, remotes, asked, answers, deleting, deleted>>

\* The names in order, as RcClient::remotes returns them.
Sorted(S) == {q \in [1 .. Cardinality(S) -> S] : \A i, j \in DOMAIN q : i < j => q[i] < q[j]}
Distinct(S) == {q \in UNION {[1 .. n -> S] : n \in 0 .. Cardinality(S)} : IsInjective(q)}

\* pinned_remotes, then unpinned_remotes
Ordered(rs, ps) ==
    KeepOnly(ps, Range(rs)) \o KeepOnly(rs, Range(rs) \ Range(ps))

Marked == LET o == Ordered(remotes, pinned) IN IF mark \in DOMAIN o THEN o[mark] ELSE None

RemInit ==
    /\ config = Known
    /\ remotes = <<>> /\ asked = 1 /\ answers = {}
    /\ deleting = {} /\ deleted = {}
    /\ pinned \in Distinct(Known)
    /\ mark = 1 /\ opened = None

Load == asked + Cardinality(answers) < MaxLoads /\ asked' = asked + 1

\* load_remotes: at startup, after a restart of the daemon, after the wizard.
LoadRemotes ==
    /\ Load
    /\ config' \in {config} \cup {config \cup {n} : n \in Known}
    /\ UNCHANGED <<remotes, answers, deleting, deleted, pinned, mark, opened>>

\* The daemon reads the configuration.
LoadAnswers ==
    /\ asked > 0
    /\ asked' = asked - 1
    /\ \E a \in Sorted(config) : answers' = answers \cup {a}
    /\ UNCHANGED <<config, remotes, deleting, deleted, pinned, mark, opened>>

LoadFails ==
    /\ asked > 0 /\ asked' = asked - 1
    /\ UNCHANGED <<config, remotes, answers, deleting, deleted, pinned, mark, opened>>

\* The list is replaced by whichever answer comes; the highlight keeps its row.
LoadSettles ==
    /\ \E a \in answers : remotes' = a /\ answers' = answers \ {a}
    /\ UNCHANGED <<config, asked, deleting, deleted, pinned, mark, opened>>

\* select_by_name, over the order that holds now; the bug leaves the row number.
MutSelectRemote(n) == UNCHANGED mark
SelectRemote(n) ==
    LET o == Ordered(remotes, pinned')
    IN  mark' = IF n \in Range(o) THEN CHOOSE i \in DOMAIN o : o[i] = n ELSE mark

\* A change of the pins: saved, and the highlight put back on its remote.
Repin(ps) ==
    /\ pinned' = ps
    /\ SelectRemote(Marked)
    /\ UNCHANGED <<lists, opened>>

\* From a row's menu, which may hold a name that the list no longer has: once a list
\* came, every name of Known has been in one.
TogglePin ==
    /\ remotes # <<>> \/ config # Known
    /\ \E n \in Known :
           Repin(IF n \in Range(pinned) THEN KeepOnly(pinned, Range(pinned) \ {n})
                 ELSE Append(pinned, n))

\* A pinned row dropped before another row.
ReorderPinned ==
    \E from \in Range(pinned), before \in Range(remotes) :
        /\ from # before
        /\ LET rest == KeepOnly(pinned, Range(pinned) \ {from})
               ip == IF before \in Range(rest) THEN CHOOSE i \in DOMAIN rest : rest[i] = before
                     ELSE Len(rest) + 1
           IN  Repin(InsertAt(rest, ip, from))

MovePinned ==
    \E i \in DOMAIN pinned, j \in DOMAIN pinned :
        /\ j \in {i - 1, i + 1}
        /\ Repin([pinned EXCEPT ![i] = pinned[j], ![j] = pinned[i]])

SelectNextRemote ==
    /\ mark < Len(remotes) /\ mark' = mark + 1
    /\ UNCHANGED <<lists, pinned, opened>>
SelectPrevRemote ==
    /\ mark > 1 /\ mark' = mark - 1
    /\ UNCHANGED <<lists, pinned, opened>>

\* Any way to a remote goes through Workspace::navigate.
OpenRemote(n) ==
    /\ opened' = n
    /\ UNCHANGED <<lists, pinned>>
    /\ SelectRemote(n)

\* load_remote: a row of the list as it is now.
OpenRow(i) == i \in 1 .. Len(remotes) /\ OpenRemote(Ordered(remotes, pinned)[i])

OpenByName == \E n \in Known : OpenRemote(n)
\* A click, the cursor's row, or the timer of a row a drag hovered before.
ClickRow == \E i \in 1 .. Len(remotes) : OpenRow(i)

GoHomeFromRemote ==
    /\ opened # None /\ opened' = None
    /\ UNCHANGED <<lists, pinned, mark>>

\* delete_remote, confirmed: the call, its effect or failure, and its answer.
DeleteRemote ==
    /\ deleting \cup deleted = {}   \* bound: one deletion at a time
    /\ \E n \in Range(remotes) : deleting' = {n}
    /\ UNCHANGED <<config, remotes, asked, answers, deleted, pinned, mark, opened>>

DeleteAnswers ==
    /\ \E n \in deleting :
           /\ deleting' = deleting \ {n}
           /\ \/ config' = config \ {n} /\ deleted' = deleted \cup {n}
              \/ UNCHANGED <<config, deleted>>
    /\ UNCHANGED <<remotes, asked, answers, pinned, mark, opened>>

DeleteSettles ==
    /\ Load
    /\ \E n \in deleted :
           /\ deleted' = deleted \ {n}
           /\ opened' = IF opened = n THEN None ELSE opened
           /\ pinned' = KeepOnly(pinned, Range(pinned) \ {n})
    /\ UNCHANGED <<config, remotes, answers, deleting, mark>>

RemNext ==
    \/ LoadRemotes \/ LoadAnswers \/ LoadFails \/ LoadSettles
    \/ TogglePin \/ ReorderPinned \/ MovePinned
    \/ SelectNextRemote \/ SelectPrevRemote
    \/ OpenByName \/ ClickRow \/ GoHomeFromRemote
    \/ DeleteRemote \/ DeleteAnswers \/ DeleteSettles

RemSpec == RemInit /\ [][RemNext]_remVars

-----------------------------------------------------------------------------
(* Properties *)

\* Pins are distinct and the highlight is a row number.
PinsHold ==
    /\ IsInjective(pinned)
    /\ Range(pinned) \cup Range(remotes) \cup config \cup deleted \subseteq Known
    /\ mark \in Nat \ {0} /\ asked \in 0 .. MaxLoads

\* Pinning, unpinning and reordering move rows under the highlight; it stays on the
\* remote it was on.
HighlightFollows ==
    [][pinned' # pinned /\ deleted' = deleted /\ Marked # None => Marked' = Marked]_remVars
=============================================================================
