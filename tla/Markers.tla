------------------------------ MODULE Markers ------------------------------
(* What a comparison of two folders makes of the rows of a file list:      *)
(* the reading of rclone's answer and its counts (sync.rs, service.rs,     *)
(* split.rs), and the markers an explorer derives from it (explorer/       *)
(* mod.rs).  A path is the sequence of its names.  Nothing here keeps      *)
(* state: Tabs models when a result lands and who holds it.                *)
EXTENDS Values, Naturals, Sequences, FiniteSets, SequencesExt

\* The parts of an answer of operations/check, and the state each reports.
StateOf == [missingOnDst |-> "SrcOnly", missingOnSrc |-> "DstOnly",
            differ |-> "Differ", error |-> "Error", match |-> "Match"]
DiffState == {StateOf[k] : k \in DOMAIN StateOf}

\* An answer has some of the parts, each a set of paths.
ParseCheck(answer) ==
    UNION {{[path |-> p, state |-> StateOf[k]] : p \in answer[k]} : k \in DOMAIN answer}

\* "An empty parse must mean 'identical', never 'not understood'".
Compare(answer) == IF DOMAIN answer = {} THEN None ELSE ParseCheck(answer)

\* Errors are counted by none of the four.
CompareCounts(entries) ==
    [s \in DiffState \ {"Error"} |-> Cardinality({e \in entries : e.state = s})]

Above(path) == {SubSeq(path, 1, n) : n \in 1 .. Len(path) - 1}

\* One entry more in every folder above it: a second state makes it Differ.
FoldInto(dirs, e) ==
    [d \in DOMAIN dirs \cup Above(e.path) |->
        CASE d \notin Above(e.path) -> dirs[d]
          [] d \in DOMAIN dirs /\ dirs[d] # e.state -> "Differ"
          [] OTHER -> e.state]

\* Entries in the order of the answer, below the folder the pane showed.
SetDiff(entries, root) ==
    LET full == [i \in DOMAIN entries |-> [entries[i] EXCEPT !.path = root \o @]]
    IN  [diff |-> {e \in ToSet(full) : e.state # "Match"},
         dirs |-> FoldLeft(FoldInto, <<>>, full)]

EntryDiff(marks, row) ==
    LET own == {e.state : e \in {d \in marks.diff : d.path = row.path}}
    IN  IF own # {} THEN CHOOSE s \in own : TRUE
        ELSE IF row.dir /\ row.path \in DOMAIN marks.dirs /\ marks.dirs[row.path] # "Match"
             THEN marks.dirs[row.path]
             ELSE None

(* The reference: a row is marked with the one state of everything at or   *)
(* below it, with Differ when there are several, not at all when all match.*)
AtOrBelow(row, entries, root) ==
    {e.state : e \in {d \in ToSet(entries) : IsPrefix(row.path, root \o d.path)}}

Tint(states) ==
    IF states \subseteq {"Match"} THEN None
    ELSE IF Cardinality(states) = 1 THEN CHOOSE s \in states : TRUE
    ELSE "Differ"

\* No path is a file on one side and a folder on the other.
SameKinds(entries) ==
    \A i, j \in DOMAIN entries : i # j => ~IsPrefix(entries[i].path, entries[j].path)

(* "a folder that exists on both (has matches) reads as 'differs' once it  *)
(* also holds new content, rather than 'entirely new'", in whichever order *)
(* the entries come.                                                       *)
FoldingIsExact(entries, root, row) ==
    SameKinds(entries)
        => EntryDiff(SetDiff(entries, root), row) = Tint(AtOrBelow(row, entries, root))

(* What tints a row is in one of the counts of the panel, except what could *)
(* not be checked.                                                         *)
TintIsCounted(entries, root, row) ==
    EntryDiff(SetDiff(entries, root), row) = None
        \/ \E s \in {"SrcOnly", "DstOnly", "Differ"} : CompareCounts(ToSet(entries))[s] > 0
        \/ \E e \in ToSet(entries) : e.state = "Error"

\* An answer that has a part is read as no difference only if it lists none.
NothingMisread(answer) ==
    (\A k \in DOMAIN answer \ {"match"} : answer[k] = {}) /\ DOMAIN answer # {}
        <=> /\ Compare(answer) # None
            /\ \A e \in Compare(answer) : e.state = "Match"
=============================================================================
