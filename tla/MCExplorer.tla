----------------------------- MODULE MCExplorer -----------------------------
(***************************************************************************)
(* A pane on two folders, one below the other, and what Matching says of   *)
(* every small text and table.                                             *)
(***************************************************************************)
EXTENDS Explorer, Matching

\* Two names in the folder above, one of which also occurs in the folder below.
MCFiles == {<<"top", "f">>, <<"top", "g">>, <<"sub", "f">>}
MCBelow == [d \in {"top", "sub"} |-> IF d = "top" THEN {"top", "sub"} ELSE {"sub"}]
MCHit == [t \in {"a"} |-> {"f"}]

(* The operators of Matching on every small text and every small table.    *)
MCQueries == SeqOf({"a", "b", "[", Blank}, 3)
MCNames == SeqOf({"a", "b", "["}, 3)
MCUsages == UNION {[names -> [count : 1 .. 2, last : {0, 2, 30}]] : names \in SUBSET {1, 2, 3}}

ASSUME SearchLosesNothing ==
    \A q \in MCQueries : NoHitIsLost(q, MCNames) /\ \A n \in MCNames : HighlightIsExact(q, n)

ASSUME FuzzyIsLeftmost ==
    \A q \in SeqOf({"a", "b"}, 2) : \A t \in SeqOf({"a", "b", Blank}, 4) : GreedyIsLeftmost(q, t)

ASSUME RanksAreOrders ==
    \A usage \in MCUsages :
        /\ \A now \in {30, 190} : \A n \in {1, 2, 3} : VisitRaises([m \in DOMAIN usage |->
               [usage[m] EXCEPT !.last = @ * Hour]], now * Hour, n)
        /\ \A empty \in BOOLEAN :
               CommandsAreOrdered(usage, empty, {[label |-> n, score |-> n % 2] : n \in {1, 2, 3}})
=============================================================================
