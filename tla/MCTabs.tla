------------------------------- MODULE MCTabs -------------------------------
(* Tabs on small instances: the cfgs give the bounds.                      *)
EXTENDS Tabs, Markers

CONSTANT MaxPins
MCPinnable == 0 .. MaxPins - 1

(* Every result of up to three entries over four paths, in every order,    *)
(* for a pane at the top of its remote and for one below it.               *)
MCPaths == {<<"a">>, <<"d", "a">>, <<"d", "b">>, <<"d", "e", "a">>}
MCEntries == SeqOf([path : MCPaths, state : DiffState], 3)
MCRows == {[path |-> p, dir |-> FALSE] : p \in MCPaths}
          \cup {[path |-> p, dir |-> TRUE] : p \in {<<"d">>, <<"d", "e">>}}

\* The markers of every such result are what the reference says, and counted.
ASSUME MarkersAreExact ==
    \A root \in {<<>>, <<"r">>} : \A entries \in MCEntries : \A row \in MCRows :
        LET shown == [row EXCEPT !.path = root \o @]
        IN  FoldingIsExact(entries, root, shown) /\ TintIsCounted(entries, root, shown)

\* Every answer that has some of the five parts is understood as it is.
ASSUME AnswersAreUnderstood ==
    \A parts \in SUBSET DOMAIN StateOf : \A answer \in [parts -> {{}, {<<"a">>}}] :
        NothingMisread(answer)

=============================================================================
