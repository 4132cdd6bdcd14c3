------------------------------ MODULE Matching -----------------------------
(* What the searches match and rank: the words of a file search, tested    *)
(* here and bounded by a glob on rclone's side (client.rs, service.rs), the*)
(* fuzzy matcher of the palette (fuzzy.rs), and the usage counts that rank *)
(* commands and remotes (db.rs, command_palette.rs).  A text is a sequence *)
(* of characters up to case.  Nothing here keeps state.                    *)
EXTENDS Naturals, Integers, Sequences, FiniteSets, SequencesExt

Blank == " "
Special == {"*", "?", "[", "]", "{", "}", "\\"}
IsWordChar(c) == c \notin Special \cup {Blank}

(* The search of files.                                                    *)

\* split_whitespace
Words(query) ==
    LET Cut(parts, c) == IF c = Blank THEN Append(parts, <<>>)
                         ELSE [parts EXCEPT ![Len(parts)] = Append(@, c)]
    IN  SelectSeq(FoldLeft(Cut, <<<<>>>>, query), LAMBDA w : w # <<>>)

Occurs(w, text, i) == i + Len(w) - 1 <= Len(text) /\ SubSeq(text, i, i + Len(w) - 1) = w

Holds(text, w) == \E i \in DOMAIN text : Occurs(w, text, i)

\* Every word, anywhere, in any order; no word matches nothing.
Matches(query, name) ==
    Words(query) # <<>> /\ \A w \in ToSet(Words(query)) : Holds(name, w)

\* One word's occurrences from the left, none overlapping the one before.
Run(w, text) ==
    LET from[i \in 1 .. Len(text) + 1] ==
            IF i + Len(w) - 1 > Len(text) THEN {}
            ELSE IF Occurs(w, text, i)
                 THEN (i .. i + Len(w) - 1) \cup from[i + Len(w)]
                 ELSE from[i + 1]
    IN  from[1]

Positions(query, text) == UNION {Run(w, text) : w \in ToSet(Words(query))}

\* glob_escape
GlobEscape(w) ==
    FlattenSeq([i \in DOMAIN w |-> IF w[i] \in Special THEN <<"\\", w[i]>> ELSE <<w[i]>>])

\* The last of the longest words; the query itself when it has none.
Anchor(query) ==
    LET ws == Words(query)
        Longest(i) == \A j \in DOMAIN ws : Len(ws[j]) < Len(ws[i]) \/ (Len(ws[j]) = Len(ws[i]) /\ j <= i)
    IN  IF ws = <<>> THEN query ELSE ws[CHOOSE i \in DOMAIN ws : Longest(i)]

ServerPattern(query) == <<"*">> \o GlobEscape(Anchor(query)) \o <<"*">>

\* rclone's glob on one name: the places of it a prefix of the pattern may end at.
\* An unescaped bracket or brace starts a construct: taken to match nothing.
GlobFits(pattern, name) ==
    LET Step(s, c) ==
            CASE s.escaped \/ c \notin Special ->
                    [escaped |-> FALSE, at |-> {i + 1 : i \in {j \in s.at : j < Len(name) /\ name[j + 1] = c}}]
              [] ~s.escaped /\ c = "\\" -> [s EXCEPT !.escaped = TRUE]
              [] ~s.escaped /\ c = "*" -> [s EXCEPT !.at = {j \in 0 .. Len(name) : \E i \in @ : i <= j}]
              [] ~s.escaped /\ c = "?" -> [s EXCEPT !.at = {i + 1 : i \in @} \cap (0 .. Len(name))]
              [] OTHER -> [s EXCEPT !.at = {}]
    IN  Len(name) \in FoldLeft(Step, [escaped |-> FALSE, at |-> {0}], pattern).at

\* Service::search: what rclone answers for the pattern, narrowed to what matches.
\* (rclone's filter is for files; folders come with every answer and are narrowed here.)
Search(query, names) ==
    {n \in names : GlobFits(ServerPattern(query), n) /\ Matches(query, n)}

\* Bounding the answer by one word loses no file that has all of them, whatever
\* characters the words are made of.
NoHitIsLost(query, names) == Search(query, names) = {n \in names : Matches(query, n)}

\* A row's highlight shows every word the row was found for, and nothing else.
HighlightIsExact(query, text) ==
    /\ \A p \in Positions(query, text) :
           \E w \in ToSet(Words(query)) : \E i \in DOMAIN text :
               Occurs(w, text, i) /\ p \in i .. i + Len(w) - 1
    /\ Matches(query, text) =>
           \A w \in ToSet(Words(query)) : \E i \in DOMAIN text :
               Occurs(w, text, i) /\ i .. i + Len(w) - 1 \subseteq Positions(query, text)

(* The fuzzy matcher.                                                      *)

\* The places taken from the left; fewer than the query has when there is no match.
Greedy(query, text) ==
    FoldLeft(LAMBDA taken, i : IF Len(taken) < Len(query) /\ text[i] = query[Len(taken) + 1]
                               THEN Append(taken, i) ELSE taken,
             <<>>, [i \in DOMAIN text |-> i])

FuzzyMatches(query, text) == Len(Greedy(query, text)) = Len(query)

Score(query, text) ==
    LET at == Greedy(query, text)
        StartsWord(i) == at[i] = 1 \/ ~IsWordChar(text[at[i] - 1])
        Follows(i) == i > 1 /\ at[i] = at[i - 1] + 1
        Of(p) == Cardinality({i \in DOMAIN at : p[i]})
    IN  IF query = <<>> THEN 0
        ELSE 8 * Of([i \in DOMAIN at |-> StartsWord(i)]) + 6 * Of([i \in DOMAIN at |-> Follows(i)])
                 + Len(at) - Len(text) \div 8 - (at[1] - 1) \div 4

\* The places where the letters of the query stand in the text, in order.
Embeddings(query, text) ==
    {at \in [DOMAIN query -> DOMAIN text] :
        /\ \A i \in DOMAIN query : text[at[i]] = query[i]
        /\ \A i, j \in DOMAIN query : i < j => at[i] < at[j]}

\* Taking each letter as early as it comes finds a match whenever there is one, and
\* the places it highlights are the earliest.
GreedyIsLeftmost(query, text) ==
    IF FuzzyMatches(query, text)
    THEN /\ Greedy(query, text) \in Embeddings(query, text)
         /\ \A at \in Embeddings(query, text) : \A i \in DOMAIN query : Greedy(query, text)[i] <= at[i]
    ELSE Embeddings(query, text) = {}

(* Usage: name -> how often, and when last.                                *)

Record(usage, name, now) ==
    [n \in DOMAIN usage \cup {name} |->
        IF n # name THEN usage[n]
        ELSE [count |-> (IF n \in DOMAIN usage THEN usage[n].count ELSE 0) + 1, last |-> now]]

\* command_rank: most used first, then latest; 0 is the top.
OutUses(usage, a, b) ==
    \/ usage[a].count > usage[b].count
    \/ usage[a].count = usage[b].count /\ usage[a].last > usage[b].last
\* (Two commands equal in both have no order of their own: the name decides here.)
UsageRank(usage, label) ==
    Cardinality({b \in DOMAIN usage \ {label} :
                    OutUses(usage, b, label) \/ (~OutUses(usage, label, b) /\ b < label)})

\* match_commands: by usage alone for an empty text, else by score and then usage; a
\* command never used comes last, and the label decides what is left.  A command is
\* [label, score], labels numbered in their order.
CommandBefore(usage, empty, a, b) ==
    LET rank(c) == IF c.label \in DOMAIN usage THEN UsageRank(usage, c.label) ELSE Cardinality(DOMAIN usage)
        Used == rank(a) < rank(b) \/ (rank(a) = rank(b) /\ a.label < b.label)
    IN  IF empty THEN Used ELSE a.score > b.score \/ (a.score = b.score /\ Used)

\* The order the palette shows is one order: no two commands are before each other.
CommandsAreOrdered(usage, empty, cs) ==
    \A a, b, c \in cs :
        /\ a.label # b.label => (CommandBefore(usage, empty, a, b) # CommandBefore(usage, empty, b, a))
        /\ CommandBefore(usage, empty, a, b) /\ CommandBefore(usage, empty, b, c)
               => CommandBefore(usage, empty, a, c)

Hour == 3600
\* frequent_remotes: four times the weight an age gives a visit.
Weight(age) ==
    CASE age < Hour -> 16
      [] age >= Hour /\ age < 24 * Hour -> 8
      [] age >= 24 * Hour /\ age < 168 * Hour -> 2
      [] OTHER -> 1

Frecent(usage, now, a, b) ==
    LET score(n) == usage[n].count * Weight(now - usage[n].last)
    IN  score(a) > score(b) \/ (score(a) = score(b) /\ usage[a].last > usage[b].last)

FrequentRank(usage, now, name) == Cardinality({b \in DOMAIN usage : Frecent(usage, now, b, name)})

\* Opening a remote never takes it down the list of the frequent ones, and whatever the
\* hour, no remote is above one that was opened later and at least as often.
VisitRaises(usage, now, name) ==
    /\ name \in DOMAIN usage =>
           FrequentRank(Record(usage, name, now), now, name) <= FrequentRank(usage, now, name)
    /\ \A a, b \in DOMAIN usage :
           usage[a].last < usage[b].last /\ usage[a].count <= usage[b].count => ~Frecent(usage, now, a, b)
=============================================================================
