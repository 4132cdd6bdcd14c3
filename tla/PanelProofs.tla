----------------------------- MODULE PanelProofs -----------------------------
(***************************************************************************)
(* What holds of the lists of a window for every tree of folders, every    *)
(* set of searches, remotes and tasks, and every bound.  One file list: it *)
(* is well typed, after a frame its selection and cursor are about its     *)
(* rows, its rows are of the folder it is on, and nothing but a gesture of *)
(* the user selects.  The sidebar: its highlight stays on its remote when  *)
(* pins move.  The Tasks panel: it spares the operations that run.         *)
(***************************************************************************)
EXTENDS Explorer, Remotes, Tasks, SequenceTheorems, FiniteSetTheorems,
        WellFoundedInduction, TLAPS

-----------------------------------------------------------------------------
(* What KeepOnly keeps.  Its recursion is over the lengths of the prefixes,    *)
(* and so is the induction, over a set of them.                               *)

LEMMA LeastOf ==
    ASSUME NEW T, T \subseteq Nat, T # {}
    PROVE  \E i \in T : \A j \in T : i <= j
  <1> DEFINE R == {ss \in Nat \X Nat : ss[1] < ss[2]}
  <1>1. IsWellFoundedOn(R, Nat)
    BY NatLessThanWellFounded, Zenon DEF OpToRel
  <1>2. PICK i \in T : \A j \in T : ~(<<j, i>> \in R)
    <2> HIDE DEF R
    <2> QED
      BY <1>1, WFMin, Zenon
  <1>3. \A j \in T : <<j, i>> \in R \/ i <= j
    OBVIOUS
  <1> QED
    BY <1>2, <1>3

\* Induction up to N, over the set of the numbers something holds of.
LEMMA UpTo ==
    ASSUME NEW N \in Nat, NEW T, 0 \in T, \A n \in 1 .. N : n - 1 \in T => n \in T
    PROVE  \A n \in 0 .. N : n \in T
  <1> DEFINE Rest == {n \in 0 .. N : n \notin T}
  <1> SUFFICES ASSUME Rest # {} PROVE FALSE
    OBVIOUS
  <1>1. PICK i \in Rest : \A j \in Rest : i <= j
    <2>1. Rest \subseteq Nat
      OBVIOUS
    <2> HIDE DEF Rest
    <2> QED
      BY <2>1, LeastOf
  <1>2. i \in 1 .. N /\ i \notin T
    BY <1>1
  <1>3. i - 1 \in 0 .. N /\ ~(i <= i - 1)
    BY <1>2
  <1>4. i - 1 \in T
    BY <1>1, <1>3
  <1> QED
    BY <1>2, <1>4

\* What is kept of the first n.
KeptOf(f, q, S, n) ==
    IF n = 0 THEN <<>>
    ELSE IF q[n] \in S THEN Append(f[n - 1], q[n]) ELSE f[n - 1]

\* f holds them for every n up to N.
KeptUpTo(f, q, S, N) == f = [n \in 0 .. N |-> KeptOf(f, q, S, n)]

LEMMA KeptExists ==
    ASSUME NEW q, NEW S, NEW N \in Nat
    PROVE  \E f : KeptUpTo(f, q, S, N)
  <1> DEFINE T == {n \in 0 .. N : \E f : f = [m \in 0 .. n |-> KeptOf(f, q, S, m)]}
  <1>1. 0 \in T
    <2> DEFINE f == [m \in 0 .. 0 |-> <<>>]
    <2>1. f = [m \in 0 .. 0 |-> KeptOf(f, q, S, m)]
      <3>1. \A m \in 0 .. 0 : KeptOf(f, q, S, m) = <<>>
        BY DEF KeptOf
      <3> QED
        BY <3>1
    <2> QED
      BY <2>1
  <1>2. ASSUME NEW n \in 1 .. N, n - 1 \in T PROVE n \in T
    <2>1. PICK f : f = [m \in 0 .. n - 1 |-> KeptOf(f, q, S, m)]
      BY <1>2
    <2> DEFINE g == [m \in 0 .. n |-> IF m = n THEN KeptOf(f, q, S, n) ELSE f[m]]
    <2>2. ASSUME NEW m \in 0 .. n PROVE g[m] = KeptOf(g, q, S, m)
      <3>1. CASE m = 0
        <4>1. g[m] = f[0] /\ f[0] = KeptOf(f, q, S, 0)
          BY <2>1, <3>1
        <4> QED
          BY <3>1, <4>1 DEF KeptOf
      <3>2. CASE m # 0
        <4>1. m - 1 \in 0 .. n /\ m - 1 # n /\ g[m - 1] = f[m - 1]
          BY <3>2
        <4>2. KeptOf(g, q, S, m) = KeptOf(f, q, S, m)
          BY <3>2, <4>1 DEF KeptOf
        <4>3. g[m] = KeptOf(f, q, S, m)
          <5>1. CASE m = n
            BY <5>1
          <5>2. CASE m # n
            <6>1. m \in 0 .. n - 1
              BY <5>2
            <6> QED
              BY <2>1, <5>2, <6>1
          <5> QED
            BY <5>1, <5>2
        <4> QED
          BY <4>2, <4>3
      <3> QED
        BY <3>1, <3>2
    <2>3. g = [m \in 0 .. n |-> KeptOf(g, q, S, m)]
      <3>1. g = [m \in 0 .. n |-> g[m]]
        OBVIOUS
      <3> HIDE DEF g
      <3> QED
        BY <2>2, <3>1
    <2>4. \E e : e = [m \in 0 .. n |-> KeptOf(e, q, S, m)]
      <3> HIDE DEF g
      <3> QED
        BY <2>3
    <2>5. n \in 0 .. N
      OBVIOUS
    <2> QED
      BY <2>4, <2>5
  <1> HIDE DEF T
  <1>3. N \in T
    BY <1>1, <1>2, UpTo
  <1>4. \E f : f = [m \in 0 .. N |-> KeptOf(f, q, S, m)]
    BY <1>3 DEF T
  <1> QED
    BY <1>4, Zenon DEF KeptUpTo

\* A filter keeps what passes and nothing else, and no row twice.
LEMMA KeepOnlyIs ==
    ASSUME NEW X, NEW q \in Seq(X), NEW S
    PROVE  LET k == KeepOnly(q, S)
           IN  /\ k \in Seq(X) /\ Len(k) <= Len(q)
               /\ Range(k) = Range(q) \cap S
               /\ IsInjective(q) => IsInjective(k)
  <1>1. Len(q) \in Nat /\ DOMAIN q = 1 .. Len(q) /\ \A i \in 1 .. Len(q) : q[i] \in X
    BY LenProperties, ElementOfSeq
  <1> DEFINE f == CHOOSE g : g = [n \in 0 .. Len(q) |-> KeptOf(g, q, S, n)]
             First(n) == {q[i] : i \in 1 .. n}
             T == {n \in 0 .. Len(q) :
                       /\ f[n] \in Seq(X) /\ Len(f[n]) <= n
                       /\ Range(f[n]) = First(n) \cap S
                       /\ IsInjective(q) => IsInjective(f[n])}
  <1>2. f = [n \in 0 .. Len(q) |-> KeptOf(f, q, S, n)]
    <2>1. \E g : KeptUpTo(g, q, S, Len(q))
      BY <1>1, KeptExists
    <2>2. \E g : g = [n \in 0 .. Len(q) |-> KeptOf(g, q, S, n)]
      BY <2>1, Zenon DEF KeptUpTo
    <2> QED
      BY <2>2, Zenon
  <1>3. KeepOnly(q, S) = f[Len(q)]
    BY DEF KeepOnly, KeptOf
  <1> HIDE DEF f
  <1>4. 0 \in T
    <2>1. f[0] = <<>>
      BY <1>1, <1>2 DEF KeptOf
    <2>2. <<>> \in Seq(X) /\ Len(<<>>) = 0 /\ DOMAIN <<>> = {}
      BY EmptySeq
    <2>3. Range(<<>>) = {} /\ IsInjective(<<>>)
      BY <2>2 DEF Range, IsInjective
    <2>4. First(0) = {} /\ 0 \in 0 .. Len(q) /\ 0 <= 0
      BY <1>1
    <2> HIDE DEF First
    <2> QED
      BY <2>1, <2>2, <2>3, <2>4
  <1>5. ASSUME NEW n \in 1 .. Len(q), n - 1 \in T PROVE n \in T
    <2> DEFINE h == f[n - 1]
    <2>1. /\ h \in Seq(X) /\ Len(h) <= n - 1 /\ Len(h) \in Nat
          /\ Range(h) = First(n - 1) \cap S
          /\ IsInjective(q) => IsInjective(h)
          /\ DOMAIN h = 1 .. Len(h)
      BY <1>5, LenProperties
    <2>2. f[n] = IF q[n] \in S THEN Append(h, q[n]) ELSE h
      <3>1. n \in 0 .. Len(q) /\ n # 0
        BY <1>1
      <3>2. f[n] = KeptOf(f, q, S, n)
        BY <1>2, <3>1
      <3> QED
        BY <3>1, <3>2 DEF KeptOf
    <2>3. First(n) = First(n - 1) \cup {q[n]}
      <3>1. \A i \in 1 .. n : i \in 1 .. n - 1 \/ i = n
        BY <1>1
      <3>2. n \in 1 .. n /\ \A i \in 1 .. n - 1 : i \in 1 .. n
        BY <1>1
      <3> QED
        BY <3>1, <3>2
    <2>4. n \in 0 .. Len(q) /\ q[n] \in X /\ n - 1 <= n
      BY <1>1
    <2> HIDE DEF h, First
    <2>5. CASE q[n] \notin S
      BY <1>1, <2>1, <2>2, <2>3, <2>4, <2>5
    <2>6. CASE q[n] \in S
      <3> DEFINE k == Append(h, q[n])
      <3>1. /\ k \in Seq(X) /\ Len(k) = Len(h) + 1
            /\ \A i \in 1 .. Len(h) : k[i] = h[i]
            /\ k[Len(h) + 1] = q[n]
        BY <2>1, <2>4, AppendProperties
      <3>2. DOMAIN k = 1 .. Len(h) + 1
        BY <3>1, LenProperties
      <3> HIDE DEF k
      <3>3. \A i \in 1 .. Len(h) + 1 : i \in 1 .. Len(h) \/ i = Len(h) + 1
        BY <2>1
      <3>4. Len(h) + 1 \in 1 .. Len(h) + 1 /\ \A i \in 1 .. Len(h) : i \in 1 .. Len(h) + 1
        BY <2>1
      <3>5. Range(k) = Range(h) \cup {q[n]}
        BY <2>1, <3>1, <3>2, <3>3, <3>4 DEF Range
      <3>6. ASSUME IsInjective(q) PROVE IsInjective(k)
        <4>1. q[n] \notin Range(h)
          <5>1. \A i \in 1 .. n - 1 : i \in DOMAIN q /\ n \in DOMAIN q /\ i # n
            BY <1>1
          <5>2. q[n] \notin First(n - 1)
            BY <3>6, <5>1 DEF IsInjective, First
          <5> QED
            BY <2>1, <5>2
        <4>2. \A i \in 1 .. Len(h) : k[i] # q[n]
          BY <2>1, <3>1, <4>1 DEF Range
        <4>3. \A i, j \in 1 .. Len(h) : k[i] = k[j] => i = j
          BY <2>1, <3>1, <3>6 DEF IsInjective
        <4> QED
          BY <3>1, <3>2, <3>3, <4>2, <4>3 DEF IsInjective
      <3>7. Len(k) <= n
        BY <1>1, <2>1, <3>1
      <3>8. f[n] = k
        BY <2>2, <2>6 DEF k
      <3> QED
        BY <2>1, <2>3, <2>4, <2>6, <3>1, <3>5, <3>6, <3>7, <3>8
    <2> QED
      BY <2>5, <2>6
  <1>6. Len(q) \in T
    <2> HIDE DEF T
    <2>1. \A n \in 1 .. Len(q) : n - 1 \in T => n \in T
      BY <1>5
    <2>2. \A n \in 0 .. Len(q) : n \in T
      BY <1>1, <1>4, <2>1, UpTo
    <2> QED
      BY <1>1, <2>2
  <1>7. First(Len(q)) = Range(q)
    BY <1>1 DEF Range
  <1> QED
    BY <1>3, <1>6, <1>7

-----------------------------------------------------------------------------
(* The inductive invariant, in the parts the handlers touch.  What a frame     *)
(* draws is of the folder because the filtered rows kept from before are, and *)
(* are the ones of the text they are kept for.                                *)

ListingFits ==
    /\ at \in Folders \cup {None}
    /\ rows = None \/ rows \in Lists[InFolder(at)]
    /\ text \in Texts \cup {None} /\ searched \in Texts \cup {None}
    /\ hits = None \/ hits \in Lists[Found(at, searched)]
    /\ at = None => rows = None /\ text = None /\ searched = None /\ hits = None
    /\ hits # None => searched # None

FilterFits ==
    /\ view \in Lists[Files]
    /\ viewSig = None \/ viewSig \in Texts \X (0 .. MaxRows)
    /\ viewSig # None => \A e \in Paths(view) : e[1] = at /\ e[2] \in Hit[viewSig[1]]

ChoiceFits == sel \subseteq Files /\ anchor \in Files \cup {None} /\ cursor \in (1 .. MaxRows) \cup {None}

OthersFit ==
    /\ base = None \/ base \subseteq Files
    /\ pending \in Names \cup {None}
    /\ burst \in 0 .. MaxBurst

Rebuilt ==
    drawn /\ text # None /\ ~RecursiveShowing => viewSig = <<text, Len(RowsOrNone)>>

Resolved ==
    drawn /\ rows # None =>
        sel \subseteq Paths(Entries) /\ (cursor # None => cursor \in Rows(Entries) /\ sel # {})

ExpIInv == ListingFits /\ FilterFits /\ ChoiceFits /\ OthersFit /\ Rebuilt /\ Resolved

LEMMA ListIs ==
    ASSUME NEW S \in SUBSET Files, NEW q
    PROVE  q \in Lists[S] <=> q \in Seq(S) /\ Len(q) \in 0 .. MaxRows /\ IsInjective(q)
  <1>1. Lists[S] = {f \in UNION {[1 .. n -> S] : n \in 0 .. MaxRows} : IsInjective(f)}
    BY DEF Lists
  <1>2. ASSUME q \in Lists[S] PROVE q \in Seq(S) /\ Len(q) \in 0 .. MaxRows /\ IsInjective(q)
    <2>1. PICK n \in 0 .. MaxRows : q \in [1 .. n -> S]
      BY <1>1, <1>2
    <2>2. n \in Nat
      BY ExplorerAssumption
    <2> QED
      BY <1>1, <1>2, <2>1, <2>2
  <1>3. ASSUME q \in Seq(S), Len(q) \in 0 .. MaxRows, IsInjective(q) PROVE q \in Lists[S]
    <2>1. q \in [1 .. Len(q) -> S]
      BY <1>3, LenProperties
    <2> QED
      BY <1>1, <1>3, <2>1
  <1> QED
    BY <1>2, <1>3

LEMMA ListFacts ==
    ASSUME NEW S \in SUBSET Files, NEW q \in Lists[S]
    PROVE  /\ q \in Lists[Files] /\ Paths(q) \subseteq S
           /\ Len(q) \in 0 .. MaxRows /\ Len(q) \in Nat
           /\ Rows(q) = 1 .. Len(q) /\ Rows(q) \subseteq 1 .. MaxRows
           /\ \A i \in Rows(q) : q[i] \in S /\ q[i] \in Paths(q)
  <1>1. q \in Seq(S) /\ Len(q) \in 0 .. MaxRows /\ IsInjective(q)
    BY ListIs
  <1>2. q \in Seq(Files)
    <2>1. q \in [1 .. Len(q) -> S] /\ Len(q) \in Nat
      BY <1>1, LenProperties
    <2>2. q \in [1 .. Len(q) -> Files]
      BY <2>1
    <2> QED
      BY <2>1, <2>2
  <1>3. q \in Lists[Files]
    BY <1>1, <1>2, ListIs
  <1>4. DOMAIN q = 1 .. Len(q) /\ Len(q) \in Nat /\ \A i \in 1 .. Len(q) : q[i] \in S
    BY <1>1, LenProperties, ElementOfSeq
  <1>5. 1 .. Len(q) \subseteq 1 .. MaxRows
    BY <1>1, <1>4, ExplorerAssumption
  <1> QED
    BY <1>1, <1>3, <1>4, <1>5 DEF Rows, Paths, Range

LEMMA EmptyIsList == \A S \in SUBSET Files : <<>> \in Lists[S]
  <1>1. <<>> \in Seq({}) /\ Len(<<>>) = 0 /\ DOMAIN <<>> = {}
    BY EmptySeq
  <1>2. IsInjective(<<>>) /\ 0 \in 0 .. MaxRows
    BY <1>1, ExplorerAssumption DEF IsInjective
  <1>3. \A S : <<>> \in Seq(S)
    BY EmptySeq
  <1> QED
    BY <1>1, <1>2, <1>3, ListIs

LEMMA SubsetsOfFiles ==
    \A f, t : InFolder(f) \in SUBSET Files /\ Found(f, t) \in SUBSET Files
  BY DEF InFolder, Found

LEMMA RowsAreList ==
    ASSUME ListingFits
    PROVE  /\ RowsOrNone \in Lists[InFolder(at)] /\ RowsOrNone \in Lists[Files]
           /\ rows # None => rows \in Lists[InFolder(at)] /\ rows \in Lists[Files]
  <1>1. RowsOrNone \in Lists[InFolder(at)]
    BY EmptyIsList, SubsetsOfFiles DEF ListingFits, RowsOrNone
  <1> QED
    BY <1>1, ListFacts, SubsetsOfFiles DEF ListingFits

LEMMA DisplayedIsList ==
    ASSUME ListingFits, NEW v \in Lists[Files]
    PROVE  Displayed(v) \in Lists[Files]
  <1>1. hits # None => hits \in Lists[Files]
    BY ListFacts, SubsetsOfFiles DEF ListingFits
  <1> QED
    BY <1>1, RowsAreList DEF Displayed, RecursiveShowing

LEMMA EntriesAreList == ListingFits /\ FilterFits => Entries \in Lists[Files]
  BY DisplayedIsList DEF FilterFits, Entries

LEMMA ExpTypes == ExpIInv => TypeOK
  BY DEF ExpIInv, ListingFits, FilterFits, ChoiceFits, OthersFit, TypeOK

LEMMA ExpInit == Init => ExpIInv
  <1> SUFFICES ASSUME Init PROVE ExpIInv
    OBVIOUS
  <1>1. ListingFits
    BY DEF Init, ListingFits
  <1>2. FilterFits
    BY EmptyIsList DEF Init, FilterFits
  <1>3. ChoiceFits /\ OthersFit
    BY ExplorerAssumption DEF Init, ChoiceFits, OthersFit
  <1> QED
    BY <1>1, <1>2, <1>3 DEF Init, ExpIInv, Rebuilt, Resolved

-----------------------------------------------------------------------------
(* The handlers.  None of them draws, so none has to leave things reconciled.  *)

LEMMA HandlerKeeps ==
    ASSUME ExpIInv, Handler
    PROVE  burst' \in 0 .. MaxBurst /\ Rebuilt' /\ Resolved'
  <1>1. burst \in 0 .. MaxBurst /\ burst < MaxBurst /\ burst' = burst + 1
    BY DEF Handler, ExpIInv, OthersFit
  <1>2. burst' \in 0 .. MaxBurst /\ burst' # 0
    BY <1>1, ExplorerAssumption
  <1> QED
    BY <1>2 DEF Rebuilt, Resolved, drawn

LEMMA ChoosingKeeps ==
    ASSUME ExpIInv, Choosing, ChoiceFits', base' = None \/ base' \subseteq Files
    PROVE  ExpIInv'
  <1>1. UNCHANGED <<at, rows, text, searched, hits, view, viewSig, pending>> /\ Handler
    BY DEF Choosing, listing, filter
  <1>2. ListingFits' /\ FilterFits'
    BY <1>1 DEF ExpIInv, ListingFits, FilterFits
  <1>3. OthersFit'
    BY <1>1, HandlerKeeps DEF ExpIInv, OthersFit
  <1> QED
    BY <1>1, <1>2, <1>3, HandlerKeeps DEF ExpIInv

LEMMA ListingKeeps ==
    ASSUME ExpIInv, Handler, ListingFits', at' = at, UNCHANGED <<filter, choice, base>>,
           pending' \in Names \cup {None}
    PROVE  ExpIInv'
  <1>1. UNCHANGED <<view, viewSig, sel, anchor, cursor, base>>
    BY DEF filter, choice
  <1>2. FilterFits' /\ ChoiceFits'
    BY <1>1 DEF ExpIInv, FilterFits, ChoiceFits
  <1>3. OthersFit'
    BY <1>1, HandlerKeeps DEF ExpIInv, OthersFit
  <1> QED
    BY <1>2, <1>3, HandlerKeeps DEF ExpIInv

LEMMA SelectOnlyFits ==
    ASSUME NEW q \in Lists[Files], NEW ix, SelectOnly(q, ix)
    PROVE  /\ ChoiceFits'
           /\ sel' \subseteq Paths(q)
           /\ cursor' # None => cursor' \in Rows(q) /\ sel' # {}
           /\ ix \in Rows(q) => sel' = {q[ix]}
  <1>1. CASE ix \in Rows(q)
    <2>1. q[ix] \in Files /\ q[ix] \in Paths(q) /\ ix \in 1 .. MaxRows
      BY <1>1, ListFacts
    <2> QED
      BY <1>1, <2>1 DEF SelectOnly, ChoiceFits
  <1>2. CASE ix \notin Rows(q)
    BY <1>2 DEF SelectOnly, ChoiceFits
  <1> QED
    BY <1>1, <1>2

LEMMA LeadFits ==
    ASSUME NEW ix \in 1 .. MaxRows, LeadIfSelected(ix)
    PROVE  cursor' \in (1 .. MaxRows) \cup {None}
  BY DEF LeadIfSelected

LEMMA ToggleFits ==
    ASSUME ChoiceFits, NEW q \in Lists[Files], NEW ix \in 1 .. MaxRows, ToggleAt(q, ix)
    PROVE  ChoiceFits'
  <1>1. cursor' \in (1 .. MaxRows) \cup {None}
    BY LeadFits DEF ToggleAt
  <1>2. ix \in Rows(q) => q[ix] \in Files
    BY ListFacts
  <1> QED
    BY <1>1, <1>2 DEF ToggleAt, ChoiceFits

LEMMA RangeFits ==
    ASSUME ChoiceFits, NEW q \in Lists[Files], NEW ix \in 1 .. MaxRows, SelectRangeTo(q, ix)
    PROVE  ChoiceFits'
  <1>1. cursor' \in (1 .. MaxRows) \cup {None}
    BY LeadFits DEF SelectRangeTo
  <1>2. CASE ix \in Rows(q) /\ anchor \in Paths(q)
    <2>1. PICK a \in Rows(q) : sel' = {q[i] : i \in Between(a, ix)}
      BY <1>2 DEF SelectRangeTo
    <2>2. Between(a, ix) \subseteq Rows(q)
      <3>1. Rows(q) = 1 .. Len(q) /\ Len(q) \in Nat
        BY ListFacts
      <3> QED
        BY <1>2, <3>1 DEF Between
    <2>3. sel' \subseteq Files
      BY <2>1, <2>2, ListFacts
    <2>4. anchor' = anchor
      BY <1>2 DEF SelectRangeTo
    <2> QED
      BY <1>1, <2>3, <2>4 DEF ChoiceFits
  <1>3. CASE ix \in Rows(q) /\ anchor \notin Paths(q)
    <2>1. q[ix] \in Files /\ sel' = {q[ix]} /\ anchor' \in {None, q[ix]}
      BY <1>3, ListFacts DEF SelectRangeTo
    <2> QED
      BY <1>1, <2>1 DEF ChoiceFits
  <1>4. CASE ix \notin Rows(q)
    <2>1. UNCHANGED <<sel, anchor>>
      BY <1>4 DEF SelectRangeTo
    <2> QED
      BY <1>1, <2>1 DEF ChoiceFits
  <1> QED
    BY <1>2, <1>3, <1>4

LEMMA ClickKeeps ==
    ASSUME ExpIInv, NEW ix \in 1 .. MaxRows, Click(ix) \/ RightClick(ix)
    PROVE  ExpIInv'
  <1>1. Entries \in Lists[Files] /\ ChoiceFits
    BY EntriesAreList DEF ExpIInv
  <1>2. Choosing /\ base' = base /\ (base = None \/ base \subseteq Files)
    BY DEF Click, RightClick, ExpIInv, OthersFit
  <1>3. \/ SelectOnly(Entries, ix)
        \/ ToggleAt(Entries, ix)
        \/ SelectRangeTo(Entries, ix)
    BY DEF Click, RightClick
  <1>4. ChoiceFits'
    BY <1>1, <1>3, SelectOnlyFits, ToggleFits, RangeFits
  <1> QED
    BY <1>2, <1>4, ChoosingKeeps

LEMMA StepKeeps ==
    ASSUME ExpIInv, SelectNext \/ SelectPrev
    PROVE  ExpIInv'
  <1>1. Entries \in Lists[Files] /\ ChoiceFits
    BY EntriesAreList DEF ExpIInv
  <1>2. Len(Entries) \in Nat /\ Len(Entries) \in 0 .. MaxRows
    BY <1>1, ListFacts
  <1>3. PICK first, to : /\ Step(first, to)
                         /\ cursor # None => to \in 1 .. MaxRows
    <2>1. CASE SelectNext
      <3> DEFINE up == IF cursor = None THEN 1 ELSE Min2(cursor + 1, Len(Entries))
      <3>1. Step(1, up)
        BY <2>1 DEF SelectNext
      <3>2. Entries # <<>>
        BY <3>1 DEF Step
      <3>3. Len(Entries) # 0
        BY <1>1, <3>2, ListIs, EmptySeq
      <3>4. ASSUME cursor # None PROVE up \in 1 .. MaxRows
        <4>1. cursor \in 1 .. MaxRows
          BY <1>1, <3>4 DEF ChoiceFits
        <4>2. Min2(cursor + 1, Len(Entries)) \in 1 .. MaxRows
          BY <1>2, <3>3, <4>1, ExplorerAssumption DEF Min2
        <4> QED
          BY <3>4, <4>2
      <3> HIDE DEF up
      <3> QED
        BY <3>1, <3>4
    <2>2. CASE SelectPrev
      <3> DEFINE down == IF cursor \in {None, 1} THEN 1 ELSE cursor - 1
      <3>1. Step(Len(Entries), down)
        BY <2>2 DEF SelectPrev
      <3>2. ASSUME cursor # None PROVE down \in 1 .. MaxRows
        <4>1. cursor \in 1 .. MaxRows
          BY <1>1, <3>2 DEF ChoiceFits
        <4> QED
          BY <3>2, <4>1, ExplorerAssumption
      <3> HIDE DEF down
      <3> QED
        BY <3>1, <3>2
    <2> QED
      BY <2>1, <2>2
  <1>4. Choosing /\ base' = base /\ (base = None \/ base \subseteq Files)
    BY <1>3 DEF Step, ExpIInv, OthersFit
  <1>5. ChoiceFits'
    <2>1. \/ SelectOnly(Entries, first)
          \/ cursor # None /\ (SelectOnly(Entries, to) \/ SelectRangeTo(Entries, to))
      BY <1>3 DEF Step
    <2> QED
      BY <1>1, <1>3, <2>1, SelectOnlyFits, RangeFits
  <1> QED
    BY <1>4, <1>5, ChoosingKeeps

LEMMA DragKeeps ==
    ASSUME ExpIInv, DragMarquee
    PROVE  ExpIInv'
  <1>1. Entries \in Lists[Files] /\ ChoiceFits /\ (base = None \/ base \subseteq Files)
    BY EntriesAreList DEF ExpIInv, OthersFit
  <1>2. Choosing /\ anchor' = anchor
    BY DEF DragMarquee
  <1>3. base' = None \/ base' \subseteq Files
    BY <1>1 DEF DragMarquee, ChoiceFits
  <1>4. base' \subseteq Files
    BY <1>1 DEF DragMarquee, ChoiceFits
  <1>5. CASE BandOverNothing(base')
    <2>1. ChoiceFits'
      BY <1>1, <1>2, <1>4, <1>5 DEF BandOverNothing, ChoiceFits
    <2> QED
      BY <1>2, <1>3, <2>1, ChoosingKeeps
  <1>6. CASE \E lo, hi \in Rows(Entries) : lo <= hi /\ BandOver(base', lo, hi)
    <2>1. PICK lo \in Rows(Entries), hi \in Rows(Entries) : lo <= hi /\ BandOver(base', lo, hi)
      BY <1>6
    <2>2. Rows(Entries) = 1 .. Len(Entries) /\ Len(Entries) \in Nat /\ Rows(Entries) \subseteq 1 .. MaxRows
      BY <1>1, ListFacts
    <2>3. \A i \in lo .. hi : Entries[i] \in Files
      <3>1. lo .. hi \subseteq Rows(Entries)
        BY <2>1, <2>2
      <3> QED
        BY <1>1, <3>1, ListFacts
    <2>4. cursor' \in 1 .. MaxRows /\ sel' \subseteq Files
      BY <1>4, <2>1, <2>2, <2>3 DEF BandOver
    <2>5. ChoiceFits'
      BY <1>1, <1>2, <2>4 DEF ChoiceFits
    <2> QED
      BY <1>2, <1>3, <2>5, ChoosingKeeps
  <1> QED
    BY <1>5, <1>6 DEF DragMarquee

LEMMA GesturesKeep ==
    ASSUME ExpIInv, Press \/ SelectAll \/ CollapseSelection \/ SelectFirstIfEmpty \/ EndMarquee
    PROVE  ExpIInv'
  <1>1. Entries \in Lists[Files] /\ ChoiceFits /\ (base = None \/ base \subseteq Files)
    BY EntriesAreList DEF ExpIInv, OthersFit
  <1>2. CASE Press
    <2>1. ChoiceFits' /\ Choosing /\ base' = base
      BY <1>2 DEF Press, Clear, ChoiceFits
    <2> QED
      BY <1>1, <2>1, ChoosingKeeps
  <1>3. CASE SelectAll
    <2>1. PICK ix \in 1 .. MaxRows : LeadIfSelected(ix)
      <3>1. 1 \in 1 .. MaxRows /\ (cursor # None => cursor \in 1 .. MaxRows)
        BY <1>1, ExplorerAssumption DEF ChoiceFits
      <3> QED
        BY <1>3, <3>1 DEF SelectAll
    <2>2. sel' = Paths(Entries) /\ anchor' = anchor /\ Choosing /\ base' = base
      BY <1>3 DEF SelectAll
    <2>3. ChoiceFits'
      BY <1>1, <2>1, <2>2, LeadFits, ListFacts DEF ChoiceFits
    <2> QED
      BY <1>1, <2>2, <2>3, ChoosingKeeps
  <1>4. CASE CollapseSelection \/ SelectFirstIfEmpty
    <2>1. /\ SelectOnly(Entries, cursor) \/ SelectOnly(Entries, 1)
          /\ Choosing /\ base' = base
      BY <1>4 DEF CollapseSelection, SelectFirstIfEmpty
    <2>2. ChoiceFits'
      BY <1>1, <2>1, SelectOnlyFits
    <2> QED
      BY <1>1, <2>1, <2>2, ChoosingKeeps
  <1>5. CASE EndMarquee
    <2>1. ChoiceFits' /\ Choosing /\ base' = None
      BY <1>1, <1>5 DEF EndMarquee, choice, ChoiceFits
    <2> QED
      BY <2>1, ChoosingKeeps
  <1> QED
    BY <1>2, <1>3, <1>4, <1>5

\* The name under the cursor is a name.
LEMMA CursorNameFits == ListingFits /\ FilterFits => CursorName \in Names \cup {None}
  <1> SUFFICES ASSUME ListingFits, FilterFits, cursor \in Rows(Entries)
               PROVE  Entries[cursor][2] \in Names
    BY DEF CursorName
  <1>1. Entries[cursor] \in Files
    BY EntriesAreList, ListFacts
  <1> QED
    BY <1>1 DEF Names

LEMMA ListingHandlersKeep ==
    ASSUME ExpIInv,
           \/ Deliver \/ ChooseSort \/ RunSearch \/ ToggleSubfolderSearch \/ SearchAnswers
           \/ \E t \in Texts \cup {None} : TypeSearch(t)
           \/ \E n \in Names : SetPending(n)
    PROVE  ExpIInv'
  <1>1. ListingFits /\ pending \in Names \cup {None}
    BY DEF ExpIInv, OthersFit
  <1>2. CASE Deliver
    <2>1. /\ at # None /\ (rows' \in Lists[InFolder(at)] \/ rows' = None)
          /\ Handler /\ UNCHANGED <<at, text, searched, hits, filter, choice, base, pending>>
      BY <1>2 DEF Deliver
    <2>2. ListingFits'
      BY <1>1, <2>1 DEF ListingFits
    <2> QED
      BY <1>1, <2>1, <2>2, ListingKeeps
  <1>3. CASE ChooseSort
    <2>1. /\ at # None /\ pending' = CursorName
          /\ rows = None => rows' = rows
          /\ rows # None => rows' \in Lists[Paths(rows)]
          /\ Handler /\ UNCHANGED <<at, text, searched, hits, filter, choice, base>>
      BY <1>3 DEF ChooseSort
    <2>2. rows' = None \/ rows' \in Lists[InFolder(at)]
      <3>1. CASE rows = None
        BY <2>1, <3>1
      <3>2. CASE rows # None
        <4>1. rows \in Lists[InFolder(at)] /\ InFolder(at) \in SUBSET Files
          BY <1>1, <3>2, SubsetsOfFiles DEF ListingFits
        <4>2. Paths(rows) \subseteq InFolder(at) /\ Paths(rows) \in SUBSET Files
          BY <4>1, ListFacts
        <4>3. rows' \in Seq(Paths(rows)) /\ Len(rows') \in 0 .. MaxRows /\ IsInjective(rows')
          BY <2>1, <3>2, <4>2, ListIs
        <4>4. rows' \in Seq(InFolder(at))
          <5>1. Len(rows') \in Nat /\ rows' \in [1 .. Len(rows') -> Paths(rows)]
            BY <4>3, LenProperties
          <5>2. rows' \in [1 .. Len(rows') -> InFolder(at)]
            BY <4>2, <5>1
          <5> QED
            BY <5>1, <5>2
        <4> QED
          BY <4>1, <4>3, <4>4, ListIs
      <3> QED
        BY <3>1, <3>2
    <2>3. ListingFits'
      BY <1>1, <2>1, <2>2 DEF ListingFits
    <2>4. CursorName \in Names \cup {None}
      BY CursorNameFits DEF ExpIInv
    <2> QED
      BY <2>1, <2>3, <2>4, ListingKeeps
  <1>4. CASE RunSearch
    <2>1. /\ at # None
          /\ \/ searched' = None /\ hits' = None
             \/ /\ text # None /\ searched' = text
                /\ hits' \in IF searched = text THEN {hits, None}
                             ELSE {None} \cup Lists[Found(at, text)]
          /\ Handler /\ UNCHANGED <<at, rows, text, filter, choice, base, pending>>
      BY <1>4 DEF RunSearch
    <2>2. ListingFits'
      BY <1>1, <2>1 DEF ListingFits
    <2> QED
      BY <1>1, <2>1, <2>2, ListingKeeps
  <1>5. CASE ToggleSubfolderSearch
    <2>1. /\ searched' = None /\ hits' = None
          /\ Handler /\ UNCHANGED <<at, rows, text, filter, choice, base, pending>>
      BY <1>5 DEF ToggleSubfolderSearch
    <2>2. ListingFits'
      BY <1>1, <2>1 DEF ListingFits
    <2> QED
      BY <1>1, <2>1, <2>2, ListingKeeps
  <1>6. CASE SearchAnswers
    <2>1. /\ searched # None /\ hits' \in Lists[Found(at, searched)]
          /\ Handler /\ UNCHANGED <<at, rows, text, searched, filter, choice, base, pending>>
      BY <1>6 DEF SearchAnswers
    <2>2. ListingFits'
      BY <1>1, <2>1 DEF ListingFits
    <2> QED
      BY <1>1, <2>1, <2>2, ListingKeeps
  <1>7. CASE \E t \in Texts \cup {None} : TypeSearch(t)
    <2>1. /\ at # None /\ text' \in Texts \cup {None}
          /\ Handler /\ UNCHANGED <<at, rows, searched, hits, filter, choice, base, pending>>
      BY <1>7 DEF TypeSearch
    <2>2. ListingFits'
      BY <1>1, <2>1 DEF ListingFits
    <2> QED
      BY <1>1, <2>1, <2>2, ListingKeeps
  <1>8. CASE \E n \in Names : SetPending(n)
    <2>1. /\ pending' \in Names /\ Handler
          /\ UNCHANGED <<at, rows, text, searched, hits, filter, choice, base>>
      BY <1>8 DEF SetPending, listing
    <2>2. ListingFits'
      BY <1>1, <2>1 DEF ListingFits
    <2> QED
      BY <2>1, <2>2, ListingKeeps
  <1> QED
    BY <1>2, <1>3, <1>4, <1>5, <1>6, <1>7, <1>8

LEMMA CloseSearchKeeps ==
    ASSUME ExpIInv, CloseSearch
    PROVE  ExpIInv'
  <1>1. /\ text' = None /\ searched' = None /\ hits' = None /\ viewSig' = None
        /\ Handler /\ UNCHANGED <<at, rows, view, sel, anchor, cursor, base, pending>>
    BY DEF CloseSearch, ResetSearch, choice
  <1>2. ListingFits' /\ FilterFits' /\ ChoiceFits'
    BY <1>1 DEF ExpIInv, ListingFits, FilterFits, ChoiceFits
  <1>3. OthersFit'
    BY <1>1, HandlerKeeps DEF ExpIInv, OthersFit
  <1> QED
    BY <1>1, <1>2, <1>3, HandlerKeeps DEF ExpIInv

LEMMA ShowKeeps ==
    ASSUME ExpIInv, NEW f \in Folders \cup {None}, NEW n \in Names \cup {None}, Show(f, n)
    PROVE  ExpIInv'
  <1>1. /\ text' = None /\ searched' = None /\ hits' = None /\ viewSig' = None
        /\ at' = f /\ sel' = {} /\ anchor' = None /\ cursor' = None
        /\ pending' = n /\ UNCHANGED <<view, base>>
        /\ \/ f = None /\ rows' = None /\ burst' = 0
           \/ f # None /\ rows' \in Lists[InFolder(f)] \cup {None} /\ Handler
    BY DEF Show, ResetSearch, Clear
  <1>2. ListingFits' /\ FilterFits' /\ ChoiceFits'
    BY <1>1 DEF ExpIInv, ListingFits, FilterFits, ChoiceFits
  <1>3. CASE f = None /\ rows' = None /\ burst' = 0
    <2>1. OthersFit'
      BY <1>1, <1>3, ExplorerAssumption DEF ExpIInv, OthersFit
    <2>2. Rebuilt' /\ Resolved'
      BY <1>1, <1>3 DEF Rebuilt, Resolved
    <2> QED
      BY <1>2, <2>1, <2>2 DEF ExpIInv
  <1>4. CASE f # None /\ Handler
    <2>1. OthersFit'
      BY <1>1, <1>4, HandlerKeeps DEF ExpIInv, OthersFit
    <2> QED
      BY <1>2, <1>4, <2>1, HandlerKeeps DEF ExpIInv
  <1> QED
    BY <1>1, <1>3, <1>4

-----------------------------------------------------------------------------
(* The frame                                                                   *)

\* The rows it filters.
LEMMA FilteredFits ==
    ASSUME ExpIInv, Frame
    PROVE  FilterFits' /\ view' \in Lists[Files] /\ Rebuilt'
  <1>1. /\ at # None /\ UNCHANGED <<at, rows, text, searched, hits>>
        /\ view' = Filtered.rows /\ viewSig' = Filtered.sig
    BY DEF Frame, listing
  <1>2. FilterFits /\ ListingFits
    BY DEF ExpIInv
  <1>3. RowsOrNone' = RowsOrNone /\ RecursiveShowing' = RecursiveShowing
    BY <1>1 DEF RowsOrNone, RecursiveShowing, RecursiveIntent
  <1>4. CASE ~RecursiveShowing /\ text # None /\ FilterIsOld
    <2> DEFINE r == RowsOrNone
               S == {e \in Files : e[2] \in Hit[text]}
    <2>1. view' = KeepOnly(r, S) /\ viewSig' = <<text, Len(r)>>
      BY <1>1, <1>4 DEF Filtered
    <2>2. InFolder(at) \in SUBSET Files /\ r \in Lists[InFolder(at)]
      BY <1>2, RowsAreList, SubsetsOfFiles
    <2>3. r \in Seq(InFolder(at)) /\ Len(r) \in 0 .. MaxRows /\ Len(r) \in Nat /\ IsInjective(r)
      BY <2>2, ListIs, ListFacts
    <2> HIDE DEF r, S
    <2>4. /\ view' \in Seq(InFolder(at)) /\ Len(view') <= Len(r)
          /\ Range(view') = Range(r) \cap S /\ IsInjective(view')
      BY <2>1, <2>3, KeepOnlyIs
    <2>5. Len(view') \in 0 .. MaxRows
      <3>1. Len(view') \in Nat
        BY <2>4, LenProperties
      <3> QED
        BY <2>3, <2>4, <3>1, ExplorerAssumption
    <2>6. view' \in Lists[InFolder(at)]
      BY <2>2, <2>4, <2>5, ListIs
    <2>7. view' \in Lists[Files] /\ Paths(view') \subseteq InFolder(at) /\ Paths(view') \subseteq S
      BY <2>2, <2>4, <2>6, ListFacts DEF Paths
    <2>8. text \in Texts /\ <<text, Len(r)>> \in Texts \X (0 .. MaxRows) /\ viewSig'[1] = text
      BY <1>2, <1>4, <2>1, <2>3 DEF ListingFits
    <2>9. \A e \in Paths(view') : e[1] = at /\ e[2] \in Hit[text]
      BY <2>7 DEF S, InFolder
    <2>10. FilterFits'
      BY <1>1, <2>1, <2>7, <2>8, <2>9 DEF FilterFits, Paths
    <2>11. Rebuilt'
      BY <1>1, <1>3, <2>1 DEF Rebuilt, r
    <2> QED
      BY <2>7, <2>10, <2>11
  <1>5. CASE ~(~RecursiveShowing /\ text # None /\ FilterIsOld)
    <2>1. view' = view /\ viewSig' = viewSig
      BY <1>1, <1>5 DEF Filtered
    <2>2. FilterFits'
      BY <1>1, <1>2, <2>1 DEF FilterFits
    <2>3. Rebuilt'
      BY <1>1, <1>3, <1>5, <2>1 DEF Rebuilt, FilterIsOld
    <2> QED
      BY <1>2, <2>1, <2>2, <2>3 DEF FilterFits
  <1> QED
    BY <1>4, <1>5

\* What it makes of the selection, over the rows q it displays.
LEMMA ResolveFits ==
    ASSUME ExpIInv, NEW q \in Lists[Files], ResolveSelection(q)
    PROVE  /\ ChoiceFits' /\ pending' \in Names \cup {None}
           /\ rows # None => sel' \subseteq Paths(q) /\ (cursor' # None => cursor' \in Rows(q) /\ sel' # {})
           /\ sel' \subseteq sel \cup {e \in Files : e[2] = pending}
  <1>1. ChoiceFits /\ pending \in Names \cup {None}
    BY DEF ExpIInv, OthersFit
  <1>2. CASE rows = None /\ UNCHANGED <<choice, pending>>
    BY <1>1, <1>2 DEF choice, ChoiceFits
  <1>3. CASE /\ rows # None /\ pending' = None
             /\ \E i \in Named(q, pending) : SelectOnly(q, i)
    <2>1. PICK i \in Named(q, pending) : SelectOnly(q, i)
      BY <1>3
    <2>2. i \in Rows(q) /\ q[i][2] = pending /\ q[i] \in Files
      BY ListFacts DEF Named
    <2> QED
      BY <1>3, <2>1, <2>2, SelectOnlyFits
  <1>4. CASE rows # None /\ pending' = None /\ KeepWhatRemains(q)
    <2>1. /\ sel' = sel \cap Paths(q) /\ anchor' \in {anchor, None}
          /\ cursor' = IF sel' = {} \/ cursor = None THEN None ELSE Min2(cursor, Len(q))
      BY <1>4 DEF KeepWhatRemains
    <2>2. cursor' # None => cursor' \in Rows(q) /\ sel' # {}
      <3> SUFFICES ASSUME sel' # {}, cursor # None PROVE Min2(cursor, Len(q)) \in Rows(q)
        BY <2>1
      <3>1. cursor \in 1 .. MaxRows /\ Len(q) \in Nat /\ Rows(q) = 1 .. Len(q)
        BY <1>1, ListFacts DEF ChoiceFits
      <3>2. Len(q) # 0
        <4>1. Rows(q) # {}
          BY <2>1 DEF Paths, Range, Rows
        <4> QED
          BY <3>1, <4>1
      <3> QED
        BY <3>1, <3>2, ExplorerAssumption DEF Min2
    <2>3. Rows(q) \subseteq 1 .. MaxRows
      BY ListFacts
    <2> QED
      BY <1>1, <1>4, <2>1, <2>2, <2>3 DEF ChoiceFits
  <1> QED
    BY <1>2, <1>3, <1>4 DEF ResolveSelection

LEMMA FrameKeeps ==
    ASSUME ExpIInv, Frame
    PROVE  ExpIInv' /\ sel' \subseteq sel \cup {e \in Files : e[2] = pending}
  <1> DEFINE q == Displayed(view')
  <1>1. /\ UNCHANGED <<at, rows, text, searched, hits, base>> /\ burst' = 0
        /\ ResolveSelection(q)
    BY DEF Frame, listing
  <1>2. FilterFits' /\ view' \in Lists[Files] /\ Rebuilt'
    BY FilteredFits
  <1>3. q \in Lists[Files]
    BY <1>2, DisplayedIsList DEF ExpIInv
  <1>4. Entries' = q
    BY <1>1 DEF Entries, Displayed, RowsOrNone, RecursiveShowing, RecursiveIntent
  <1> HIDE DEF q
  <1>5. /\ ChoiceFits' /\ pending' \in Names \cup {None}
        /\ rows # None => sel' \subseteq Paths(q) /\ (cursor' # None => cursor' \in Rows(q) /\ sel' # {})
        /\ sel' \subseteq sel \cup {e \in Files : e[2] = pending}
    BY <1>1, <1>3, ResolveFits
  <1>6. ListingFits'
    BY <1>1 DEF ExpIInv, ListingFits
  <1>7. OthersFit'
    BY <1>1, <1>5, ExplorerAssumption DEF ExpIInv, OthersFit
  <1>8. Resolved'
    BY <1>1, <1>4, <1>5 DEF Resolved, Paths, Rows
  <1> QED
    BY <1>2, <1>5, <1>6, <1>7, <1>8 DEF ExpIInv

LEMMA ExpStep == ExpIInv /\ [Next]_vars => ExpIInv'
  <1> SUFFICES ASSUME ExpIInv, [Next]_vars PROVE ExpIInv'
    OBVIOUS
  <1>1. CASE \E f \in Folders, n \in Names \cup {None} : Show(f, n)
    BY <1>1, ShowKeeps
  <1>2. CASE at # None /\ Show(None, None)
    BY <1>2, ShowKeeps
  <1>3. CASE \/ Deliver \/ ChooseSort \/ RunSearch \/ ToggleSubfolderSearch \/ SearchAnswers
             \/ \E t \in Texts \cup {None} : TypeSearch(t)
             \/ \E n \in Names : SetPending(n)
    BY <1>3, ListingHandlersKeep
  <1>4. CASE CloseSearch
    BY <1>4, CloseSearchKeeps
  <1>5. CASE \E ix \in 1 .. MaxRows : at # None /\ (Click(ix) \/ RightClick(ix))
    BY <1>5, ClickKeeps
  <1>6. CASE SelectNext \/ SelectPrev
    BY <1>6, StepKeeps
  <1>7. CASE Press \/ SelectAll \/ CollapseSelection \/ SelectFirstIfEmpty \/ EndMarquee
    BY <1>7, GesturesKeep
  <1>8. CASE DragMarquee
    BY <1>8, DragKeeps
  <1>9. CASE Frame
    BY <1>9, FrameKeeps
  <1>10. CASE UNCHANGED vars
    <2>1. UNCHANGED <<at, rows, text, searched, hits, view, viewSig, sel, anchor, cursor, base, pending, burst>>
      BY <1>10 DEF vars, listing, filter, choice
    <2>2. ListingFits' /\ FilterFits' /\ ChoiceFits' /\ OthersFit'
      BY <2>1 DEF ExpIInv, ListingFits, FilterFits, ChoiceFits, OthersFit
    <2>3. Rebuilt' /\ Resolved'
      BY <2>1 DEF ExpIInv, Rebuilt, Resolved, drawn, RecursiveShowing, RecursiveIntent, RowsOrNone,
                  Entries, Displayed, Paths, Rows
    <2> QED
      BY <2>2, <2>3 DEF ExpIInv
  <1> QED
    BY <1>1, <1>2, <1>3, <1>4, <1>5, <1>6, <1>7, <1>8, <1>9, <1>10 DEF Next

\* After every frame over a loaded listing the selection and the cursor are about the
\* rows on display, whatever came, went or moved since (mod.rs, resolve_selection).
THEOREM AlwaysSettled == Spec => []Settled
  <1>1. ExpIInv => Settled
    <2> SUFFICES ASSUME ExpIInv PROVE Settled
      OBVIOUS
    <2>1. TypeOK /\ Resolved
      BY ExpTypes DEF ExpIInv
    <2> QED
      BY <2>1 DEF Settled, Resolved
  <1> QED
    BY <1>1, ExpInit, ExpStep, PTL DEF Spec

\* What a frame lists is of the folder the pane is on, or below it, and passes the text
\* that is typed, however listings, searches and texts overtook one another
\* (search.rs, rebuild_search_view; mod.rs, entries).
THEOREM AlwaysRowsOfThisFolder == Spec => []RowsOfThisFolder
  <1>1. ExpIInv => RowsOfThisFolder
    <2> SUFFICES ASSUME ExpIInv, drawn, NEW e \in Paths(Entries)
                 PROVE  /\ e[1] \in IF RecursiveShowing THEN Below[at] ELSE {at}
                        /\ text # None => e[2] \in Hit[text]
      BY DEF RowsOfThisFolder
    <2>1. CASE RecursiveShowing
      <3>1. hits \in Lists[Found(at, searched)] /\ Entries = hits /\ searched = text
        BY <2>1 DEF ExpIInv, ListingFits, Entries, Displayed, RecursiveShowing, RecursiveIntent
      <3>2. e \in Found(at, searched)
        BY <3>1, SubsetsOfFiles, ListFacts
      <3> QED
        BY <2>1, <3>1, <3>2 DEF Found
    <2>2. CASE ~RecursiveShowing /\ text # None
      <3>1. Entries = view /\ viewSig = <<text, Len(RowsOrNone)>> /\ text \in Texts
        BY <2>2 DEF ExpIInv, Rebuilt, Entries, Displayed, ListingFits
      <3>2. viewSig # None /\ viewSig[1] = text
        <4>1. RowsOrNone \in Lists[Files]
          BY RowsAreList DEF ExpIInv
        <4>2. Len(RowsOrNone) \in Nat
          BY <4>1, ListFacts
        <4> QED
          BY <3>1, <4>2, ExplorerAssumption
      <3> QED
        BY <2>2, <3>1, <3>2 DEF ExpIInv, FilterFits
    <2>3. CASE ~RecursiveShowing /\ text = None
      <3>1. Entries = RowsOrNone /\ RowsOrNone \in Lists[InFolder(at)]
        BY <2>3, RowsAreList DEF ExpIInv, Entries, Displayed
      <3>2. e \in InFolder(at)
        BY <3>1, SubsetsOfFiles, ListFacts
      <3> QED
        BY <2>3, <3>2 DEF InFolder
    <2> QED
      BY <2>1, <2>2, <2>3
  <1> QED
    BY <1>1, ExpInit, ExpStep, PTL DEF Spec

\* A listing, a sort, a search's answer or a frame adds nothing to the selection but the
\* row that a rename, a new folder or a navigation named (mod.rs, resolve_selection).
THEOREM OnlyGesturesEverSelect == Spec => OnlyGesturesSelect
  <1>1. ExpIInv /\ [Next]_vars =>
            [\/ sel' \subseteq sel \cup {e \in Files : e[2] = pending}
             \/ ~(Deliver \/ ChooseSort \/ SearchAnswers \/ Frame \/ CloseSearch)]_vars
    <2> SUFFICES ASSUME ExpIInv, Deliver \/ ChooseSort \/ SearchAnswers \/ Frame \/ CloseSearch
                 PROVE  sel' \subseteq sel \cup {e \in Files : e[2] = pending}
      OBVIOUS
    <2>1. CASE Frame
      BY <2>1, FrameKeeps
    <2>2. CASE Deliver \/ ChooseSort \/ SearchAnswers \/ CloseSearch
      <3>1. UNCHANGED choice
        BY <2>2 DEF Deliver, ChooseSort, SearchAnswers, CloseSearch
      <3> QED
        BY <3>1 DEF choice
    <2> QED
      BY <2>1, <2>2
  <1> QED
    BY <1>1, ExpInit, ExpStep, PTL DEF Spec, OnlyGesturesSelect

-----------------------------------------------------------------------------
(* The sidebar.  Lists as their elements: a highlight follows its remote        *)
(* because the rows, however the pins stand, are the remotes.                  *)

\* q is a list of elements of X, those of S, and names none twice if once holds.
ListOf(q, X, S, once) == q \in Seq(X) /\ Range(q) = S /\ (once => IsInjective(q))

LEMMA RangeIs ==
    ASSUME NEW X, NEW q \in Seq(X)
    PROVE  /\ Len(q) \in Nat /\ DOMAIN q = 1 .. Len(q)
           /\ Range(q) = {q[i] : i \in 1 .. Len(q)} /\ Range(q) \subseteq X
  <1>1. Len(q) \in Nat /\ DOMAIN q = 1 .. Len(q) /\ \A i \in 1 .. Len(q) : q[i] \in X
    BY LenProperties, ElementOfSeq
  <1> QED
    BY <1>1 DEF Range

LEMMA JoinedIs ==
    ASSUME NEW X, NEW a \in Seq(X), NEW z \in Seq(X), NEW once \in BOOLEAN,
           once => IsInjective(a) /\ IsInjective(z) /\ Range(a) \cap Range(z) = {}
    PROVE  ListOf(a \o z, X, Range(a) \cup Range(z), once)
  <1> DEFINE n == Len(a)
             m == Len(z)
             q == a \o z
  <1>1. /\ n \in Nat /\ m \in Nat
        /\ DOMAIN a = 1 .. n /\ Range(a) = {a[i] : i \in 1 .. n}
        /\ DOMAIN z = 1 .. m /\ Range(z) = {z[i] : i \in 1 .. m}
    BY RangeIs, Zenon
  <1>2. /\ q \in Seq(X) /\ Len(q) = n + m
        /\ \A i \in 1 .. n + m : q[i] = IF i <= n THEN a[i] ELSE z[i - n]
    BY ConcatProperties
  <1>3. DOMAIN q = 1 .. n + m /\ Range(q) = {q[i] : i \in 1 .. n + m}
    BY <1>2, RangeIs
  <1> HIDE DEF n, m, q
  <1>4. \A i \in 1 .. n + m :
            \/ i \in 1 .. n /\ q[i] = a[i]
            \/ ~(i <= n) /\ i - n \in 1 .. m /\ q[i] = z[i - n]
    BY <1>1, <1>2
  <1>5. Range(q) = Range(a) \cup Range(z)
    <2>1. \A i \in 1 .. n : i \in 1 .. n + m /\ q[i] = a[i]
      BY <1>1, <1>2
    <2>2. ASSUME NEW i \in 1 .. m PROVE i + n \in 1 .. n + m /\ q[i + n] = z[i]
      <3>1. i + n \in 1 .. n + m /\ ~(i + n <= n) /\ (i + n) - n = i
        BY <1>1
      <3> QED
        BY <1>2, <3>1
    <2> QED
      BY <1>1, <1>3, <1>4, <2>1, <2>2
  <1>6. ASSUME once PROVE IsInjective(q)
    <2> SUFFICES ASSUME NEW i \in 1 .. n + m, NEW j \in 1 .. n + m, q[i] = q[j]
                 PROVE  i = j
      BY <1>3 DEF IsInjective
    <2>1. CASE i \in 1 .. n /\ j \in 1 .. n /\ q[i] = a[i] /\ q[j] = a[j]
      BY <1>1, <1>6, <2>1 DEF IsInjective
    <2>2. CASE i - n \in 1 .. m /\ j - n \in 1 .. m /\ q[i] = z[i - n] /\ q[j] = z[j - n]
      <3>1. i - n = j - n
        BY <1>1, <1>6, <2>2 DEF IsInjective
      <3> QED
        BY <1>1, <3>1
    <2>3. \A k \in 1 .. n, l \in 1 .. m : a[k] # z[l]
      BY <1>1, <1>6
    <2> QED
      BY <1>4, <2>1, <2>2, <2>3
  <1> QED
    BY <1>2, <1>5, <1>6 DEF ListOf, q

LEMMA OneIs == ASSUME NEW X, NEW e \in X PROVE ListOf(<<e>>, X, {e}, TRUE)
  <1>1. <<e>> \in Seq(X) /\ Len(<<e>>) = 1 /\ <<e>>[1] = e
    OBVIOUS
  <1>2. DOMAIN <<e>> = 1 .. 1
    OBVIOUS
  <1> QED
    BY <1>1, <1>2 DEF ListOf, Range, IsInjective

\* The two ends of a list, cut anywhere.
LEMMA CutIs ==
    ASSUME NEW X, NEW q \in Seq(X), IsInjective(q), NEW p \in 1 .. Len(q) + 1
    PROVE  LET a == SubSeq(q, 1, p - 1)
               z == SubSeq(q, p, Len(q))
           IN  /\ a \in Seq(X) /\ IsInjective(a) /\ z \in Seq(X) /\ IsInjective(z)
               /\ Range(a) \cap Range(z) = {} /\ Range(a) \cup Range(z) = Range(q)
  <1> DEFINE n == Len(q)
             a == SubSeq(q, 1, p - 1)
             z == SubSeq(q, p, n)
  <1>1. /\ n \in Nat /\ p \in 1 .. n + 1 /\ DOMAIN q = 1 .. n
        /\ Range(q) = {q[i] : i \in 1 .. n} /\ \A i \in 1 .. n : q[i] \in X
    BY RangeIs, ElementOfSeq
  <1>2. /\ a \in Seq(X) /\ Len(a) = p - 1 /\ \A i \in 1 .. p - 1 : a[i] = q[i]
    <2>1. 1 \in Int /\ p - 1 \in Int /\ \A i \in 1 .. p - 1 : q[i] \in X
      BY <1>1
    <2>2. /\ a \in Seq(X) /\ Len(a) = IF 1 <= p - 1 THEN p - 1 - 1 + 1 ELSE 0
          /\ \A i \in 1 .. p - 1 - 1 + 1 : a[i] = q[1 + i - 1]
      BY <2>1, SubSeqProperties
    <2>3. \A i \in 1 .. p - 1 : i \in 1 .. p - 1 - 1 + 1 /\ 1 + i - 1 = i
      BY <1>1
    <2> QED
      BY <1>1, <2>2, <2>3
  <1>3. /\ z \in Seq(X) /\ Len(z) = n - p + 1 /\ \A i \in 1 .. n - p + 1 : z[i] = q[p + i - 1]
    <2>1. p \in Int /\ n \in Int /\ \A i \in p .. n : q[i] \in X
      BY <1>1
    <2>2. /\ z \in Seq(X) /\ Len(z) = IF p <= n THEN n - p + 1 ELSE 0
          /\ \A i \in 1 .. n - p + 1 : z[i] = q[p + i - 1]
      BY <2>1, SubSeqProperties
    <2> QED
      BY <1>1, <2>2
  <1> HIDE DEF n, a, z
  <1>4. DOMAIN a = 1 .. p - 1 /\ Range(a) = {q[i] : i \in 1 .. p - 1}
    <2>1. DOMAIN a = 1 .. p - 1 /\ Range(a) = {a[i] : i \in 1 .. p - 1}
      BY <1>2, RangeIs
    <2> QED
      BY <1>2, <2>1
  <1>5. DOMAIN z = 1 .. n - p + 1 /\ Range(z) = {q[p + i - 1] : i \in 1 .. n - p + 1}
    <2>1. DOMAIN z = 1 .. n - p + 1 /\ Range(z) = {z[i] : i \in 1 .. n - p + 1}
      BY <1>3, RangeIs
    <2> QED
      BY <1>3, <2>1
  <1>6. \A i \in 1 .. p - 1 : i \in 1 .. n
    BY <1>1
  <1>7. \A i \in 1 .. n - p + 1 : p + i - 1 \in 1 .. n /\ p + i - 1 \notin 1 .. p - 1
    BY <1>1
  <1>8. \A i, j \in 1 .. n : q[i] = q[j] => i = j
    BY <1>1 DEF IsInjective
  <1>9. IsInjective(a)
    BY <1>2, <1>4, <1>6, <1>8 DEF IsInjective
  <1>10. IsInjective(z)
    <2> SUFFICES ASSUME NEW i \in 1 .. n - p + 1, NEW j \in 1 .. n - p + 1, z[i] = z[j]
                 PROVE  i = j
      BY <1>5 DEF IsInjective
    <2>1. p + i - 1 = p + j - 1
      BY <1>3, <1>7, <1>8
    <2> QED
      BY <1>1, <2>1
  <1>11. Range(a) \cap Range(z) = {}
    BY <1>4, <1>5, <1>6, <1>7, <1>8
  <1>12. Range(a) \cup Range(z) = Range(q)
    <2>1. ASSUME NEW i \in 1 .. n, i \notin 1 .. p - 1
          PROVE  \E j \in 1 .. n - p + 1 : p + j - 1 = i
      <3>1. i - p + 1 \in 1 .. n - p + 1 /\ p + (i - p + 1) - 1 = i
        BY <1>1, <2>1
      <3> QED
        BY <3>1
    <2>2. \A i \in 1 .. n : q[i] \in Range(a) \cup Range(z)
      BY <1>4, <1>5, <2>1
    <2>3. Range(a) \subseteq Range(q) /\ Range(z) \subseteq Range(q)
      BY <1>1, <1>4, <1>5, <1>6, <1>7
    <2> QED
      BY <1>1, <2>2, <2>3
  <1> QED
    BY <1>2, <1>3, <1>9, <1>10, <1>11, <1>12 DEF a, z, n

LEMMA PutInIs ==
    ASSUME NEW X, NEW q \in Seq(X), IsInjective(q), NEW e \in X \ Range(q),
           NEW p \in 1 .. Len(q) + 1
    PROVE  ListOf(InsertAt(q, p, e), X, Range(q) \cup {e}, TRUE)
  <1> DEFINE a == SubSeq(q, 1, p - 1)
             z == SubSeq(q, p, Len(q))
             b == a \o <<e>>
  <1>1. /\ a \in Seq(X) /\ IsInjective(a) /\ z \in Seq(X) /\ IsInjective(z)
        /\ Range(a) \cap Range(z) = {} /\ Range(a) \cup Range(z) = Range(q)
    BY CutIs, Zenon
  <1>2. InsertAt(q, p, e) = b \o z
    BY DEF InsertAt
  <1>3. <<e>> \in Seq(X) /\ Range(<<e>>) = {e} /\ IsInjective(<<e>>)
    BY OneIs DEF ListOf
  <1> HIDE DEF a, z
  <1>4. ListOf(b, X, Range(a) \cup Range(<<e>>), TRUE)
    <2>1. Range(a) \cap Range(<<e>>) = {}
      BY <1>1, <1>3
    <2> QED
      BY <1>1, <1>3, <2>1, JoinedIs
  <1>5. b \in Seq(X) /\ IsInjective(b) /\ Range(b) = Range(a) \cup {e}
    BY <1>3, <1>4 DEF ListOf
  <1> HIDE DEF b
  <1>6. ListOf(b \o z, X, Range(b) \cup Range(z), TRUE)
    <2>1. Range(b) \cap Range(z) = {}
      BY <1>1, <1>5
    <2> QED
      BY <1>1, <1>5, <2>1, JoinedIs
  <1>7. Range(b) \cup Range(z) = Range(q) \cup {e}
    BY <1>1, <1>5
  <1> QED
    BY <1>2, <1>6, <1>7

\* Append as the last place to insert at.
LEMMA PutLastIs ==
    ASSUME NEW X, NEW q \in Seq(X), IsInjective(q), NEW e \in X \ Range(q)
    PROVE  ListOf(Append(q, e), X, Range(q) \cup {e}, TRUE)
  <1>1. Append(q, e) = q \o <<e>>
    OBVIOUS
  <1>2. <<e>> \in Seq(X) /\ Range(<<e>>) = {e} /\ IsInjective(<<e>>)
    BY OneIs DEF ListOf
  <1>3. ListOf(q \o <<e>>, X, Range(q) \cup Range(<<e>>), TRUE)
    <2>1. Range(q) \cap Range(<<e>>) = {}
      BY <1>2
    <2> QED
      BY <1>2, <2>1, JoinedIs
  <1> QED
    BY <1>1, <1>2, <1>3

LEMMA SwappedIs ==
    ASSUME NEW X, NEW q \in Seq(X), IsInjective(q), NEW i \in DOMAIN q, NEW j \in DOMAIN q
    PROVE  ListOf([q EXCEPT ![i] = q[j], ![j] = q[i]], X, Range(q), TRUE)
  <1> DEFINE r == [q EXCEPT ![i] = q[j], ![j] = q[i]]
             n == Len(q)
  <1>1. /\ n \in Nat /\ DOMAIN q = 1 .. n /\ Range(q) = {q[k] : k \in 1 .. n}
        /\ q \in [1 .. n -> X]
    BY RangeIs, LenProperties
  <1> HIDE DEF n
  <1>2. /\ r \in [1 .. n -> X]
        /\ \A k \in 1 .. n : r[k] = IF k = j THEN q[i] ELSE IF k = i THEN q[j] ELSE q[k]
    BY <1>1
  <1> HIDE DEF r
  <1>3. r \in Seq(X) /\ DOMAIN r = 1 .. n
    BY <1>1, <1>2
  <1>4. \A k, l \in 1 .. n : r[k] = r[l] => k = l
    BY <1>1, <1>2 DEF IsInjective
  <1>5. \A k \in 1 .. n : \E l \in 1 .. n : r[l] = q[k]
    BY <1>1, <1>2
  <1>6. \A k \in 1 .. n : \E l \in 1 .. n : r[k] = q[l]
    BY <1>1, <1>2
  <1>7. Range(r) = Range(q)
    <2>1. Range(r) = {r[k] : k \in 1 .. n}
      BY <1>3 DEF Range
    <2> QED
      BY <1>1, <1>5, <1>6, <2>1
  <1> QED
    BY <1>3, <1>4, <1>7 DEF ListOf, IsInjective, r

LEMMA OrderedIs ==
    ASSUME NEW rs \in Seq(Known), NEW ps \in Seq(Known)
    PROVE  ListOf(Ordered(rs, ps), Known, Range(rs), FALSE)
  <1>1. ASSUME NEW q \in Seq(Known), NEW S
        PROVE  KeepOnly(q, S) \in Seq(Known) /\ Range(KeepOnly(q, S)) = Range(q) \cap S
    BY KeepOnlyIs
  <1>2. /\ KeepOnly(ps, Range(rs)) \in Seq(Known)
        /\ Range(KeepOnly(ps, Range(rs))) = Range(ps) \cap Range(rs)
        /\ KeepOnly(rs, Range(rs) \ Range(ps)) \in Seq(Known)
        /\ Range(KeepOnly(rs, Range(rs) \ Range(ps))) = Range(rs) \cap (Range(rs) \ Range(ps))
    BY <1>1, Zenon
  <1>3. ListOf(Ordered(rs, ps), Known,
               (Range(ps) \cap Range(rs)) \cup (Range(rs) \cap (Range(rs) \ Range(ps))), FALSE)
    BY <1>2, JoinedIs DEF Ordered
  <1>4. (Range(ps) \cap Range(rs)) \cup (Range(rs) \cap (Range(rs) \ Range(ps))) = Range(rs)
    OBVIOUS
  <1> QED
    BY <1>3, <1>4

RemIInv ==
    /\ config \cup deleting \cup deleted \subseteq Known
    /\ remotes \in Seq(Known)
    /\ pinned \in Seq(Known) /\ IsInjective(pinned)
    /\ answers \subseteq Seq(Known) /\ IsFiniteSet(answers)
    /\ mark \in Nat \ {0}
    /\ asked \in 0 .. MaxLoads

LEMMA RemInitHolds == RemInit => RemIInv
  <1> SUFFICES ASSUME RemInit PROVE RemIInv
    OBVIOUS
  <1>1. Cardinality(Known) \in Nat
    BY RemotesAssumption, FS_CardinalityType
  <1>2. PICK n \in 0 .. Cardinality(Known) : pinned \in [1 .. n -> Known] /\ IsInjective(pinned)
    BY DEF RemInit, Distinct
  <1>3. pinned \in Seq(Known)
    BY <1>1, <1>2
  <1>4. <<>> \in Seq(Known) /\ IsFiniteSet({})
    BY EmptySeq, FS_EmptySet
  <1> QED
    BY <1>2, <1>3, <1>4, RemotesAssumption DEF RemInit, RemIInv

\* What a change of the pins does to the highlight.
LEMMA SelectedIs ==
    ASSUME RemIInv, remotes' = remotes, pinned' \in Seq(Known), NEW n, SelectRemote(n)
    PROVE  /\ mark' \in Nat \ {0}
           /\ n \in Range(remotes) => Marked' = n
  <1> DEFINE o == Ordered(remotes, pinned')
  <1>1. ListOf(o, Known, Range(remotes), FALSE)
    BY OrderedIs DEF RemIInv
  <1>2. DOMAIN o = 1 .. Len(o) /\ Len(o) \in Nat /\ Range(o) = Range(remotes)
        /\ Range(o) = {o[i] : i \in 1 .. Len(o)}
    BY <1>1, RangeIs DEF ListOf
  <1>3. mark' = IF n \in Range(o) THEN CHOOSE i \in DOMAIN o : o[i] = n ELSE mark
    BY DEF SelectRemote
  <1>4. Marked' = IF mark' \in DOMAIN o THEN o[mark'] ELSE None
    BY DEF Marked
  <1> HIDE DEF o
  <1>5. CASE n \in Range(o)
    <2>1. \E i \in DOMAIN o : o[i] = n
      BY <1>2, <1>5
    <2>2. mark' \in DOMAIN o /\ o[mark'] = n
      BY <1>3, <1>5, <2>1
    <2> QED
      BY <1>2, <1>4, <2>2
  <1>6. CASE n \notin Range(o)
    BY <1>2, <1>3, <1>6 DEF RemIInv
  <1> QED
    BY <1>5, <1>6

\* A change of the pins keeps them distinct, and leaves the highlight on its remote.
LEMMA RepinHolds ==
    ASSUME RemIInv, NEW ps \in Seq(Known), IsInjective(ps), Repin(ps)
    PROVE  RemIInv' /\ (Marked # None => Marked' = Marked)
  <1>1. /\ pinned' = ps /\ SelectRemote(Marked)
        /\ UNCHANGED <<config, remotes, asked, answers, deleting, deleted>>
    BY DEF Repin, lists
  <1>2. mark' \in Nat \ {0} /\ (Marked \in Range(remotes) => Marked' = Marked)
    BY <1>1, SelectedIs
  <1>3. Marked # None => Marked \in Range(remotes)
    <2> DEFINE o == Ordered(remotes, pinned)
    <2>1. ListOf(o, Known, Range(remotes), FALSE)
      BY OrderedIs DEF RemIInv
    <2>2. Marked = IF mark \in DOMAIN o THEN o[mark] ELSE None
      BY DEF Marked
    <2> HIDE DEF o
    <2> QED
      BY <2>1, <2>2 DEF ListOf, Range
  <1> QED
    BY <1>1, <1>2, <1>3 DEF RemIInv

LEMMA PinsMove ==
    ASSUME RemIInv, TogglePin \/ ReorderPinned \/ MovePinned
    PROVE  RemIInv' /\ (Marked # None => Marked' = Marked)
  <1>1. /\ pinned \in Seq(Known) /\ IsInjective(pinned) /\ Range(remotes) \subseteq Known
        /\ Range(pinned) \subseteq Known
    BY RangeIs DEF RemIInv
  <1>2. ASSUME NEW n PROVE LET k == KeepOnly(pinned, Range(pinned) \ {n})
                           IN  k \in Seq(Known) /\ IsInjective(k) /\ n \notin Range(k)
    <2>1. LET k == KeepOnly(pinned, Range(pinned) \ {n})
          IN  /\ k \in Seq(Known) /\ Range(k) = Range(pinned) \cap (Range(pinned) \ {n})
              /\ IsInjective(pinned) => IsInjective(k)
      BY <1>1, KeepOnlyIs, Zenon
    <2> QED
      BY <1>1, <2>1
  <1>3. CASE TogglePin
    <2>1. PICK n \in Known :
              Repin(IF n \in Range(pinned) THEN KeepOnly(pinned, Range(pinned) \ {n})
                    ELSE Append(pinned, n))
      BY <1>3 DEF TogglePin
    <2>2. CASE n \in Range(pinned)
      BY <1>2, <2>1, <2>2, RepinHolds
    <2>3. CASE n \notin Range(pinned)
      <3>1. ListOf(Append(pinned, n), Known, Range(pinned) \cup {n}, TRUE)
        BY <1>1, <2>3, PutLastIs
      <3> QED
        BY <2>1, <2>3, <3>1, RepinHolds DEF ListOf
    <2> QED
      BY <2>2, <2>3
  <1>4. CASE ReorderPinned
    <2>1. PICK from \in Range(pinned), before \in Range(remotes) :
              LET rest == KeepOnly(pinned, Range(pinned) \ {from})
                  ip == IF before \in Range(rest) THEN CHOOSE i \in DOMAIN rest : rest[i] = before
                        ELSE Len(rest) + 1
              IN  Repin(InsertAt(rest, ip, from))
      BY <1>4 DEF ReorderPinned
    <2> DEFINE rest == KeepOnly(pinned, Range(pinned) \ {from})
               ip == IF before \in Range(rest) THEN CHOOSE i \in DOMAIN rest : rest[i] = before
                     ELSE Len(rest) + 1
    <2>2. rest \in Seq(Known) /\ IsInjective(rest) /\ from \notin Range(rest)
      BY <1>2
    <2>3. Repin(InsertAt(rest, ip, from))
      BY <2>1
    <2> HIDE DEF rest
    <2>4. DOMAIN rest = 1 .. Len(rest) /\ Len(rest) \in Nat
      BY <2>2, RangeIs
    <2>5. ip \in 1 .. Len(rest) + 1
      <3>1. CASE before \in Range(rest)
        <4>1. \E i \in DOMAIN rest : rest[i] = before
          BY <3>1 DEF Range
        <4>2. ip \in DOMAIN rest
          BY <3>1, <4>1
        <4> QED
          BY <2>4, <4>2
      <3>2. CASE before \notin Range(rest)
        BY <2>4, <3>2
      <3> QED
        BY <3>1, <3>2
    <2> HIDE DEF ip
    <2>6. ListOf(InsertAt(rest, ip, from), Known, Range(rest) \cup {from}, TRUE)
      BY <1>1, <2>2, <2>5, PutInIs
    <2> QED
      BY <2>3, <2>6, RepinHolds DEF ListOf
  <1>5. CASE MovePinned
    <2>1. PICK i \in DOMAIN pinned, j \in DOMAIN pinned :
              Repin([pinned EXCEPT ![i] = pinned[j], ![j] = pinned[i]])
      BY <1>5 DEF MovePinned
    <2>2. ListOf([pinned EXCEPT ![i] = pinned[j], ![j] = pinned[i]], Known, Range(pinned), TRUE)
      BY <1>1, SwappedIs
    <2> QED
      BY <2>1, <2>2, RepinHolds DEF ListOf
  <1> QED
    BY <1>3, <1>4, <1>5

LEMMA LoadsHold ==
    ASSUME RemIInv, LoadRemotes \/ LoadAnswers \/ LoadFails \/ LoadSettles
    PROVE  RemIInv' /\ pinned' = pinned
  <1>1. Cardinality(answers) \in Nat /\ MaxLoads \in Nat
    BY RemotesAssumption, FS_CardinalityType DEF RemIInv
  <1>2. CASE LoadRemotes
    <2>1. asked' \in 0 .. MaxLoads
      BY <1>1, <1>2 DEF LoadRemotes, Load, RemIInv
    <2> QED
      BY <1>2, <2>1 DEF LoadRemotes, RemIInv
  <1>3. CASE LoadAnswers
    <2>1. PICK a \in Sorted(config) : answers' = answers \cup {a}
      BY <1>3 DEF LoadAnswers
    <2>2. IsFiniteSet(config) /\ config \subseteq Known
      BY RemotesAssumption, FS_Subset DEF RemIInv
    <2>3. a \in Seq(Known)
      <3>1. Cardinality(config) \in Nat
        BY <2>2, FS_CardinalityType
      <3>2. a \in [1 .. Cardinality(config) -> config]
        BY DEF Sorted
      <3>3. a \in [1 .. Cardinality(config) -> Known]
        BY <2>2, <3>2
      <3> QED
        BY <3>1, <3>3
    <2>4. IsFiniteSet(answers')
      BY <2>1, FS_AddElement DEF RemIInv
    <2>5. asked' \in 0 .. MaxLoads
      BY <1>1, <1>3 DEF LoadAnswers, RemIInv
    <2> QED
      BY <1>3, <2>1, <2>3, <2>4, <2>5 DEF LoadAnswers, RemIInv
  <1>4. CASE LoadFails
    <2>1. asked' \in 0 .. MaxLoads
      BY <1>1, <1>4 DEF LoadFails, RemIInv
    <2> QED
      BY <1>4, <2>1 DEF LoadFails, RemIInv
  <1>5. CASE LoadSettles
    <2>1. PICK a \in answers : remotes' = a /\ answers' = answers \ {a}
      BY <1>5 DEF LoadSettles
    <2>2. IsFiniteSet(answers')
      BY <2>1, FS_Subset DEF RemIInv
    <2> QED
      BY <1>5, <2>1, <2>2 DEF LoadSettles, RemIInv
  <1> QED
    BY <1>2, <1>3, <1>4, <1>5

LEMMA SidebarMoves ==
    ASSUME RemIInv,
           SelectNextRemote \/ SelectPrevRemote \/ OpenByName \/ ClickRow \/ GoHomeFromRemote
    PROVE  RemIInv' /\ pinned' = pinned
  <1>1. ASSUME NEW n, OpenRemote(n) PROVE RemIInv' /\ pinned' = pinned
    <2>1. UNCHANGED <<config, remotes, asked, answers, deleting, deleted, pinned>>
          /\ SelectRemote(n)
      BY <1>1 DEF OpenRemote, lists
    <2>2. mark' \in Nat \ {0}
      BY <2>1, SelectedIs DEF RemIInv
    <2> QED
      BY <2>1, <2>2 DEF RemIInv
  <1>2. CASE SelectNextRemote
    BY <1>2 DEF SelectNextRemote, lists, RemIInv
  <1>3. CASE SelectPrevRemote
    BY <1>3 DEF SelectPrevRemote, lists, RemIInv
  <1>4. CASE OpenByName
    BY <1>1, <1>4 DEF OpenByName
  <1>5. CASE ClickRow
    BY <1>1, <1>5 DEF ClickRow, OpenRow
  <1>6. CASE GoHomeFromRemote
    BY <1>6 DEF GoHomeFromRemote, lists, RemIInv
  <1> QED
    BY <1>2, <1>3, <1>4, <1>5, <1>6

LEMMA DeletionHolds ==
    ASSUME RemIInv, DeleteRemote \/ DeleteAnswers \/ DeleteSettles
    PROVE  RemIInv' /\ (pinned' = pinned \/ deleted' # deleted)
  <1>1. CASE DeleteRemote
    <2>1. Range(remotes) \subseteq Known
      BY RangeIs DEF RemIInv
    <2> QED
      BY <1>1, <2>1 DEF DeleteRemote, RemIInv
  <1>2. CASE DeleteAnswers
    BY <1>2 DEF DeleteAnswers, RemIInv
  <1>3. CASE DeleteSettles
    <2>1. PICK n \in deleted : /\ deleted' = deleted \ {n}
                               /\ pinned' = KeepOnly(pinned, Range(pinned) \ {n})
      BY <1>3 DEF DeleteSettles
    <2>2. pinned' \in Seq(Known) /\ IsInjective(pinned')
      <3>1. LET k == KeepOnly(pinned, Range(pinned) \ {n})
            IN  k \in Seq(Known) /\ (IsInjective(pinned) => IsInjective(k))
        BY KeepOnlyIs DEF RemIInv
      <3> QED
        BY <2>1, <3>1 DEF RemIInv
    <2>3. Cardinality(answers) \in Nat /\ MaxLoads \in Nat
      BY RemotesAssumption, FS_CardinalityType DEF RemIInv
    <2>4. asked' \in 0 .. MaxLoads
      BY <1>3, <2>3 DEF DeleteSettles, Load, RemIInv
    <2> QED
      BY <1>3, <2>1, <2>2, <2>4 DEF DeleteSettles, RemIInv
  <1> QED
    BY <1>1, <1>2, <1>3

LEMMA RemStepHolds ==
    ASSUME RemIInv, [RemNext]_remVars
    PROVE  /\ RemIInv'
           /\ pinned' # pinned /\ deleted' = deleted /\ Marked # None => Marked' = Marked
  <1>1. CASE UNCHANGED remVars
    BY <1>1 DEF remVars, RemIInv
  <1>2. CASE TogglePin \/ ReorderPinned \/ MovePinned
    BY <1>2, PinsMove
  <1>3. CASE LoadRemotes \/ LoadAnswers \/ LoadFails \/ LoadSettles
    BY <1>3, LoadsHold
  <1>4. CASE SelectNextRemote \/ SelectPrevRemote \/ OpenByName \/ ClickRow \/ GoHomeFromRemote
    BY <1>4, SidebarMoves
  <1>5. CASE DeleteRemote \/ DeleteAnswers \/ DeleteSettles
    BY <1>5, DeletionHolds
  <1> QED
    BY <1>1, <1>2, <1>3, <1>4, <1>5 DEF RemNext

LEMMA PinsFit == RemIInv => PinsHold
  BY RangeIs DEF RemIInv, PinsHold

\* Whatever overlapping loads, pins and deletions do, no remote is pinned twice and
\* the highlight is a row number (ui/src/workspace/remotes.rs, ui/src/sidebar).
THEOREM PinsAlwaysHold == RemSpec => []PinsHold
  <1>1. RemIInv /\ [RemNext]_remVars => RemIInv'
    BY RemStepHolds
  <1> QED
    BY <1>1, RemInitHolds, PinsFit, PTL DEF RemSpec

\* Pinning, unpinning and reordering move rows under the highlight; it stays on the
\* remote it was on, whatever list of remotes is loaded (remotes.rs, select_by_name).
THEOREM HighlightAlwaysFollows == RemSpec => HighlightFollows
  <1>1. RemIInv /\ [RemNext]_remVars => RemIInv'
    BY RemStepHolds
  <1>2. RemIInv /\ [RemNext]_remVars =>
            [pinned' # pinned /\ deleted' = deleted /\ Marked # None => Marked' = Marked]_remVars
    BY RemStepHolds
  <1> QED
    BY <1>1, <1>2, RemInitHolds, PTL DEF RemSpec, HighlightFollows

-----------------------------------------------------------------------------
(* The Tasks panel.  The list as the set of its rows: numbers and operations    *)
(* are used once, what may still run has not succeeded, and the one row a menu  *)
(* acts on is as finished as it was when the menu was opened.                   *)

TaskRows == [id : Nat, op : Nat, given : BOOLEAN, done : BOOLEAN, error : BOOLEAN]

\* The rows R, of which next numbers were handed out, beside the successes won.
TasksFit(R, next, won) ==
    /\ R \subseteq TaskRows
    /\ \A t \in R : t.id < next /\ t.op < next
    /\ \A t, u \in R : t.id = u.id \/ t.op = u.op => t = u
    /\ \A t \in R : (t.error => t.done) /\ (~t.done \/ t.error => t.op \notin won)

MenuFits ==
    taskMenu # None =>
        /\ taskMenu.ids \subseteq 0 .. taskSeq - 1
        /\ taskMenu.one /\ "retry" \in taskMenu.items => Sole(taskMenu.ids) \subseteq Failed
        /\ taskMenu.one /\ "remove" \in taskMenu.items =>
               Sole(taskMenu.ids) \subseteq DoneRows(tasks)

TskIInv ==
    /\ tasks \in Seq(TaskRows) /\ taskSeq \in Nat
    /\ TasksFit(RowsOf(tasks), taskSeq, succeeded)
    /\ succeeded \subseteq 0 .. taskSeq - 1
    /\ picked \subseteq 0 .. taskSeq - 1
    /\ MenuFits

LEMMA TskInitHolds == TaskInit => TskIInv
  <1> SUFFICES ASSUME TaskInit PROVE TskIInv
    OBVIOUS
  <1>1. <<>> \in Seq(TaskRows) /\ DOMAIN <<>> = {}
    OBVIOUS
  <1>2. RowsOf(tasks) = {}
    BY <1>1 DEF TaskInit, RowsOf, ToSet
  <1> QED
    BY <1>1, <1>2 DEF TaskInit, TskIInv, TasksFit, MenuFits

\* The rows of a list are those of a list without some, and those beside a new one.
LEMMA RowsLeft ==
    ASSUME NEW q \in Seq(TaskRows), NEW ids
    PROVE  /\ WithoutRows(q, ids) \in Seq(TaskRows)
           /\ RowsOf(WithoutRows(q, ids)) = {t \in RowsOf(q) : t.id \notin ids}
  <1> DEFINE S == {t \in RowsOf(q) : t.id \notin ids}
             k == KeepOnly(q, S)
  <1>1. k \in Seq(TaskRows) /\ Range(k) = Range(q) \cap S
    <2> HIDE DEF S
    <2> QED
      BY KeepOnlyIs
  <1>2. RowsOf(q) = Range(q) /\ RowsOf(k) = Range(k)
    BY DEF RowsOf, ToSet, Range
  <1>3. WithoutRows(q, ids) = k
    BY DEF WithoutRows
  <1> HIDE DEF k
  <1> QED
    BY <1>1, <1>2, <1>3

LEMMA RowsAppended ==
    ASSUME NEW q \in Seq(TaskRows), NEW t \in TaskRows
    PROVE  Append(q, t) \in Seq(TaskRows) /\ RowsOf(Append(q, t)) = RowsOf(q) \cup {t}
  <1> DEFINE n == Len(q)
             r == Append(q, t)
  <1>1. n \in Nat /\ DOMAIN q = 1 .. n
    BY LenProperties
  <1>2. /\ r \in Seq(TaskRows) /\ Len(r) = n + 1
        /\ \A i \in 1 .. n : r[i] = q[i]
        /\ r[n + 1] = t
    BY AppendProperties
  <1>3. DOMAIN r = 1 .. n + 1
    BY <1>2, LenProperties
  <1> HIDE DEF n, r
  <1>4. \A i : i \in 1 .. n + 1 <=> i \in 1 .. n \/ i = n + 1
    BY <1>1
  <1>5. RowsOf(r) = RowsOf(q) \cup {t}
    BY <1>1, <1>2, <1>3, <1>4 DEF RowsOf, ToSet
  <1> QED
    BY <1>2, <1>5 DEF r

\* A new row goes last, and only finished rows go to make room.
LEMMA EnqueuedIs ==
    ASSUME NEW q \in Seq(TaskRows), NEW next \in Nat, NEW op \in Nat,
           \A t, u \in RowsOf(q) \cup {NewRow(next, op)} : t.id = u.id => t = u
    PROVE  LET new == NewRow(next, op)
               r == Enqueued([list |-> q, seq |-> next], op)
           IN  /\ r = [list |-> r.list, seq |-> next + 1]
               /\ r.list \in Seq(TaskRows)
               /\ RowsOf(r.list) \subseteq RowsOf(q) \cup {new}
               /\ \A t \in RowsOf(q) \cup {new} : ~t.done => t \in RowsOf(r.list)
  <1> DEFINE new == NewRow(next, op)
             a == Append(q, new)
             ids == {i \in DoneRows(a) :
                 Cardinality({j \in DoneRows(a) : j <= i}) + KeptFinished
                     <= Cardinality(DoneRows(a))}
             l == WithoutRows(a, ids)
  <1>1. new \in TaskRows
    BY DEF NewRow, TaskRows
  <1>2. a \in Seq(TaskRows) /\ RowsOf(a) = RowsOf(q) \cup {new}
    BY <1>1, RowsAppended
  <1>3. Enqueued([list |-> q, seq |-> next], op) = [list |-> l, seq |-> next + 1]
    BY DEF Enqueued, TrimHistory
  <1>4. ids \subseteq DoneRows(a)
    OBVIOUS
  <1> HIDE DEF ids, a, new
  <1>5. l \in Seq(TaskRows) /\ RowsOf(l) = {t \in RowsOf(a) : t.id \notin ids}
    BY <1>2, RowsLeft
  <1>6. ASSUME NEW t \in RowsOf(a), ~t.done PROVE t.id \notin ids
    <2>1. \A u \in RowsOf(a) : u.id = t.id => u = t
      BY <1>2 DEF new
    <2>2. t.id \notin DoneRows(a)
      BY <1>6, <2>1 DEF DoneRows, RowsOf
    <2> QED
      BY <1>4, <2>2
  <1> HIDE DEF l
  <1>7. RowsOf(l) \subseteq RowsOf(q) \cup {new}
    BY <1>2, <1>5
  <1>8. \A t \in RowsOf(q) \cup {new} : ~t.done => t \in RowsOf(l)
    BY <1>2, <1>5, <1>6
  <1> QED
    BY <1>3, <1>5, <1>7, <1>8 DEF new

-----------------------------------------------------------------------------
(* Retries.  Each takes the place of a failed row of the list there was before; *)
(* nothing else is taken off but finished rows.                                 *)

\* What a list has become since it was the rows R with next free number, by retries of ids.
RetriesFit(q, next, R, from, ids) ==
    /\ q \in Seq(TaskRows) /\ next \in Nat /\ from <= next
    /\ \A t, u \in RowsOf(q) : t.id = u.id \/ t.op = u.op => t = u
    /\ \A t \in RowsOf(q) :
           \/ t \in R
           \/ /\ from <= t.id /\ t.id < next /\ ~t.done /\ ~t.error
              /\ \E u \in R : u.id \in ids /\ u.op = t.op
    /\ \A u \in R : ~u.done => u \in RowsOf(q)

StillFits(now, R, from, ids) ==
    \E q, next : now = [list |-> q, seq |-> next] /\ RetriesFit(q, next, R, from, ids)

\* Numbers of finished rows of R, and of rows that are gone.
Retryable(R, from, ids) ==
    /\ R \subseteq TaskRows /\ \A t \in R : t.id < from
    /\ \A t \in R : t.id \in ids => t.done

LEMMA RetriedIs ==
    ASSUME NEW q, NEW next, NEW R, NEW from, from \in Nat, NEW ids, NEW n, n \in ids,
           n < from, n \in Nat, Retryable(R, from, ids), RetriesFit(q, next, R, from, ids)
    PROVE  StillFits(Retried([list |-> q, seq |-> next], n), R, from, ids)
  <1> DEFINE now == [list |-> q, seq |-> next]
  <1>1. now.list = q /\ now = [now EXCEPT !.list = q]
    OBVIOUS
  <1>2. CASE n \notin IdsOf(q)
    <2>1. Retried(now, n) = now
      BY <1>1, <1>2 DEF Retried
    <2> QED
      BY <2>1 DEF StillFits
  <1>3. CASE n \in IdsOf(q)
    <2>1. \E t \in RowsOf(q) : t.id = n
      BY <1>3 DEF IdsOf, RowsOf
    <2> DEFINE row == CHOOSE t \in RowsOf(q) : t.id = n
               k == WithoutRows(q, {n})
    <2>2. row \in RowsOf(q) /\ row.id = n
      BY <2>1
    <2>3. Retried(now, n) = Enqueued([list |-> k, seq |-> next], row.op)
      <3>1. [now EXCEPT !.list = k] = [list |-> k, seq |-> next]
        OBVIOUS
      <3> HIDE DEF k, row
      <3>2. Retried(now, n) = Enqueued([now EXCEPT !.list = k], row.op)
        BY <1>1, <1>3 DEF Retried, k, row
      <3> QED
        BY <3>1, <3>2
    <2> HIDE DEF row, now
    <2>4. /\ q \in Seq(TaskRows) /\ next \in Nat /\ from <= next
          /\ \A t, u \in RowsOf(q) : t.id = u.id \/ t.op = u.op => t = u
          /\ \A t \in RowsOf(q) :
                 \/ t \in R
                 \/ /\ from <= t.id /\ t.id < next /\ ~t.done /\ ~t.error
                    /\ \E u \in R : u.id \in ids /\ u.op = t.op
          /\ \A u \in R : ~u.done => u \in RowsOf(q)
      BY DEF RetriesFit
    <2>r. R \subseteq TaskRows /\ \A t \in R : t.id < from /\ (t.id \in ids => t.done)
      BY DEF Retryable
    <2>5. row \in R /\ row.done /\ row.op \in Nat
      <3>1. row \in R
        BY <2>2, <2>4
      <3> QED
        BY <2>2, <2>r, <3>1 DEF TaskRows
    <2>6. k \in Seq(TaskRows) /\ RowsOf(k) = {t \in RowsOf(q) : t.id # n}
      BY <2>4, RowsLeft
    <2> HIDE DEF k
    <2> DEFINE new == NewRow(next, row.op)
    <2>7. /\ new.id = next /\ new.op = row.op /\ ~new.done /\ ~new.error
      BY DEF NewRow
    <2> HIDE DEF new
    <2>8. \A t \in RowsOf(k) : t.id < next /\ t.op # row.op
      <3> SUFFICES ASSUME NEW t \in RowsOf(k) PROVE t.id < next /\ t.op # row.op
        OBVIOUS
      <3>1. t \in RowsOf(q) /\ t.id # n
        BY <2>6
      <3>2. t.op # row.op
        BY <2>2, <2>4, <3>1
      <3>3. t \in R => t.id \in Nat /\ t.id < from
        BY <2>r DEF TaskRows
      <3>4. t.id < next
        BY <2>4, <3>1, <3>3
      <3> QED
        BY <3>2, <3>4
    <2>9. \A t, u \in RowsOf(k) \cup {new} : t.id = u.id \/ t.op = u.op => t = u
      <3>1. \A t \in RowsOf(k) : t.id # new.id /\ t.op # new.op
        BY <2>4, <2>7, <2>8
      <3>2. \A t, u \in RowsOf(k) : t.id = u.id \/ t.op = u.op => t = u
        BY <2>4, <2>6
      <3> QED
        BY <3>1, <3>2
    <2> DEFINE r == Enqueued([list |-> k, seq |-> next], row.op)
               l == r.list
    <2>10. /\ r = [list |-> l, seq |-> next + 1]
           /\ l \in Seq(TaskRows)
           /\ RowsOf(l) \subseteq RowsOf(k) \cup {new}
           /\ \A t \in RowsOf(k) \cup {new} : ~t.done => t \in RowsOf(l)
      BY <2>4, <2>5, <2>6, <2>9, EnqueuedIs DEF new
    <2> HIDE DEF r, l
    <2>11. RetriesFit(l, next + 1, R, from, ids)
      <3>1. next + 1 \in Nat /\ from <= next + 1 /\ from <= next /\ next < next + 1
        BY <2>4
      <3>2. \A t, u \in RowsOf(l) : t.id = u.id \/ t.op = u.op => t = u
        BY <2>9, <2>10
      <3>3. ASSUME NEW t \in RowsOf(l)
            PROVE  \/ t \in R
                   \/ /\ from <= t.id /\ t.id < next + 1 /\ ~t.done /\ ~t.error
                      /\ \E u \in R : u.id \in ids /\ u.op = t.op
        <4>1. CASE t = new
          BY <2>2, <2>5, <2>7, <3>1, <4>1
        <4>2. CASE t \in RowsOf(k)
          <5>1. t \in RowsOf(q) /\ t \in TaskRows
            <6>1. RowsOf(k) = Range(k)
              BY DEF RowsOf, ToSet, Range
            <6> QED
              BY <2>6, <4>2, <6>1, RangeIs
          <5>2. t.id < next => t.id < next + 1
            BY <2>4, <5>1 DEF TaskRows
          <5> QED
            BY <2>4, <5>1, <5>2
        <4> QED
          BY <2>10, <4>1, <4>2
      <3>4. ASSUME NEW u \in R, ~u.done PROVE u \in RowsOf(l)
        <4>1. u \in RowsOf(q) /\ u.id # n
          BY <2>4, <2>r, <3>4
        <4> QED
          BY <2>6, <2>10, <3>4, <4>1
      <3> QED
        BY <2>10, <3>1, <3>2, <3>3, <3>4 DEF RetriesFit
    <2>12. Retried(now, n) = [list |-> l, seq |-> next + 1]
      BY <2>3, <2>10 DEF r
    <2> QED
      BY <2>11, <2>12 DEF now, StillFits
  <1> QED
    BY <1>2, <1>3

\* What the first n numbers have brought, once those of ids among them were retried.
AfterOf(f, ids, n) ==
    IF n = 0 THEN Now
    ELSE IF n - 1 \in ids THEN Retried(f[n - 1], n - 1) ELSE f[n - 1]

\* f holds them for every n up to N.
Recorded(f, ids, N) == f = [n \in 0 .. N |-> AfterOf(f, ids, n)]

LEMMA AfterExists ==
    ASSUME NEW ids, NEW N \in Nat
    PROVE  \E f : Recorded(f, ids, N)
  <1> DEFINE T == {n \in 0 .. N : \E f : f = [m \in 0 .. n |-> AfterOf(f, ids, m)]}
  <1>1. 0 \in T
    <2> DEFINE f == [m \in 0 .. 0 |-> Now]
    <2>1. f = [m \in 0 .. 0 |-> AfterOf(f, ids, m)]
      <3>1. \A m \in 0 .. 0 : AfterOf(f, ids, m) = Now
        BY DEF AfterOf
      <3> QED
        BY <3>1
    <2> QED
      BY <2>1
  <1>2. ASSUME NEW n \in 1 .. N, n - 1 \in T PROVE n \in T
    <2>1. PICK f : f = [m \in 0 .. n - 1 |-> AfterOf(f, ids, m)]
      BY <1>2
    <2> DEFINE g == [m \in 0 .. n |-> IF m = n THEN AfterOf(f, ids, n) ELSE f[m]]
    <2>2. ASSUME NEW m \in 0 .. n PROVE g[m] = AfterOf(g, ids, m)
      <3>1. CASE m = 0
        <4>1. g[m] = f[0] /\ f[0] = AfterOf(f, ids, 0)
          BY <2>1, <3>1
        <4> QED
          BY <3>1, <4>1 DEF AfterOf
      <3>2. CASE m # 0
        <4>1. m - 1 \in 0 .. n /\ m - 1 # n /\ g[m - 1] = f[m - 1]
          BY <3>2
        <4>2. AfterOf(g, ids, m) = AfterOf(f, ids, m)
          BY <3>2, <4>1 DEF AfterOf
        <4>3. g[m] = AfterOf(f, ids, m)
          <5>1. CASE m = n
            BY <5>1
          <5>2. CASE m # n
            <6>1. m \in 0 .. n - 1
              BY <5>2
            <6> QED
              BY <2>1, <5>2, <6>1
          <5> QED
            BY <5>1, <5>2
        <4> QED
          BY <4>2, <4>3
      <3> QED
        BY <3>1, <3>2
    <2>3. g = [m \in 0 .. n |-> AfterOf(g, ids, m)]
      <3>1. g = [m \in 0 .. n |-> g[m]]
        OBVIOUS
      <3> HIDE DEF g
      <3> QED
        BY <2>2, <3>1
    <2>4. \E e : e = [m \in 0 .. n |-> AfterOf(e, ids, m)]
      <3> HIDE DEF g
      <3> QED
        BY <2>3
    <2>5. n \in 0 .. N
      OBVIOUS
    <2> QED
      BY <2>4, <2>5
  <1> HIDE DEF T
  <1>3. N \in T
    BY <1>1, <1>2, UpTo
  <1>4. \E f : f = [m \in 0 .. N |-> AfterOf(f, ids, m)]
    BY <1>3 DEF T
  <1> QED
    BY <1>4, Zenon DEF Recorded

LEMMA RetriedAllIs ==
    ASSUME TskIInv, NEW ids, \A t \in RowsOf(tasks) : t.id \in ids => t.done
    PROVE  StillFits(RetriedAll(ids), RowsOf(tasks), taskSeq, ids)
  <1> DEFINE f == CHOOSE g : g = [n \in 0 .. taskSeq |-> AfterOf(g, ids, n)]
             R == RowsOf(tasks)
             T == {n \in 0 .. taskSeq : StillFits(f[n], R, taskSeq, ids)}
  <1>1. /\ taskSeq \in Nat /\ tasks \in Seq(TaskRows)
        /\ R \subseteq TaskRows /\ \A t \in R : t.id < taskSeq
        /\ \A t, u \in R : t.id = u.id \/ t.op = u.op => t = u
    BY DEF TskIInv, TasksFit
  <1>2. f = [n \in 0 .. taskSeq |-> AfterOf(f, ids, n)]
    <2>1. \E g : Recorded(g, ids, taskSeq)
      BY <1>1, AfterExists
    <2>2. \E g : g = [n \in 0 .. taskSeq |-> AfterOf(g, ids, n)]
      BY <2>1, Zenon DEF Recorded
    <2> QED
      BY <2>2, Zenon
  <1>3. RetriedAll(ids) = f[taskSeq]
    BY DEF RetriedAll, AfterOf
  <1>4. Retryable(R, taskSeq, ids)
    BY <1>1 DEF Retryable
  <1> HIDE DEF f, R
  <1>5. 0 \in T
    <2>1. f[0] = [list |-> tasks, seq |-> taskSeq]
      BY <1>1, <1>2 DEF AfterOf, Now
    <2>2. RetriesFit(tasks, taskSeq, R, taskSeq, ids)
      BY <1>1 DEF RetriesFit, R
    <2> QED
      BY <1>1, <2>1, <2>2 DEF StillFits
  <1>6. ASSUME NEW n \in 1 .. taskSeq, n - 1 \in T PROVE n \in T
    <2>1. n \in 0 .. taskSeq /\ n # 0 /\ n - 1 \in Nat /\ n - 1 < taskSeq
      BY <1>1
    <2>2. f[n] = IF n - 1 \in ids THEN Retried(f[n - 1], n - 1) ELSE f[n - 1]
      <3>1. f[n] = AfterOf(f, ids, n)
        BY <1>2, <2>1
      <3> QED
        BY <2>1, <3>1 DEF AfterOf
    <2>3. PICK l, m : f[n - 1] = [list |-> l, seq |-> m] /\ RetriesFit(l, m, R, taskSeq, ids)
      BY <1>6 DEF StillFits
    <2>4. CASE n - 1 \in ids
      <3>1. StillFits(Retried([list |-> l, seq |-> m], n - 1), R, taskSeq, ids)
        BY <1>1, <1>4, <2>1, <2>3, <2>4, RetriedIs
      <3> QED
        BY <2>1, <2>2, <2>3, <2>4, <3>1
    <2>5. CASE n - 1 \notin ids
      BY <1>6, <2>1, <2>2, <2>5
    <2> QED
      BY <2>4, <2>5
  <1>7. taskSeq \in T
    <2> HIDE DEF T
    <2>1. \A n \in 1 .. taskSeq : n - 1 \in T => n \in T
      BY <1>6
    <2>2. \A n \in 0 .. taskSeq : n \in T
      BY <1>1, <1>5, <2>1, UpTo
    <2> QED
      BY <1>1, <2>2
  <1> QED
    BY <1>3, <1>7 DEF R

-----------------------------------------------------------------------------
(* The steps of the panel and of the list below it.                             *)

\* t is u later on.
Advances(u, t) ==
    /\ t \in TaskRows /\ t.id = u.id /\ t.op = u.op
    /\ (u.done => t.done) /\ (u.error => t.error)

\* Every row of the next list is new, or one of this list later on.
Onward ==
    \A t \in RowsOf(tasks') : taskSeq <= t.id \/ \E u \in RowsOf(tasks) : Advances(u, t)

\* What SparesWhatRuns says of a step.
Spares ==
    /\ ~TaskForgotten => Running \subseteq IdsOf(tasks')
    /\ \A new \in RowsOf(tasks') :
           new.id \notin IdsOf(tasks) =>
               /\ new.op \notin succeeded
               /\ \A old \in RowsOf(tasks') : old.op = new.op => old = new

LEMMA ListFits ==
    ASSUME TskIInv
    PROVE  /\ RowsOf(tasks) \subseteq TaskRows /\ taskSeq \in Nat
           /\ \A t \in RowsOf(tasks) : t.id \in Nat /\ t.op \in Nat /\ t.id < taskSeq /\ t.op < taskSeq
           /\ \A t, u \in RowsOf(tasks) : t.id = u.id \/ t.op = u.op => t = u
           /\ IdsOf(tasks) \subseteq 0 .. taskSeq - 1
           /\ DoneRows(tasks) \subseteq IdsOf(tasks) /\ Failed \subseteq DoneRows(tasks)
  <1>1. /\ RowsOf(tasks) \subseteq TaskRows /\ taskSeq \in Nat
        /\ \A t \in RowsOf(tasks) : t.id < taskSeq /\ t.op < taskSeq
        /\ \A t, u \in RowsOf(tasks) : t.id = u.id \/ t.op = u.op => t = u
    BY DEF TskIInv, TasksFit
  <1>2. \A t \in RowsOf(tasks) : t.id \in Nat /\ t.op \in Nat
    BY <1>1 DEF TaskRows
  <1>3. \A t \in RowsOf(tasks) : t.id \in 0 .. taskSeq - 1
    BY <1>1, <1>2
  <1>4. DoneRows(tasks) \subseteq IdsOf(tasks) /\ Failed \subseteq DoneRows(tasks)
    BY DEF DoneRows, IdsOf, Failed
  <1> QED
    BY <1>1, <1>2, <1>3, <1>4 DEF IdsOf, RowsOf

LEMMA MoreNumbers ==
    ASSUME NEW m \in Nat, NEW n \in Nat, m <= n
    PROVE  0 .. m - 1 \subseteq 0 .. n - 1
  <1>1. \A i \in 0 .. m - 1 : i \in 0 .. n - 1
    OBVIOUS
  <1> QED
    BY <1>1

\* A menu that stays open, or closes.
LEMMA MenuKept ==
    ASSUME TskIInv, taskSeq' \in Nat, taskSeq <= taskSeq', taskMenu' \in {taskMenu, None}, Onward
    PROVE  MenuFits'
  <1> SUFFICES ASSUME taskMenu' # None PROVE MenuFits'
    BY DEF MenuFits
  <1>1. taskMenu' = taskMenu /\ taskMenu # None
    OBVIOUS
  <1> DEFINE ids == taskMenu.ids
  <1>2. /\ ids \subseteq 0 .. taskSeq - 1
        /\ taskMenu.one /\ "retry" \in taskMenu.items => Sole(ids) \subseteq Failed
        /\ taskMenu.one /\ "remove" \in taskMenu.items => Sole(ids) \subseteq DoneRows(tasks)
    BY <1>1 DEF TskIInv, MenuFits
  <1>3. taskSeq \in Nat /\ \A t, u \in RowsOf(tasks) : t.id = u.id => t = u
    BY ListFits
  <1> HIDE DEF ids
  <1>4. ids \subseteq 0 .. taskSeq' - 1
    BY <1>2, <1>3, MoreNumbers
  <1>5. ASSUME NEW t \in RowsOf(tasks'), t.id \in ids
        PROVE  \E u \in RowsOf(tasks) : Advances(u, t)
    <2>1. t.id \in 0 .. taskSeq - 1
      BY <1>2, <1>5
    <2>2. ~(taskSeq <= t.id)
      BY <1>3, <2>1
    <2> QED
      BY <2>2 DEF Onward
  <1>6. ASSUME Sole(ids) \subseteq Failed PROVE ids \cap IdsOf(tasks') \subseteq Failed'
    <2> SUFFICES ASSUME NEW t \in RowsOf(tasks'), t.id \in ids PROVE t.id \in Failed'
      BY DEF IdsOf, RowsOf
    <2>1. PICK u \in RowsOf(tasks) : Advances(u, t)
      BY <1>5
    <2>2. u.id \in Failed
      BY <1>6, <2>1 DEF Sole, IdsOf, RowsOf, Advances
    <2>3. u.done /\ u.error
      BY <1>3, <2>2 DEF Failed, RowsOf
    <2> QED
      BY <2>1, <2>3 DEF Advances, Failed, RowsOf
  <1>7. ASSUME Sole(ids) \subseteq DoneRows(tasks)
        PROVE  ids \cap IdsOf(tasks') \subseteq DoneRows(tasks')
    <2> SUFFICES ASSUME NEW t \in RowsOf(tasks'), t.id \in ids PROVE t.id \in DoneRows(tasks')
      BY DEF IdsOf, RowsOf
    <2>1. PICK u \in RowsOf(tasks) : Advances(u, t)
      BY <1>5
    <2>2. u.id \in DoneRows(tasks)
      BY <1>7, <2>1 DEF Sole, IdsOf, RowsOf, Advances
    <2>3. u.done
      BY <1>3, <2>2 DEF DoneRows, RowsOf
    <2> QED
      BY <2>1, <2>3 DEF Advances, DoneRows, RowsOf
  <1> QED
    BY <1>1, <1>2, <1>4, <1>6, <1>7 DEF MenuFits, Sole, ids

\* Rows that are amended: each goes on, and none comes or goes.
LEMMA AmendedHolds ==
    ASSUME TskIInv, tasks' \in [DOMAIN tasks -> TaskRows],
           \A i \in DOMAIN tasks :
               /\ Advances(tasks[i], tasks'[i])
               /\ tasks'[i].error => tasks'[i].done
               /\ ~tasks'[i].done \/ tasks'[i].error => tasks'[i].op \notin succeeded',
           \A i, j \in DOMAIN tasks : tasks[i] = tasks[j] => tasks'[i] = tasks'[j],
           UNCHANGED <<taskSeq, picked, taskMenu>>, succeeded' \subseteq 0 .. taskSeq - 1
    PROVE  TskIInv' /\ Spares
  <1>1. tasks' \in Seq(TaskRows) /\ DOMAIN tasks' = DOMAIN tasks
    <2>1. DOMAIN tasks = 1 .. Len(tasks) /\ Len(tasks) \in Nat
      BY LenProperties DEF TskIInv
    <2> QED
      BY <2>1
  <1>2. /\ \A t \in RowsOf(tasks') : \E i \in DOMAIN tasks : t = tasks'[i]
        /\ \A i \in DOMAIN tasks : tasks[i] \in RowsOf(tasks) /\ tasks'[i] \in RowsOf(tasks')
        /\ \A u \in RowsOf(tasks) : \E i \in DOMAIN tasks : u = tasks[i]
    BY <1>1 DEF RowsOf, ToSet
  <1>3. \A t \in RowsOf(tasks') : \E u \in RowsOf(tasks) : Advances(u, t)
    BY <1>2
  <1>4. IdsOf(tasks') = IdsOf(tasks)
    <2>1. \A i \in DOMAIN tasks : tasks'[i].id = tasks[i].id
      BY DEF Advances
    <2>2. IdsOf(tasks) = {t.id : t \in RowsOf(tasks)} /\ IdsOf(tasks') = {t.id : t \in RowsOf(tasks')}
      BY DEF IdsOf, RowsOf
    <2> QED
      BY <1>2, <2>1, <2>2
  <1>5. TasksFit(RowsOf(tasks'), taskSeq', succeeded')
    <2>1. RowsOf(tasks') \subseteq TaskRows
      BY <1>3 DEF Advances
    <2>2. \A t \in RowsOf(tasks') : t.id < taskSeq' /\ t.op < taskSeq'
      BY <1>3, ListFits DEF Advances
    <2>3. ASSUME NEW i \in DOMAIN tasks, NEW j \in DOMAIN tasks,
                 tasks'[i].id = tasks'[j].id \/ tasks'[i].op = tasks'[j].op
          PROVE  tasks[i].id = tasks[j].id
      <3>1. tasks[i].id = tasks[j].id \/ tasks[i].op = tasks[j].op
        BY <2>3 DEF Advances
      <3> QED
        BY <1>2, <3>1, ListFits
    <2>4. ASSUME NEW i \in DOMAIN tasks, NEW j \in DOMAIN tasks, tasks[i].id = tasks[j].id
          PROVE  tasks'[i] = tasks'[j]
      <3>1. tasks[i] = tasks[j]
        BY <1>2, <2>4, ListFits
      <3> QED
        BY <3>1
    <2>5. \A t, u \in RowsOf(tasks') : t.id = u.id \/ t.op = u.op => t = u
      BY <1>2, <2>3, <2>4
    <2>6. \A t \in RowsOf(tasks') :
              (t.error => t.done) /\ (~t.done \/ t.error => t.op \notin succeeded')
      BY <1>2
    <2> QED
      BY <2>1, <2>2, <2>5, <2>6 DEF TasksFit
  <1>6. MenuFits'
    <2>1. taskSeq \in Nat /\ Onward
      BY <1>3, ListFits DEF Onward
    <2> QED
      BY <2>1, MenuKept
  <1>7. TskIInv'
    BY <1>1, <1>5, <1>6 DEF TskIInv
  <1>8. Spares
    <2>1. \A new \in RowsOf(tasks') : new.id \in IdsOf(tasks)
      BY <1>4 DEF IdsOf, RowsOf
    <2> QED
      BY <1>4, <2>1 DEF Spares, Running
  <1> QED
    BY <1>7, <1>8

\* Rows that are taken off.
LEMMA RemovedHolds ==
    ASSUME TskIInv, NEW ids, tasks' = WithoutRows(tasks, ids),
           UNCHANGED <<taskSeq, picked, succeeded>>, taskMenu' \in {taskMenu, None},
           TaskForgotten \/ ids \cap IdsOf(tasks) \subseteq DoneRows(tasks)
    PROVE  TskIInv' /\ Spares
  <1>1. tasks' \in Seq(TaskRows) /\ RowsOf(tasks') = {t \in RowsOf(tasks) : t.id \notin ids}
    BY RowsLeft DEF TskIInv
  <1>2. TasksFit(RowsOf(tasks'), taskSeq', succeeded')
    BY <1>1 DEF TskIInv, TasksFit
  <1>3. MenuFits'
    <2>1. \A t \in RowsOf(tasks) : Advances(t, t)
      BY ListFits DEF Advances
    <2>2. Onward /\ taskSeq \in Nat
      BY <1>1, <2>1, ListFits DEF Onward
    <2> QED
      BY <2>2, MenuKept
  <1>4. TskIInv'
    BY <1>1, <1>2, <1>3 DEF TskIInv
  <1>5. \A new \in RowsOf(tasks') : new.id \in IdsOf(tasks)
    BY <1>1 DEF IdsOf, RowsOf
  <1>6. ids \cap IdsOf(tasks) \subseteq DoneRows(tasks) => Running \subseteq IdsOf(tasks')
    BY <1>1 DEF Running, IdsOf, RowsOf
  <1> QED
    BY <1>4, <1>5, <1>6 DEF Spares

\* A list with new rows: each runs an operation that has not succeeded.
LEMMA GrownHolds ==
    ASSUME TskIInv, tasks' \in Seq(TaskRows), taskSeq' \in Nat, taskSeq <= taskSeq',
           UNCHANGED <<picked, succeeded>>, taskMenu' \in {taskMenu, None},
           \A t, u \in RowsOf(tasks') : t.id = u.id \/ t.op = u.op => t = u,
           \A t \in RowsOf(tasks') :
               \/ t \in RowsOf(tasks)
               \/ /\ taskSeq <= t.id /\ t.id < taskSeq' /\ t.op < taskSeq' /\ ~t.done /\ ~t.error
                  /\ t.op \notin succeeded,
           \A u \in RowsOf(tasks) : ~u.done => u \in RowsOf(tasks')
    PROVE  TskIInv' /\ Spares
  <1>1. /\ taskSeq \in Nat /\ \A t \in RowsOf(tasks) : t.id \in Nat /\ t.op \in Nat
        /\ \A t \in RowsOf(tasks) : t.id < taskSeq /\ t.op < taskSeq
        /\ \A t \in RowsOf(tasks) :
               (t.error => t.done) /\ (~t.done \/ t.error => t.op \notin succeeded)
    BY ListFits DEF TskIInv, TasksFit
  <1>2. RowsOf(tasks') \subseteq TaskRows
    BY RangeIs DEF RowsOf, ToSet, Range
  <1>3. TasksFit(RowsOf(tasks'), taskSeq', succeeded')
    <2>1. \A t \in RowsOf(tasks) : t.id < taskSeq' /\ t.op < taskSeq'
      BY <1>1
    <2>2. \A t \in RowsOf(tasks') : t.id < taskSeq' /\ t.op < taskSeq'
      BY <2>1
    <2>3. \A t \in RowsOf(tasks') :
              (t.error => t.done) /\ (~t.done \/ t.error => t.op \notin succeeded')
      BY <1>1
    <2> QED
      BY <1>2, <2>2, <2>3 DEF TasksFit
  <1>4. MenuFits'
    <2>1. \A t \in RowsOf(tasks) : Advances(t, t)
      BY ListFits DEF Advances
    <2>2. Onward
      BY <2>1 DEF Onward
    <2> QED
      BY <2>2, MenuKept
  <1>5. succeeded' \subseteq 0 .. taskSeq' - 1 /\ picked' \subseteq 0 .. taskSeq' - 1
    <2>1. 0 .. taskSeq - 1 \subseteq 0 .. taskSeq' - 1
      BY <1>1, MoreNumbers
    <2> QED
      BY <2>1 DEF TskIInv
  <1>6. TskIInv'
    BY <1>3, <1>4, <1>5 DEF TskIInv
  <1>7. Running \subseteq IdsOf(tasks')
    BY DEF Running, IdsOf, DoneRows, RowsOf
  <1>8. \A t \in RowsOf(tasks') : t.id \notin IdsOf(tasks) => t.op \notin succeeded
    BY DEF IdsOf, RowsOf
  <1> QED
    BY <1>6, <1>7, <1>8 DEF Spares

LEMMA RetriesHold ==
    ASSUME TskIInv, NEW ids, ids \cap IdsOf(tasks) \subseteq Failed, Become(RetriedAll(ids)),
           UNCHANGED <<picked, succeeded>>, taskMenu' \in {taskMenu, None}
    PROVE  TskIInv' /\ Spares
  <1>1. \A t \in RowsOf(tasks) : t.id \in ids => t.done /\ t.error
    <2> SUFFICES ASSUME NEW t \in RowsOf(tasks), t.id \in ids PROVE t.done /\ t.error
      OBVIOUS
    <2>1. t.id \in Failed
      BY DEF IdsOf, RowsOf
    <2> QED
      BY <2>1, ListFits DEF Failed, RowsOf
  <1>2. StillFits(RetriedAll(ids), RowsOf(tasks), taskSeq, ids)
    BY <1>1, RetriedAllIs
  <1>3. PICK l, m : /\ RetriedAll(ids) = [list |-> l, seq |-> m]
                    /\ RetriesFit(l, m, RowsOf(tasks), taskSeq, ids)
    BY <1>2 DEF StillFits
  <1>4. tasks' = l /\ taskSeq' = m
    BY <1>3 DEF Become
  <1>5. /\ l \in Seq(TaskRows) /\ m \in Nat /\ taskSeq <= m
        /\ \A t, u \in RowsOf(l) : t.id = u.id \/ t.op = u.op => t = u
        /\ \A t \in RowsOf(l) :
               \/ t \in RowsOf(tasks)
               \/ /\ taskSeq <= t.id /\ t.id < m /\ ~t.done /\ ~t.error
                  /\ \E u \in RowsOf(tasks) : u.id \in ids /\ u.op = t.op
        /\ \A u \in RowsOf(tasks) : ~u.done => u \in RowsOf(l)
    BY <1>3 DEF RetriesFit
  <1>6. \A u \in RowsOf(tasks) : u.id \in ids => u.op < m /\ u.op \notin succeeded
    <2>1. \A u \in RowsOf(tasks) : u.op < m
      BY <1>5, ListFits
    <2>2. \A u \in RowsOf(tasks) : u.error => u.op \notin succeeded
      BY DEF TskIInv, TasksFit
    <2> QED
      BY <1>1, <2>1, <2>2
  <1>7. \A t \in RowsOf(l) :
            \/ t \in RowsOf(tasks)
            \/ /\ taskSeq <= t.id /\ t.id < m /\ t.op < m /\ ~t.done /\ ~t.error
               /\ t.op \notin succeeded
    BY <1>5, <1>6
  <1> QED
    BY <1>4, <1>5, <1>7, GrownHolds

LEMMA SpawnTaskHolds == ASSUME TskIInv, SpawnTask PROVE TskIInv' /\ Spares
  <1> DEFINE new == NewRow(taskSeq, taskSeq)
             r == Enqueued([list |-> tasks, seq |-> taskSeq], taskSeq)
             l == r.list
  <1>1. tasks' = l /\ taskSeq' = r.seq /\ UNCHANGED <<picked, taskMenu, succeeded>>
    BY DEF SpawnTask, Become, Now
  <1>2. /\ taskSeq \in Nat /\ tasks \in Seq(TaskRows)
        /\ \A t \in RowsOf(tasks) : t.id \in Nat /\ t.op \in Nat /\ t.id < taskSeq /\ t.op < taskSeq
        /\ \A t, u \in RowsOf(tasks) : t.id = u.id \/ t.op = u.op => t = u
    BY ListFits DEF TskIInv
  <1>3. new.id = taskSeq /\ new.op = taskSeq /\ ~new.done /\ ~new.error
    BY DEF NewRow
  <1> HIDE DEF new
  <1>4. \A t \in RowsOf(tasks) : t.id # new.id /\ t.op # new.op
    BY <1>2, <1>3
  <1>5. \A t, u \in RowsOf(tasks) \cup {new} : t.id = u.id \/ t.op = u.op => t = u
    BY <1>2, <1>4
  <1>6. /\ r = [list |-> l, seq |-> taskSeq + 1]
        /\ l \in Seq(TaskRows)
        /\ RowsOf(l) \subseteq RowsOf(tasks) \cup {new}
        /\ \A t \in RowsOf(tasks) \cup {new} : ~t.done => t \in RowsOf(l)
    BY <1>2, <1>5, EnqueuedIs DEF new
  <1> HIDE DEF r, l
  <1>7. taskSeq' = taskSeq + 1 /\ taskSeq' \in Nat /\ taskSeq <= taskSeq' /\ taskSeq < taskSeq'
    BY <1>1, <1>2, <1>6
  <1>8. taskSeq \notin succeeded
    BY <1>2 DEF TskIInv
  <1>9. \A t \in RowsOf(l) :
            \/ t \in RowsOf(tasks)
            \/ /\ taskSeq <= t.id /\ t.id < taskSeq' /\ t.op < taskSeq' /\ ~t.done /\ ~t.error
               /\ t.op \notin succeeded
    BY <1>2, <1>3, <1>6, <1>7, <1>8
  <1>10. \A t, u \in RowsOf(l) : t.id = u.id \/ t.op = u.op => t = u
    BY <1>5, <1>6
  <1> QED
    BY <1>1, <1>6, <1>7, <1>9, <1>10, GrownHolds

\* The calls of the rows: submitted, settled, stopped.
LEMMA RunsHold ==
    ASSUME TskIInv, TaskSubmitted \/ TaskSettles \/ TaskStopped
    PROVE  TskIInv' /\ Spares
  <1>1. /\ \A t \in RowsOf(tasks) : t \in TaskRows /\ t.op \in 0 .. taskSeq - 1
        /\ \A t \in RowsOf(tasks) :
               (t.error => t.done) /\ (~t.done \/ t.error => t.op \notin succeeded)
        /\ \A t, u \in RowsOf(tasks) : t.id = u.id \/ t.op = u.op => t = u
        /\ succeeded \subseteq 0 .. taskSeq - 1
    <2>1. \A t \in RowsOf(tasks) : t \in TaskRows /\ t.op \in 0 .. taskSeq - 1
      BY ListFits
    <2> QED
      BY <2>1, ListFits DEF TskIInv, TasksFit
  <1>2. \A i \in DOMAIN tasks : tasks[i] \in RowsOf(tasks)
    BY DEF RowsOf, ToSet
  <1> DEFINE Given(u) == [u EXCEPT !.given = TRUE]
             Ended(u) == [u EXCEPT !.done = TRUE]
             Broken(u) == [u EXCEPT !.done = TRUE, !.error = TRUE]
             Row(id, u, new) == IF u.id = id THEN new ELSE u
  <1>3. \A u \in TaskRows :
            /\ Given(u) \in TaskRows /\ Given(u).id = u.id /\ Given(u).op = u.op
            /\ Given(u).done = u.done /\ Given(u).error = u.error
            /\ Ended(u) \in TaskRows /\ Ended(u).id = u.id /\ Ended(u).op = u.op
            /\ Ended(u).done /\ Ended(u).error = u.error
            /\ Broken(u) \in TaskRows /\ Broken(u).id = u.id /\ Broken(u).op = u.op
            /\ Broken(u).done /\ Broken(u).error
    BY DEF TaskRows
  <1> HIDE DEF Given, Ended, Broken
  <1>4. ASSUME NEW t \in RowsOf(tasks), ~t.done, UNCHANGED <<taskSeq, picked, taskMenu, succeeded>>,
               tasks' = [i \in DOMAIN tasks |-> Row(t.id, tasks[i], Given(tasks[i]))]
        PROVE  TskIInv' /\ Spares
    <2>1. \A i \in DOMAIN tasks : tasks'[i] = Row(t.id, tasks[i], Given(tasks[i]))
      BY <1>4
    <2>2. \A i \in DOMAIN tasks :
              /\ Advances(tasks[i], tasks'[i])
              /\ tasks'[i].error => tasks'[i].done
              /\ ~tasks'[i].done \/ tasks'[i].error => tasks'[i].op \notin succeeded'
      BY <1>1, <1>2, <1>3, <1>4, <2>1 DEF Advances
    <2>3. tasks' \in [DOMAIN tasks -> TaskRows]
      BY <1>4, <2>2 DEF Advances
    <2> QED
      BY <1>1, <1>4, <2>1, <2>2, <2>3, AmendedHolds
  <1>5. ASSUME NEW t \in RowsOf(tasks), ~t.done, UNCHANGED <<taskSeq, picked, taskMenu, succeeded>>,
               tasks' = [i \in DOMAIN tasks |-> Row(t.id, tasks[i], Broken(tasks[i]))]
        PROVE  TskIInv' /\ Spares
    <2>1. \A i \in DOMAIN tasks : tasks'[i] = Row(t.id, tasks[i], Broken(tasks[i]))
      BY <1>5
    <2>4. \A i \in DOMAIN tasks : tasks[i].id = t.id => tasks[i] = t
      BY <1>1, <1>2
    <2>2. \A i \in DOMAIN tasks :
              /\ Advances(tasks[i], tasks'[i])
              /\ tasks'[i].error => tasks'[i].done
              /\ ~tasks'[i].done \/ tasks'[i].error => tasks'[i].op \notin succeeded'
      BY <1>1, <1>2, <1>3, <1>5, <2>1, <2>4 DEF Advances
    <2>3. tasks' \in [DOMAIN tasks -> TaskRows]
      BY <1>5, <2>2 DEF Advances
    <2> QED
      BY <1>1, <1>5, <2>1, <2>2, <2>3, AmendedHolds
  <1>6. ASSUME NEW id, UNCHANGED <<taskSeq, picked, taskMenu>>,
               tasks' = [i \in DOMAIN tasks |-> Row(id, tasks[i], Ended(tasks[i]))],
               \/ succeeded' = succeeded
               \/ \E t \in RowsOf(tasks) : /\ t.id = id /\ ~t.done
                                           /\ succeeded' = succeeded \cup {t.op}
        PROVE  TskIInv' /\ Spares
    <2>1. \A i \in DOMAIN tasks : tasks'[i] = Row(id, tasks[i], Ended(tasks[i]))
      BY <1>6
    <2>2. ASSUME NEW i \in DOMAIN tasks
          PROVE  /\ Advances(tasks[i], tasks'[i])
                 /\ tasks'[i].error => tasks'[i].done
                 /\ ~tasks'[i].done \/ tasks'[i].error => tasks'[i].op \notin succeeded'
      <3>1. Advances(tasks[i], tasks'[i]) /\ (tasks'[i].error => tasks'[i].done)
        BY <1>1, <1>2, <1>3, <2>1 DEF Advances
      <3>2. ~tasks'[i].done \/ tasks'[i].error =>
                tasks'[i].op = tasks[i].op /\ tasks[i].op \notin succeeded
        BY <1>1, <1>2, <1>3, <2>1
      <3>3. CASE succeeded' = succeeded
        BY <3>1, <3>2, <3>3
      <3>4. ASSUME NEW t \in RowsOf(tasks), t.id = id, ~t.done,
                   succeeded' = succeeded \cup {t.op}
            PROVE  ~tasks'[i].done \/ tasks'[i].error => tasks'[i].op \notin succeeded'
        <4>1. CASE tasks[i] = t
          <5>1. tasks'[i] = Ended(t) /\ ~t.error
            BY <1>1, <2>1, <3>4, <4>1
          <5>2. tasks'[i].done /\ ~tasks'[i].error
            BY <1>1, <1>3, <5>1
          <5> QED
            BY <5>2
        <4>2. CASE tasks[i] # t
          <5>1. tasks[i].op # t.op
            BY <1>1, <1>2, <4>2
          <5> QED
            BY <3>2, <3>4, <5>1
        <4> QED
          BY <4>1, <4>2
      <3> QED
        BY <1>6, <3>1, <3>3, <3>4
    <2>3. tasks' \in [DOMAIN tasks -> TaskRows]
      BY <1>6, <2>2 DEF Advances
    <2>4. succeeded' \subseteq 0 .. taskSeq - 1
      <3>1. ASSUME NEW t \in RowsOf(tasks), succeeded' = succeeded \cup {t.op}
            PROVE  succeeded' \subseteq 0 .. taskSeq - 1
        <4>1. t.op \in 0 .. taskSeq - 1 /\ succeeded \subseteq 0 .. taskSeq - 1
          BY <1>1
        <4> HIDE <1>1, <1>6
        <4> QED
          BY <3>1, <4>1, Zenon
      <3>2. CASE succeeded' = succeeded
        BY <1>1, <3>2
      <3> QED
        BY <1>6, <3>1, <3>2
    <2> QED
      BY <1>1, <1>6, <2>1, <2>2, <2>3, <2>4, AmendedHolds
  <1>7. CASE TaskSubmitted
    <2>1. UNCHANGED <<taskSeq, picked, taskMenu, succeeded>>
      BY <1>7 DEF TaskSubmitted
    <2>2. PICK t \in RowsOf(tasks) :
              /\ ~t.done
              /\ \/ tasks' = [i \in DOMAIN tasks |-> Row(t.id, tasks[i], Given(tasks[i]))]
                 \/ tasks' = [i \in DOMAIN tasks |-> Row(t.id, tasks[i], Broken(tasks[i]))]
      BY <1>7 DEF TaskSubmitted, Amend, Given, Broken
    <2> QED
      BY <1>4, <1>5, <2>1, <2>2
  <1>8. CASE TaskSettles
    <2>1. UNCHANGED <<taskSeq, picked, taskMenu>>
      BY <1>8 DEF TaskSettles
    <2>2. PICK t \in RowsOf(tasks) :
              /\ ~t.done
              /\ \/ /\ tasks' = [i \in DOMAIN tasks |-> Row(t.id, tasks[i], Ended(tasks[i]))]
                    /\ succeeded' = succeeded \cup {t.op}
                 \/ /\ tasks' = [i \in DOMAIN tasks |-> Row(t.id, tasks[i], Broken(tasks[i]))]
                    /\ UNCHANGED succeeded
      BY <1>8 DEF TaskSettles, Amend, Ended, Broken
    <2> QED
      BY <1>5, <1>6, <2>1, <2>2
  <1>9. CASE TaskStopped
    <2>1. UNCHANGED <<taskSeq, picked, taskMenu, succeeded>>
      BY <1>9 DEF TaskStopped
    <2>2. PICK id \in stopping :
              tasks' = [i \in DOMAIN tasks |-> Row(id, tasks[i], Ended(tasks[i]))]
      BY <1>9 DEF TaskStopped, Amend, Ended
    <2> QED
      BY <1>6, <2>1, <2>2
  <1> QED
    BY <1>7, <1>8, <1>9
\* Steps that leave the list alone.
LEMMA ListKept ==
    ASSUME TskIInv, UNCHANGED <<tasks, taskSeq, succeeded>>, picked' \subseteq 0 .. taskSeq - 1,
           taskMenu' \in {taskMenu, None}
    PROVE  TskIInv' /\ Spares
  <1>1. MenuFits'
    <2>1. Onward /\ taskSeq \in Nat
      BY ListFits DEF Onward, Advances
    <2> QED
      BY <2>1, MenuKept
  <1>2. IdsOf(tasks') = IdsOf(tasks) /\ RowsOf(tasks') = RowsOf(tasks)
    BY DEF IdsOf, RowsOf
  <1>3. \A t \in RowsOf(tasks') : t.id \in IdsOf(tasks)
    BY DEF IdsOf, RowsOf
  <1>4. TskIInv'
    BY <1>1, <1>2 DEF TskIInv
  <1> QED
    BY <1>2, <1>3, <1>4 DEF Spares, Running

LEMMA PickedHolds ==
    ASSUME TskIInv,
           ToggleTasks \/ PickRow \/ PickAll \/ PickNone \/ HealPicked \/ AskClearFinished
               \/ DropQuestion
    PROVE  TskIInv' /\ Spares
  <1>1. IdsOf(tasks) \subseteq 0 .. taskSeq - 1 /\ picked \subseteq 0 .. taskSeq - 1
    BY ListFits DEF TskIInv
  <1>2. CASE ToggleTasks \/ AskClearFinished \/ DropQuestion
    BY <1>1, <1>2, ListKept DEF ToggleTasks, AskClearFinished, DropQuestion
  <1>3. ASSUME NEW set, set \subseteq 0 .. taskSeq - 1, Pick(set) PROVE TskIInv' /\ Spares
    BY <1>3, ListKept DEF Pick
  <1>4. CASE PickRow
    <2>1. PICK id \in IdsOf(tasks) :
              \/ Pick({id})
              \/ Pick(SymDiff(picked, {id}))
              \/ \E from \in IdsOf(tasks) :
                     Pick({i \in IdsOf(tasks) : i \in (from .. id) \cup (id .. from)})
      BY <1>4 DEF PickRow
    <2>2. {id} \subseteq 0 .. taskSeq - 1
      BY <1>1
    <2>3. SymDiff(picked, {id}) \subseteq 0 .. taskSeq - 1
      BY <1>1 DEF SymDiff
    <2>4. \A from : {i \in IdsOf(tasks) : i \in (from .. id) \cup (id .. from)}
                        \subseteq 0 .. taskSeq - 1
      BY <1>1, Zenon
    <2> QED
      BY <1>3, <2>1, <2>2, <2>3, <2>4, Zenon
  <1>5. CASE PickAll \/ PickNone
    BY <1>1, <1>3, <1>5 DEF PickAll, PickNone
  <1>6. CASE HealPicked
    BY <1>1, <1>6, ListKept DEF HealPicked
  <1> QED
    BY <1>2, <1>4, <1>5, <1>6

LEMMA MenuOpens == ASSUME TskIInv, OpenTaskMenu PROVE TskIInv' /\ Spares
  <1>1. UNCHANGED <<tasks, taskSeq, succeeded>>
    BY DEF OpenTaskMenu
  <1>2. /\ IdsOf(tasks) \subseteq 0 .. taskSeq - 1 /\ picked \subseteq 0 .. taskSeq - 1
        /\ DoneRows(tasks) \subseteq IdsOf(tasks) /\ Failed \subseteq DoneRows(tasks)
        /\ taskSeq \in Nat
    BY ListFits DEF TskIInv
  <1>3. picked' \subseteq 0 .. taskSeq - 1
    <2>1. PICK id \in IdsOf(tasks) : picked' = IF id \in picked THEN picked ELSE {id}
      BY DEF OpenTaskMenu
    <2> QED
      BY <1>2, <2>1
  <1>4. /\ taskMenu'.ids = picked'
        /\ taskMenu'.one => Cardinality(picked' \cap IdsOf(tasks)) = 1
        /\ "retry" \in taskMenu'.items => picked' \cap Failed # {}
        /\ "remove" \in taskMenu'.items => picked' \cap DoneRows(tasks) # {}
    BY DEF OpenTaskMenu
  <1>5. taskMenu'.one => \E x : picked' \cap IdsOf(tasks) = {x}
    <2>1. IsFiniteSet(picked' \cap IdsOf(tasks))
      <3>1. IsFiniteSet(0 .. taskSeq - 1)
        BY <1>2, FS_Interval
      <3>2. picked' \cap IdsOf(tasks) \subseteq 0 .. taskSeq - 1
        BY <1>2
      <3> QED
        BY <3>1, <3>2, FS_Subset
    <2> QED
      BY <1>4, <2>1, FS_Singleton
  <1>6. /\ taskMenu'.one /\ "retry" \in taskMenu'.items =>
               picked' \cap IdsOf(tasks) \subseteq Failed
        /\ taskMenu'.one /\ "remove" \in taskMenu'.items =>
               picked' \cap IdsOf(tasks) \subseteq DoneRows(tasks)
    BY <1>2, <1>4, <1>5
  <1>7. Failed' = Failed
    BY <1>1 DEF Failed
  <1>8. MenuFits'
    BY <1>1, <1>3, <1>4, <1>6, <1>7 DEF MenuFits, Sole
  <1>9. \A t \in RowsOf(tasks') : t.id \in IdsOf(tasks)
    BY <1>1 DEF IdsOf, RowsOf
  <1>10. TskIInv'
    BY <1>1, <1>3, <1>8 DEF TskIInv
  <1> QED
    BY <1>1, <1>9, <1>10 DEF Spares, Running

\* An item acts on rows that are still as finished as it needs them.
LEMMA ItemChosen == ASSUME TskIInv, ChooseItem PROVE TskIInv' /\ Spares
  <1>1. /\ taskMenu # None /\ taskMenu' = None /\ UNCHANGED <<picked, succeeded>>
        /\ picked \subseteq 0 .. taskSeq - 1
    BY DEF ChooseItem, TskIInv
  <1> DEFINE Chosen(k) == IF taskMenu.one THEN Sole(taskMenu.ids) ELSE Fitting(taskMenu.ids, k)
  <1>2. PICK k \in taskMenu.items :
            \/ k = "retry" /\ RetryRows(Chosen(k))
            \/ k = "remove" /\ ClearRows(Chosen(k))
            \/ k = "cancel" /\ UNCHANGED <<tasks, taskSeq>>
    BY DEF ChooseItem
  <1>3. k = "retry" => Chosen(k) \subseteq Failed
    BY <1>1, <1>2 DEF TskIInv, MenuFits, Fitting
  <1>4. k = "remove" => Chosen(k) \subseteq DoneRows(tasks)
    BY <1>1, <1>2 DEF TskIInv, MenuFits, Fitting
  <1> HIDE DEF Chosen
  <1>5. CASE k = "retry" /\ RetryRows(Chosen(k))
    BY <1>1, <1>3, <1>5, RetriesHold DEF RetryRows
  <1>6. CASE k = "remove" /\ ClearRows(Chosen(k))
    BY <1>1, <1>4, <1>6, RemovedHolds DEF ClearRows
  <1>7. CASE k = "cancel" /\ UNCHANGED <<tasks, taskSeq>>
    BY <1>1, <1>7, ListKept
  <1> QED
    BY <1>2, <1>5, <1>6, <1>7

LEMMA ButtonsHold ==
    ASSUME TskIInv, RowButton \/ AcceptQuestion \/ CloseTaskMenu \/ TaskForgotten
    PROVE  TskIInv' /\ Spares
  <1>1. picked \subseteq 0 .. taskSeq - 1
    BY DEF TskIInv
  <1>2. CASE RowButton
    <2>1. UNCHANGED <<picked, taskMenu, succeeded>>
      BY <1>2 DEF RowButton
    <2>2. CASE \E id \in Failed : RetryRows({id})
      BY <2>1, <2>2, RetriesHold DEF RetryRows
    <2>3. CASE \E id \in DoneRows(tasks) : ClearRows({id})
      BY <2>1, <2>3, RemovedHolds DEF ClearRows
    <2> QED
      BY <1>2, <2>2, <2>3 DEF RowButton
  <1>3. CASE AcceptQuestion
    <2>1. UNCHANGED <<picked, taskMenu, succeeded>>
      BY <1>3 DEF AcceptQuestion
    <2>2. CASE UNCHANGED <<tasks, taskSeq>>
      BY <1>1, <2>1, <2>2, ListKept
    <2>3. CASE ClearRows(DoneRows(tasks))
      BY <2>1, <2>3, RemovedHolds DEF ClearRows
    <2> QED
      BY <1>3, <2>2, <2>3 DEF AcceptQuestion
  <1>4. CASE CloseTaskMenu
    BY <1>1, <1>4, ListKept DEF CloseTaskMenu
  <1>5. CASE TaskForgotten
    <2>1. PICK t \in RowsOf(tasks) : tasks' = WithoutRows(tasks, {t.id})
      BY <1>5 DEF TaskForgotten
    <2>2. UNCHANGED <<taskSeq, picked, taskMenu, succeeded>>
      BY <1>5 DEF TaskForgotten
    <2> QED
      BY <1>5, <2>1, <2>2, RemovedHolds
  <1> QED
    BY <1>2, <1>3, <1>4, <1>5

LEMMA TskStepHolds ==
    ASSUME TskIInv, [TaskNext]_tskVars
    PROVE  TskIInv' /\ Spares
  <1>1. CASE TaskNext
    BY <1>1, SpawnTaskHolds, RunsHold, PickedHolds, MenuOpens, ItemChosen, ButtonsHold
       DEF TaskNext
  <1>2. CASE UNCHANGED tskVars
    <2>1. UNCHANGED <<tasks, taskSeq, picked, taskMenu, succeeded>>
      BY <1>2 DEF tskVars
    <2>2. picked \subseteq 0 .. taskSeq - 1
      BY DEF TskIInv
    <2> QED
      BY <2>1, <2>2, ListKept
  <1> QED
    BY <1>1, <1>2

\* However the list changed since a menu was opened or a question asked, the panel
\* takes no row off the list that runs, and a row that appears (a start, or a retry,
\* Workspace::retry_selected_tasks) runs an operation that no other row runs and that
\* has not succeeded.
THEOREM RunningAlwaysSpared == TaskSpec => SparesWhatRuns
  <1>1. TaskSpec => []TskIInv
    <2>1. TskIInv /\ [TaskNext]_tskVars => TskIInv'
      BY TskStepHolds
    <2> QED
      BY <2>1, TskInitHolds, PTL DEF TaskSpec
  <1>2. TskIInv /\ [TaskNext]_tskVars => [Spares]_tskVars
    BY TskStepHolds
  <1>3. [Spares]_tskVars <=>
            [ /\ ~TaskForgotten => Running \subseteq IdsOf(tasks')
              /\ \A new \in RowsOf(tasks') :
                     new.id \notin IdsOf(tasks) =>
                         /\ new.op \notin succeeded
                         /\ \A old \in RowsOf(tasks') : old.op = new.op => old = new ]_tskVars
    BY DEF Spares
  <1> QED
    BY <1>1, <1>2, <1>3, PTL DEF TaskSpec, SparesWhatRuns
=============================================================================
