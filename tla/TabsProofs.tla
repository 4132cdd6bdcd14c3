----------------------------- MODULE TabsProofs -----------------------------
(***************************************************************************)
(* What holds of the tab strips and the split view for every number of     *)
(* tabs: the groups are well formed, what polls is what is on screen, the  *)
(* focus stays on its tab, no tab is lost or copied, and the markers in    *)
(* the lists are those of the compare that is shown.                       *)
(***************************************************************************)
EXTENDS Tabs, FiniteSetTheorems, SequenceTheorems, WellFoundedInduction, TLAPS

-----------------------------------------------------------------------------
(* What the operators on sequences do                                         *)

LEMMA LeastOf ==
    ASSUME NEW T, T \subseteq Nat, T # {}
    PROVE  \E i \in T : \A j \in T : i <= j
  <1> DEFINE R == {ss \in Nat \X Nat : ss[1] < ss[2]}
  <1>1. IsWellFoundedOn(R, Nat)
    BY NatLessThanWellFounded, Zenon DEF OpToRel
  <1>2. PICK i \in T : \A j \in T : ~(<<j, i>> \in R)
    <2> HIDE DEF R
    <2> QED
      BY <1>1, WFMin, Zenon
  <1>3. \A j \in T : <<j, i>> \in R \/ i <= j
    OBVIOUS
  <1> QED
    BY <1>2, <1>3

\* Induction up to N, over the set of the numbers something holds of.
LEMMA UpTo ==
    ASSUME NEW N \in Nat, NEW T, 0 \in T, \A n \in 1 .. N : n - 1 \in T => n \in T
    PROVE  \A n \in 0 .. N : n \in T
  <1> DEFINE Rest == {n \in 0 .. N : n \notin T}
  <1> SUFFICES ASSUME Rest # {} PROVE FALSE
    OBVIOUS
  <1>1. PICK i \in Rest : \A j \in Rest : i <= j
    <2>1. Rest \subseteq Nat
      OBVIOUS
    <2> HIDE DEF Rest
    <2> QED
      BY <2>1, LeastOf
  <1>2. i \in 1 .. N /\ i \notin T
    BY <1>1
  <1>3. i - 1 \in 0 .. N /\ ~(i <= i - 1)
    BY <1>2
  <1>4. i - 1 \in T
    BY <1>1, <1>3
  <1> QED
    BY <1>2, <1>4

\* What is kept of the first n.
KeptOf(f, q, S, n) ==
    IF n = 0 THEN <<>>
    ELSE IF q[n] \in S THEN Append(f[n - 1], q[n]) ELSE f[n - 1]

LEMMA KeptExists ==
    ASSUME NEW q, NEW S, NEW N \in Nat
    PROVE  \E f : f = [n \in 0 .. N |-> KeptOf(f, q, S, n)]
  <1> DEFINE T == {n \in 0 .. N : \E f : f = [m \in 0 .. n |-> KeptOf(f, q, S, m)]}
  <1>1. 0 \in T
    <2> DEFINE f == [m \in 0 .. 0 |-> <<>>]
    <2>1. f = [m \in 0 .. 0 |-> KeptOf(f, q, S, m)]
      <3>1. \A m \in 0 .. 0 : KeptOf(f, q, S, m) = <<>>
        BY DEF KeptOf
      <3> QED
        BY <3>1
    <2> QED
      BY <2>1
  <1>2. ASSUME NEW n \in 1 .. N, n - 1 \in T PROVE n \in T
    <2>1. PICK f : f = [m \in 0 .. n - 1 |-> KeptOf(f, q, S, m)]
      BY <1>2
    <2> DEFINE g == [m \in 0 .. n |-> IF m = n THEN KeptOf(f, q, S, n) ELSE f[m]]
    <2>2. ASSUME NEW m \in 0 .. n PROVE g[m] = KeptOf(g, q, S, m)
      <3>1. CASE m = 0
        <4>1. g[m] = f[0] /\ f[0] = KeptOf(f, q, S, 0)
          BY <2>1, <3>1
        <4> QED
          BY <3>1, <4>1 DEF KeptOf
      <3>2. CASE m # 0
        <4>1. m - 1 \in 0 .. n /\ m - 1 # n /\ g[m - 1] = f[m - 1]
          BY <3>2
        <4>2. KeptOf(g, q, S, m) = KeptOf(f, q, S, m)
          BY <3>2, <4>1 DEF KeptOf
        <4>3. g[m] = KeptOf(f, q, S, m)
          <5>1. CASE m = n
            BY <5>1
          <5>2. CASE m # n
            <6>1. m \in 0 .. n - 1
              BY <5>2
            <6> QED
              BY <2>1, <5>2, <6>1
          <5> QED
            BY <5>1, <5>2
        <4> QED
          BY <4>2, <4>3
      <3> QED
        BY <3>1, <3>2
    <2>3. g = [m \in 0 .. n |-> KeptOf(g, q, S, m)]
      <3>1. g = [m \in 0 .. n |-> g[m]]
        OBVIOUS
      <3> HIDE DEF g
      <3> QED
        BY <2>2, <3>1
    <2>4. \E e : e = [m \in 0 .. n |-> KeptOf(e, q, S, m)]
      <3> HIDE DEF g
      <3> QED
        BY <2>3
    <2>5. n \in 0 .. N
      OBVIOUS
    <2> QED
      BY <2>4, <2>5
  <1> HIDE DEF T
  <1>3. N \in T
    BY <1>1, <1>2, UpTo
  <1> QED
    BY <1>3 DEF T

\* r has its elements in the order they have in q.
InOrderOf(r, q) ==
    \A i, j \in 1 .. Len(r) : i < j =>
        \E a, b \in 1 .. Len(q) : a < b /\ r[i] = q[a] /\ r[j] = q[b]

\* A filter keeps what passes and nothing else, no element twice, in order.
LEMMA KeepOnlyIs ==
    ASSUME NEW X, NEW q \in Seq(X), NEW S
    PROVE  LET k == KeepOnly(q, S)
           IN  /\ k \in Seq(X) /\ Len(k) <= Len(q)
               /\ Range(k) = Range(q) \cap S
               /\ IsInjective(q) => IsInjective(k)
               /\ InOrderOf(k, q)
  <1>1. Len(q) \in Nat /\ DOMAIN q = 1 .. Len(q) /\ \A i \in 1 .. Len(q) : q[i] \in X
    BY LenProperties, ElementOfSeq
  <1> DEFINE f == CHOOSE g : g = [n \in 0 .. Len(q) |-> KeptOf(g, q, S, n)]
             First(n) == {q[i] : i \in 1 .. n}
             InOrder(k, n) == \A i, j \in 1 .. Len(k) : i < j =>
                                  \E a, b \in 1 .. n : a < b /\ k[i] = q[a] /\ k[j] = q[b]
             T == {n \in 0 .. Len(q) :
                       /\ f[n] \in Seq(X) /\ Len(f[n]) <= n
                       /\ Range(f[n]) = First(n) \cap S
                       /\ IsInjective(q) => IsInjective(f[n])
                       /\ InOrder(f[n], n)}
  <1>2. f = [n \in 0 .. Len(q) |-> KeptOf(f, q, S, n)]
    BY <1>1, KeptExists
  <1>3. KeepOnly(q, S) = f[Len(q)]
    BY DEF KeepOnly, KeptOf
  <1> HIDE DEF f
  <1>4. 0 \in T
    <2>1. f[0] = <<>>
      BY <1>1, <1>2 DEF KeptOf
    <2>2. <<>> \in Seq(X) /\ Len(<<>>) = 0 /\ DOMAIN <<>> = {}
      BY EmptySeq
    <2>3. Range(<<>>) = {} /\ IsInjective(<<>>)
      BY <2>2 DEF Range, IsInjective
    <2>4. First(0) = {} /\ 0 \in 0 .. Len(q) /\ 0 <= 0
      BY <1>1
    <2>5. InOrder(<<>>, 0)
      BY <2>2
    <2> HIDE DEF First, InOrder
    <2> QED
      BY <2>1, <2>2, <2>3, <2>4, <2>5
  <1>5. ASSUME NEW n \in 1 .. Len(q), n - 1 \in T PROVE n \in T
    <2> DEFINE h == f[n - 1]
    <2>1. /\ h \in Seq(X) /\ Len(h) <= n - 1 /\ Len(h) \in Nat
          /\ Range(h) = First(n - 1) \cap S
          /\ IsInjective(q) => IsInjective(h)
          /\ InOrder(h, n - 1)
          /\ DOMAIN h = 1 .. Len(h)
      BY <1>5, LenProperties
    <2>2. f[n] = IF q[n] \in S THEN Append(h, q[n]) ELSE h
      <3>1. n \in 0 .. Len(q) /\ n # 0
        BY <1>1
      <3>2. f[n] = KeptOf(f, q, S, n)
        BY <1>2, <3>1
      <3> QED
        BY <3>1, <3>2 DEF KeptOf
    <2>3. First(n) = First(n - 1) \cup {q[n]}
      <3>1. \A i \in 1 .. n : i \in 1 .. n - 1 \/ i = n
        BY <1>1
      <3>2. n \in 1 .. n /\ \A i \in 1 .. n - 1 : i \in 1 .. n
        BY <1>1
      <3> QED
        BY <3>1, <3>2
    <2>4. n \in 0 .. Len(q) /\ q[n] \in X /\ n - 1 <= n
      BY <1>1
    <2>7. \A a \in 1 .. n - 1 : a \in 1 .. n /\ a < n
      BY <1>1
    <2>8. InOrder(h, n)
      BY <2>1, <2>7
    <2> HIDE DEF h, First, InOrder
    <2>5. CASE q[n] \notin S
      BY <1>1, <2>1, <2>2, <2>3, <2>4, <2>5, <2>8
    <2>6. CASE q[n] \in S
      <3> DEFINE k == Append(h, q[n])
      <3>1. /\ k \in Seq(X) /\ Len(k) = Len(h) + 1
            /\ \A i \in 1 .. Len(h) : k[i] = h[i]
            /\ k[Len(h) + 1] = q[n]
        BY <2>1, <2>4, AppendProperties
      <3>2. DOMAIN k = 1 .. Len(h) + 1
        BY <3>1, LenProperties
      <3> HIDE DEF k
      <3>3. \A i \in 1 .. Len(h) + 1 : i \in 1 .. Len(h) \/ i = Len(h) + 1
        BY <2>1
      <3>4. Len(h) + 1 \in 1 .. Len(h) + 1 /\ \A i \in 1 .. Len(h) : i \in 1 .. Len(h) + 1
        BY <2>1
      <3>5. Range(k) = Range(h) \cup {q[n]}
        BY <2>1, <3>1, <3>2, <3>3, <3>4 DEF Range
      <3>6. ASSUME IsInjective(q) PROVE IsInjective(k)
        <4>1. q[n] \notin Range(h)
          <5>1. \A i \in 1 .. n - 1 : i \in DOMAIN q /\ n \in DOMAIN q /\ i # n
            BY <1>1
          <5>2. q[n] \notin First(n - 1)
            BY <3>6, <5>1 DEF IsInjective, First
          <5> QED
            BY <2>1, <5>2
        <4>2. \A i \in 1 .. Len(h) : k[i] # q[n]
          BY <2>1, <3>1, <4>1 DEF Range
        <4>3. \A i, j \in 1 .. Len(h) : k[i] = k[j] => i = j
          BY <2>1, <3>1, <3>6 DEF IsInjective
        <4> QED
          BY <3>1, <3>2, <3>3, <4>2, <4>3 DEF IsInjective
      <3>9. InOrder(k, n)
        <4> SUFFICES ASSUME NEW i \in 1 .. Len(k), NEW j \in 1 .. Len(k), i < j
                     PROVE  \E a, b \in 1 .. n : a < b /\ k[i] = q[a] /\ k[j] = q[b]
          BY DEF InOrder
        <4>1. i \in 1 .. Len(h)
          BY <2>1, <3>1
        <4>2. CASE j \in 1 .. Len(h)
          BY <2>8, <3>1, <4>1, <4>2 DEF InOrder
        <4>3. CASE j = Len(h) + 1
          <5>1. k[i] \in First(n - 1)
            BY <2>1, <3>1, <4>1 DEF Range
          <5>2. PICK a \in 1 .. n - 1 : k[i] = q[a]
            BY <5>1 DEF First
          <5>3. a \in 1 .. n /\ a < n /\ n \in 1 .. n
            BY <1>1, <2>7
          <5> QED
            BY <3>1, <4>3, <5>2, <5>3
        <4> QED
          BY <3>1, <3>3, <4>2, <4>3
      <3>7. Len(k) <= n
        BY <1>1, <2>1, <3>1
      <3>8. f[n] = k
        BY <2>2, <2>6 DEF k
      <3> QED
        BY <2>1, <2>3, <2>4, <2>6, <3>1, <3>5, <3>6, <3>7, <3>8, <3>9
    <2> QED
      BY <2>5, <2>6
  <1>6. Len(q) \in T
    <2> HIDE DEF T
    <2>1. \A n \in 1 .. Len(q) : n - 1 \in T => n \in T
      BY <1>5
    <2>2. \A n \in 0 .. Len(q) : n \in T
      BY <1>1, <1>4, <2>1, UpTo
    <2> QED
      BY <1>1, <2>2
  <1>7. First(Len(q)) = Range(q)
    BY <1>1 DEF Range
  <1>8. InOrder(f[Len(q)], Len(q)) => InOrderOf(f[Len(q)], q)
    BY DEF InOrderOf
  <1> HIDE DEF First, InOrder
  <1> QED
    BY <1>3, <1>6, <1>7, <1>8

\* A piece of a sequence.
LEMMA PieceIs ==
    ASSUME NEW X, NEW q \in Seq(X), NEW m \in 1 .. Len(q) + 1, NEW n \in m - 1 .. Len(q)
    PROVE  /\ SubSeq(q, m, n) \in Seq(X)
           /\ Len(SubSeq(q, m, n)) = n - m + 1
           /\ \A i \in 1 .. n - m + 1 : SubSeq(q, m, n)[i] = q[m + i - 1]
  <1>1. Len(q) \in Nat /\ m \in Int /\ n \in Int /\ 1 <= m /\ n <= Len(q) /\ m <= n + 1
    BY LenProperties
  <1>2. \A i \in m .. n : q[i] \in X
    BY <1>1, ElementOfSeq
  <1>3. /\ SubSeq(q, m, n) \in Seq(X)
        /\ Len(SubSeq(q, m, n)) = IF m <= n THEN n - m + 1 ELSE 0
        /\ \A i \in 1 .. n - m + 1 : SubSeq(q, m, n)[i] = q[m + i - 1]
    BY <1>1, <1>2, SubSeqProperties
  <1> QED
    BY <1>1, <1>3

LEMMA RemovedIs ==
    ASSUME NEW X, NEW q \in Seq(X), NEW ix \in 1 .. Len(q)
    PROVE  /\ RemoveAt(q, ix) \in Seq(X) /\ Len(RemoveAt(q, ix)) = Len(q) - 1
           /\ \A i \in 1 .. Len(q) - 1 :
                  RemoveAt(q, ix)[i] = IF i < ix THEN q[i] ELSE q[i + 1]
  <1> DEFINE a == SubSeq(q, 1, ix - 1)
             z == SubSeq(q, ix + 1, Len(q))
             n == Len(q)
             m == ix + 1
  <1>1. n \in Nat /\ ix \in 1 .. n
    BY LenProperties
  <1>2. /\ a \in Seq(X) /\ Len(a) = ix - 1 /\ \A i \in 1 .. ix - 1 : a[i] = q[i]
    <2>1. 1 \in 1 .. Len(q) + 1 /\ ix - 1 \in 1 - 1 .. Len(q) /\ (ix - 1) - 1 + 1 = ix - 1
          /\ \A i \in 1 .. ix - 1 : 1 + i - 1 = i
      BY <1>1
    <2>2. /\ a \in Seq(X) /\ Len(a) = (ix - 1) - 1 + 1
          /\ \A i \in 1 .. (ix - 1) - 1 + 1 : a[i] = q[1 + i - 1]
      BY <2>1, PieceIs
    <2> QED
      BY <2>1, <2>2
  <1>3. /\ z \in Seq(X) /\ Len(z) = n - ix /\ \A i \in 1 .. n - ix : z[i] = q[ix + i]
    <2>1. m \in 1 .. Len(q) + 1 /\ n \in m - 1 .. Len(q) /\ n - m + 1 = n - ix
          /\ \A i \in 1 .. n - ix : m + i - 1 = ix + i
      BY <1>1
    <2>2. z = SubSeq(q, m, n)
      OBVIOUS
    <2> HIDE DEF m, n, z
    <2>3. /\ SubSeq(q, m, n) \in Seq(X) /\ Len(SubSeq(q, m, n)) = n - m + 1
          /\ \A i \in 1 .. n - m + 1 : SubSeq(q, m, n)[i] = q[m + i - 1]
      BY <2>1, PieceIs
    <2> QED
      BY <2>1, <2>2, <2>3
  <1>4. RemoveAt(q, ix) = a \o z
    BY DEF RemoveAt
  <1> HIDE DEF a, z, m
  <1>5. /\ a \o z \in Seq(X) /\ Len(a \o z) = Len(a) + Len(z)
        /\ \A i \in 1 .. Len(a) + Len(z) :
               (a \o z)[i] = IF i <= Len(a) THEN a[i] ELSE z[i - Len(a)]
    BY <1>2, <1>3, ConcatProperties
  <1>6. Len(a) + Len(z) = n - 1
    BY <1>1, <1>2, <1>3
  <1>7. ASSUME NEW i \in 1 .. n - 1 PROVE (a \o z)[i] = IF i < ix THEN q[i] ELSE q[i + 1]
    <2>1. CASE i < ix
      <3>1. i \in 1 .. ix - 1 /\ i <= Len(a)
        BY <1>1, <1>2, <2>1
      <3> QED
        BY <1>2, <1>5, <1>6, <2>1, <3>1
    <2>2. CASE ~(i < ix)
      <3>1. i - Len(a) \in 1 .. n - ix /\ ~(i <= Len(a)) /\ ix + (i - Len(a)) = i + 1
        BY <1>1, <1>2, <2>2
      <3> QED
        BY <1>3, <1>5, <1>6, <2>2, <3>1
    <2> QED
      BY <2>1, <2>2
  <1> QED
    BY <1>4, <1>5, <1>6, <1>7

\* r is q with e put in at p.
PutIn(r, q, p, e) ==
    /\ Len(r) = Len(q) + 1
    /\ \A i \in 1 .. Len(q) + 1 :
           r[i] = IF i < p THEN q[i] ELSE IF i = p THEN e ELSE q[i - 1]

LEMMA InsertedIs ==
    ASSUME NEW X, NEW q \in Seq(X), NEW e \in X, NEW p \in 1 .. Len(q) + 1
    PROVE  InsertAt(q, p, e) \in Seq(X) /\ PutIn(InsertAt(q, p, e), q, p, e)
  <1> DEFINE a == SubSeq(q, 1, p - 1)
             z == SubSeq(q, p, Len(q))
             n == Len(q)
             b == a \o <<e>>
  <1>1. n \in Nat /\ p \in 1 .. n + 1
    BY LenProperties
  <1>2. /\ a \in Seq(X) /\ Len(a) = p - 1 /\ \A i \in 1 .. p - 1 : a[i] = q[i]
    <2>1. 1 \in 1 .. Len(q) + 1 /\ p - 1 \in 1 - 1 .. Len(q) /\ (p - 1) - 1 + 1 = p - 1
          /\ \A i \in 1 .. p - 1 : 1 + i - 1 = i
      BY <1>1
    <2>2. /\ a \in Seq(X) /\ Len(a) = (p - 1) - 1 + 1
          /\ \A i \in 1 .. (p - 1) - 1 + 1 : a[i] = q[1 + i - 1]
      BY <2>1, PieceIs
    <2> QED
      BY <2>1, <2>2
  <1>3. /\ z \in Seq(X) /\ Len(z) = n - p + 1 /\ \A i \in 1 .. n - p + 1 : z[i] = q[p + i - 1]
    <2>1. n \in p - 1 .. Len(q)
      BY <1>1
    <2>2. z = SubSeq(q, p, n)
      OBVIOUS
    <2> HIDE DEF n, z
    <2> QED
      BY <2>1, <2>2, PieceIs
  <1>4. InsertAt(q, p, e) = b \o z
    BY DEF InsertAt
  <1> HIDE DEF a, z
  <1>5. /\ b \in Seq(X) /\ Len(b) = p
        /\ \A i \in 1 .. p : b[i] = IF i <= p - 1 THEN a[i] ELSE <<e>>[i - (p - 1)]
    <2>1. <<e>> \in Seq(X) /\ Len(<<e>>) = 1
      OBVIOUS
    <2>2. /\ b \in Seq(X) /\ Len(b) = Len(a) + 1
          /\ \A i \in 1 .. Len(a) + 1 : b[i] = IF i <= Len(a) THEN a[i] ELSE <<e>>[i - Len(a)]
      BY <1>2, <2>1, ConcatProperties
    <2>3. Len(a) + 1 = p
      BY <1>1, <1>2
    <2> QED
      BY <1>2, <2>2, <2>3
  <1>6. /\ \A i \in 1 .. p - 1 : b[i] = q[i]
        /\ b[p] = e
    <2>1. p \in 1 .. p /\ ~(p <= p - 1) /\ p - (p - 1) = 1
      BY <1>1
    <2>2. \A i \in 1 .. p - 1 : i \in 1 .. p /\ i <= p - 1
      BY <1>1
    <2> QED
      BY <1>2, <1>5, <2>1, <2>2
  <1> HIDE DEF b
  <1>7. /\ b \o z \in Seq(X) /\ Len(b \o z) = Len(b) + Len(z)
        /\ \A i \in 1 .. Len(b) + Len(z) :
               (b \o z)[i] = IF i <= Len(b) THEN b[i] ELSE z[i - Len(b)]
    BY <1>3, <1>5, ConcatProperties
  <1>8. Len(b) + Len(z) = n + 1
    BY <1>1, <1>3, <1>5
  <1>9. ASSUME NEW i \in 1 .. n + 1
        PROVE  (b \o z)[i] = IF i < p THEN q[i] ELSE IF i = p THEN e ELSE q[i - 1]
    <2>1. CASE i < p
      <3>1. i \in 1 .. p - 1 /\ i <= Len(b)
        BY <1>1, <1>5, <2>1
      <3> QED
        BY <1>6, <1>7, <1>8, <2>1, <3>1
    <2>2. CASE i = p
      <3>1. i <= Len(b) /\ ~(i < p)
        BY <1>1, <1>5, <2>2
      <3> QED
        BY <1>6, <1>7, <1>8, <2>2, <3>1
    <2>3. CASE ~(i < p) /\ i # p
      <3>1. i - Len(b) \in 1 .. n - p + 1 /\ ~(i <= Len(b)) /\ p + (i - Len(b)) - 1 = i - 1
        BY <1>1, <1>5, <2>3
      <3> QED
        BY <1>3, <1>7, <1>8, <2>3, <3>1
    <2> QED
      BY <2>1, <2>2, <2>3
  <1> QED
    BY <1>4, <1>7, <1>8, <1>9 DEF PutIn

LEMMA RemovedStrip ==
    ASSUME NEW X, NEW q \in Seq(X), IsInjective(q), NEW ix \in 1 .. Len(q)
    PROVE  /\ IsInjective(RemoveAt(q, ix))
           /\ ToSet(RemoveAt(q, ix)) = ToSet(q) \ {q[ix]}
           /\ InOrderOf(RemoveAt(q, ix), q)
  <1> DEFINE r == RemoveAt(q, ix)
             n == Len(q)
             At(i) == IF i < ix THEN i ELSE i + 1
  <1>1. /\ r \in Seq(X) /\ Len(r) = n - 1
        /\ \A i \in 1 .. n - 1 : r[i] = IF i < ix THEN q[i] ELSE q[i + 1]
    BY RemovedIs
  <1>2. n \in Nat /\ ix \in 1 .. n /\ DOMAIN q = 1 .. n /\ DOMAIN r = 1 .. n - 1
    BY <1>1, LenProperties
  <1>3. \A i \in 1 .. n - 1 : At(i) \in 1 .. n /\ At(i) # ix
    BY <1>2
  <1>4. \A i, j \in 1 .. n - 1 : (At(i) = At(j) => i = j) /\ (i < j => At(i) < At(j))
    BY <1>2
  <1>5. \A k \in 1 .. n : k # ix => \E i \in 1 .. n - 1 : At(i) = k
    <2> SUFFICES ASSUME NEW k \in 1 .. n, k # ix PROVE \E i \in 1 .. n - 1 : At(i) = k
      OBVIOUS
    <2>1. CASE k < ix
      <3>1. k \in 1 .. n - 1 /\ At(k) = k
        BY <1>2, <2>1
      <3> QED
        BY <3>1
    <2>2. CASE ~(k < ix)
      <3>1. k - 1 \in 1 .. n - 1 /\ At(k - 1) = k
        BY <1>2, <2>2
      <3> QED
        BY <3>1
    <2> QED
      BY <2>1, <2>2
  <1>6. \A i \in 1 .. n - 1 : r[i] = q[At(i)]
    BY <1>1
  <1> HIDE DEF r, n, At
  <1>7. IsInjective(r)
    BY <1>2, <1>3, <1>4, <1>6 DEF IsInjective
  <1>8. ToSet(r) = ToSet(q) \ {q[ix]}
    <2>1. \A i \in 1 .. n - 1 : q[At(i)] # q[ix]
      BY <1>2, <1>3 DEF IsInjective
    <2>2. \A v \in ToSet(r) : v \in ToSet(q) \ {q[ix]}
      BY <1>2, <1>3, <1>6, <2>1 DEF ToSet
    <2>3. ASSUME NEW v \in ToSet(q), v # q[ix] PROVE v \in ToSet(r)
      <3>1. PICK k \in 1 .. n : v = q[k]
        BY <1>2 DEF ToSet
      <3>2. PICK i \in 1 .. n - 1 : At(i) = k
        BY <1>5, <2>3, <3>1
      <3> QED
        BY <1>2, <1>6, <3>1, <3>2 DEF ToSet
    <2> QED
      BY <2>2, <2>3
  <1>9. InOrderOf(r, q)
    <2> SUFFICES ASSUME NEW i \in 1 .. n - 1, NEW j \in 1 .. n - 1, i < j
                 PROVE  \E a, b \in 1 .. n : a < b /\ r[i] = q[a] /\ r[j] = q[b]
      BY <1>1 DEF InOrderOf, n
    <2>1. At(i) < At(j) /\ r[i] = q[At(i)] /\ r[j] = q[At(j)]
          /\ At(i) \in 1 .. n /\ At(j) \in 1 .. n
      BY <1>3, <1>4, <1>6
    <2> QED
      BY <2>1
  <1> QED
    BY <1>7, <1>8, <1>9 DEF r

LEMMA InsertedStrip ==
    ASSUME NEW X, NEW q \in Seq(X), IsInjective(q), NEW e \in X, e \notin ToSet(q),
           NEW p \in 1 .. Len(q) + 1
    PROVE  /\ IsInjective(InsertAt(q, p, e))
           /\ ToSet(InsertAt(q, p, e)) = ToSet(q) \cup {e}
  <1> DEFINE r == InsertAt(q, p, e)
             n == Len(q)
             At(i) == IF i < p THEN i ELSE i - 1
  <1>1. /\ r \in Seq(X) /\ Len(r) = n + 1
        /\ \A i \in 1 .. n + 1 : r[i] = IF i < p THEN q[i] ELSE IF i = p THEN e ELSE q[i - 1]
    BY InsertedIs DEF PutIn
  <1>2. n \in Nat /\ p \in 1 .. n + 1 /\ DOMAIN q = 1 .. n /\ DOMAIN r = 1 .. n + 1
    BY <1>1, LenProperties
  <1>3. \A i \in 1 .. n + 1 : i # p => At(i) \in 1 .. n
    BY <1>2
  <1>4. \A i, j \in 1 .. n + 1 : i # p /\ j # p /\ At(i) = At(j) => i = j
    BY <1>2
  <1>5. \A k \in 1 .. n : \E i \in 1 .. n + 1 : i # p /\ At(i) = k
    <2> SUFFICES ASSUME NEW k \in 1 .. n PROVE \E i \in 1 .. n + 1 : i # p /\ At(i) = k
      OBVIOUS
    <2>1. CASE k < p
      <3>1. k \in 1 .. n + 1 /\ k # p /\ At(k) = k
        BY <1>2, <2>1
      <3> QED
        BY <3>1
    <2>2. CASE ~(k < p)
      <3>1. k + 1 \in 1 .. n + 1 /\ k + 1 # p /\ At(k + 1) = k
        BY <1>2, <2>2
      <3> QED
        BY <3>1
    <2> QED
      BY <2>1, <2>2
  <1>6. (\A i \in 1 .. n + 1 : i # p => r[i] = q[At(i)]) /\ r[p] = e
    BY <1>1, <1>2
  <1> HIDE DEF r, n, At
  <1>7. \A k \in 1 .. n : q[k] # e
    BY <1>2 DEF ToSet
  <1>8. IsInjective(r)
    BY <1>2, <1>3, <1>4, <1>6, <1>7 DEF IsInjective
  <1>9. ToSet(r) = ToSet(q) \cup {e}
    <2>1. \A v \in ToSet(r) : v \in ToSet(q) \cup {e}
      BY <1>2, <1>3, <1>6 DEF ToSet
    <2>2. e \in ToSet(r)
      BY <1>2, <1>6 DEF ToSet
    <2>3. ASSUME NEW v \in ToSet(q) PROVE v \in ToSet(r)
      <3>1. PICK k \in 1 .. n : v = q[k]
        BY <1>2 DEF ToSet
      <3>2. PICK i \in 1 .. n + 1 : i # p /\ At(i) = k
        BY <1>5
      <3> QED
        BY <1>2, <1>6, <3>1, <3>2 DEF ToSet
    <2> QED
      BY <2>1, <2>2, <2>3
  <1> QED
    BY <1>8, <1>9 DEF r

LEMMA AppendedStrip ==
    ASSUME NEW X, NEW q \in Seq(X), IsInjective(q), NEW e \in X, e \notin ToSet(q)
    PROVE  /\ Append(q, e) \in Seq(X) /\ Len(Append(q, e)) = Len(q) + 1
           /\ Append(q, e)[Len(q) + 1] = e
           /\ \A i \in 1 .. Len(q) : Append(q, e)[i] = q[i]
           /\ IsInjective(Append(q, e))
           /\ ToSet(Append(q, e)) = ToSet(q) \cup {e}
  <1> DEFINE r == Append(q, e)
             n == Len(q)
  <1>1. /\ r \in Seq(X) /\ Len(r) = n + 1 /\ r[n + 1] = e
        /\ \A i \in 1 .. n : r[i] = q[i]
    BY AppendProperties
  <1>2. n \in Nat /\ DOMAIN q = 1 .. n /\ DOMAIN r = 1 .. n + 1
    BY <1>1, LenProperties
  <1>3. (\A i \in 1 .. n + 1 : i \in 1 .. n \/ i = n + 1)
        /\ n + 1 \in 1 .. n + 1 /\ \A i \in 1 .. n : i \in 1 .. n + 1
    BY <1>2
  <1> HIDE DEF r
  <1>4. \A k \in 1 .. n : q[k] # e
    BY <1>2 DEF ToSet
  <1>5. IsInjective(r)
    <2> HIDE DEF n
    <2> QED
      BY <1>1, <1>2, <1>3, <1>4 DEF IsInjective
  <1>6. ToSet(r) = ToSet(q) \cup {e}
    <2> HIDE DEF n
    <2> QED
      BY <1>1, <1>2, <1>3 DEF ToSet
  <1> QED
    BY <1>1, <1>5, <1>6 DEF r

LEMMA JoinedStrip ==
    ASSUME NEW X, NEW q \in Seq(X), NEW r \in Seq(X), IsInjective(q), IsInjective(r),
           ToSet(q) \cap ToSet(r) = {}
    PROVE  /\ q \o r \in Seq(X)
           /\ IsInjective(q \o r)
           /\ ToSet(q \o r) = ToSet(q) \cup ToSet(r)
  <1> DEFINE s == q \o r
             n == Len(q)
             m == Len(r)
  <1>1. /\ s \in Seq(X) /\ Len(s) = n + m
        /\ \A i \in 1 .. n + m : s[i] = IF i <= n THEN q[i] ELSE r[i - n]
    BY ConcatProperties
  <1>2. /\ n \in Nat /\ m \in Nat
        /\ DOMAIN q = 1 .. n /\ DOMAIN r = 1 .. m /\ DOMAIN s = 1 .. n + m
    BY <1>1, LenProperties
  <1>3. \A i \in 1 .. n : i \in 1 .. n + m /\ s[i] = q[i]
    BY <1>1, <1>2
  <1>4. \A j \in 1 .. m : n + j \in 1 .. n + m /\ s[n + j] = r[j]
    <2> TAKE j \in 1 .. m
    <2>1. n + j \in 1 .. n + m /\ ~(n + j <= n) /\ (n + j) - n = j
      BY <1>2
    <2> QED
      BY <1>1, <2>1
  <1>5. \A i \in 1 .. n + m : i \in 1 .. n \/ \E j \in 1 .. m : i = n + j
    <2> TAKE i \in 1 .. n + m
    <2>1. CASE i <= n
      BY <1>2, <2>1
    <2>2. CASE ~(i <= n)
      <3>1. i - n \in 1 .. m /\ i = n + (i - n)
        BY <1>2, <2>2
      <3> QED
        BY <3>1
    <2> QED
      BY <2>1, <2>2
  <1> HIDE DEF s, n, m
  <1>6. IsInjective(s)
    <2> SUFFICES ASSUME NEW i \in 1 .. n + m, NEW k \in 1 .. n + m, s[i] = s[k] PROVE i = k
      BY <1>2 DEF IsInjective
    <2>1. \A a \in 1 .. n, b \in 1 .. m : q[a] # r[b]
      BY <1>2 DEF ToSet
    <2>2. CASE i \in 1 .. n /\ k \in 1 .. n
      BY <1>2, <1>3, <2>2 DEF IsInjective
    <2>3. CASE i \in 1 .. n /\ \E j \in 1 .. m : k = n + j
      BY <1>3, <1>4, <2>1, <2>3
    <2>4. CASE k \in 1 .. n /\ \E j \in 1 .. m : i = n + j
      BY <1>3, <1>4, <2>1, <2>4
    <2>5. CASE (\E j \in 1 .. m : i = n + j) /\ \E j \in 1 .. m : k = n + j
      <3>1. PICK a \in 1 .. m, b \in 1 .. m : i = n + a /\ k = n + b
        BY <2>5
      <3>2. r[a] = r[b]
        BY <1>4, <3>1
      <3> QED
        BY <1>2, <3>1, <3>2 DEF IsInjective
    <2> QED
      BY <1>5, <2>2, <2>3, <2>4, <2>5
  <1>7. ToSet(s) = ToSet(q) \cup ToSet(r)
    <2>1. ASSUME NEW x \in ToSet(s) PROVE x \in ToSet(q) \cup ToSet(r)
      <3>1. PICK i \in 1 .. n + m : x = s[i]
        BY <1>2 DEF ToSet
      <3>2. CASE i \in 1 .. n
        BY <1>2, <1>3, <3>1, <3>2 DEF ToSet
      <3>3. CASE \E j \in 1 .. m : i = n + j
        <4>1. PICK j \in 1 .. m : i = n + j
          BY <3>3
        <4> QED
          BY <1>2, <1>4, <3>1, <4>1 DEF ToSet
      <3> QED
        BY <1>5, <3>2, <3>3
    <2>2. \A x \in ToSet(q) : x \in ToSet(s)
      BY <1>2, <1>3 DEF ToSet
    <2>3. \A x \in ToSet(r) : x \in ToSet(s)
      BY <1>2, <1>4 DEF ToSet
    <2> QED
      BY <2>1, <2>2, <2>3
  <1> QED
    BY <1>1, <1>6, <1>7 DEF s

\* The pairs there are: a second one, and another one in its place.
ExtendedBy(r, X, q, e) ==
    /\ r \in Seq(X) /\ Len(r) = Len(q) + 1
    /\ \A i \in 1 .. Len(q) : r[i] = q[i]
    /\ r[Len(q) + 1] = e

LEMMA AppendIs ==
    ASSUME NEW X, NEW q \in Seq(X), NEW e \in X
    PROVE  ExtendedBy(Append(q, e), X, q, e)
  BY AppendProperties DEF ExtendedBy

ChangedAt(r, X, q, g, e) ==
    /\ r \in Seq(X) /\ Len(r) = Len(q)
    /\ \A h \in 1 .. Len(q) : r[h] = IF h = g THEN e ELSE q[h]

LEMMA ExceptIs ==
    ASSUME NEW X, NEW q \in Seq(X), NEW g \in 1 .. Len(q), NEW e \in X
    PROVE  ChangedAt([q EXCEPT ![g] = e], X, q, g, e)
  BY ExceptSeq DEF ChangedAt

LEMMA SecondIs ==
    ASSUME NEW X, NEW q \in Seq(X), Len(q) = 1, NEW e \in X
    PROVE  Append(q, e) = <<q[1], e>>
  <1> DEFINE r == Append(q, e)
  <1>1. ExtendedBy(r, X, q, e)
    BY AppendIs, Zenon
  <1> HIDE DEF r
  <1>2. r \in Seq(X) /\ Len(r) = 2 /\ r[1] = q[1] /\ r[2] = e
    BY <1>1 DEF ExtendedBy
  <1>3. r = <<r[1], r[2]>>
    BY <1>2
  <1>4. r = <<q[1], e>>
    BY <1>2, <1>3, Zenon
  <1> QED
    BY <1>4 DEF r

LEMMA OtherIs ==
    ASSUME NEW X, NEW q \in Seq(X), Len(q) = 2, NEW g \in 1 .. 2, NEW e \in X
    PROVE  /\ [q EXCEPT ![g] = e] \in Seq(X) /\ Len([q EXCEPT ![g] = e]) = 2
           /\ \A h \in 1 .. 2 : [q EXCEPT ![g] = e][h] = IF h = g THEN e ELSE q[h]
  <1>1. g \in 1 .. Len(q)
    OBVIOUS
  <1> DEFINE r == [q EXCEPT ![g] = e]
  <1>2. ChangedAt(r, X, q, g, e)
    BY <1>1, ExceptIs, Zenon
  <1> HIDE DEF r
  <1>3. r \in Seq(X) /\ Len(r) = 2 /\ \A h \in 1 .. 2 : r[h] = IF h = g THEN e ELSE q[h]
    BY <1>2 DEF ChangedAt
  <1> QED
    BY <1>3 DEF r

\* As many elements as places, when none is there twice.
LEMMA StripSize ==
    ASSUME NEW X, NEW q \in Seq(X), IsInjective(q)
    PROVE  IsFiniteSet(ToSet(q)) /\ Cardinality(ToSet(q)) = Len(q)
  <1>1. Len(q) \in Nat /\ DOMAIN q = 1 .. Len(q) /\ q = [i \in 1 .. Len(q) |-> q[i]]
    BY LenProperties
  <1>2. IsFiniteSet(1 .. Len(q)) /\ Cardinality(1 .. Len(q)) = Len(q)
    <2>1. 1 \in Int /\ Len(q) \in Int
      BY <1>1
    <2>2. /\ IsFiniteSet(1 .. Len(q))
          /\ Cardinality(1 .. Len(q)) = IF 1 > Len(q) THEN 0 ELSE Len(q) - 1 + 1
      BY <2>1, FS_Interval
    <2> QED
      BY <1>1, <2>2
  <1>3. q \in Bijection(1 .. Len(q), ToSet(q))
    <2>1. q \in [1 .. Len(q) -> ToSet(q)]
      BY <1>1 DEF ToSet
    <2>2. \A x, y \in 1 .. Len(q) : q[x] = q[y] => x = y
      BY <1>1 DEF IsInjective
    <2>3. \A y \in ToSet(q) : \E x \in 1 .. Len(q) : q[x] = y
      BY <1>1 DEF ToSet
    <2> QED
      BY <1>1, <2>1, <2>2, <2>3 DEF Bijection, Injection, Surjection, IsInjective
  <1>4. ExistsBijection(1 .. Len(q), ToSet(q))
    BY <1>3 DEF ExistsBijection
  <1> QED
    BY <1>2, <1>4, FS_Bijection

LEMMA SizesAdd ==
    ASSUME NEW S, NEW T, IsFiniteSet(S), IsFiniteSet(T), S \cap T = {},
           NEW m \in Nat, NEW n \in Nat, Cardinality(S) = m, Cardinality(T) = n
    PROVE  Cardinality(S \cup T) = m + n
  <1>1. Cardinality(S \cup T) = Cardinality(S) + Cardinality(T) - Cardinality(S \cap T)
    BY FS_Union
  <1>2. Cardinality(S \cap T) = 0
    BY FS_EmptySet
  <1> QED
    BY <1>1, <1>2

LEMMA OneLess ==
    \A m, n \in Nat : m = n - 1 => (m = 0 => n = 1) /\ (m # 0 => n > 1)
  OBVIOUS

-----------------------------------------------------------------------------
(* Well-formed groups, and what the operations make of them                   *)

Fits(x) ==
    /\ x \in Group
    /\ x.active \in 1 .. Len(x.tabs)
    /\ IsInjective(x.tabs)

Apart(gs) ==
    \A g, h \in 1 .. Len(gs) : g # h => ToSet(gs[g].tabs) \cap ToSet(gs[h].tabs) = {}

\* The groups but g have no tab of S.
Spared(gs, g, S) == \A h \in 1 .. Len(gs) : h # g => ToSet(gs[h].tabs) \cap S = {}

Well(gs) ==
    /\ gs \in Seq(Group)
    /\ Len(gs) \in 1 .. 2
    /\ \A g \in 1 .. Len(gs) : Fits(gs[g])
    /\ Apart(gs)

LEMMA FitsFacts ==
    ASSUME NEW x, Fits(x)
    PROVE  /\ x.tabs \in Seq(Ids) /\ Len(x.tabs) \in Nat /\ DOMAIN x.tabs = 1 .. Len(x.tabs)
           /\ x = [tabs |-> x.tabs, active |-> x.active]
           /\ ActiveOf(x) \in ToSet(x.tabs)
           /\ ToSet(x.tabs) \subseteq Ids
  <1>1. x.tabs \in Seq(Ids) /\ x = [tabs |-> x.tabs, active |-> x.active]
    BY DEF Fits, Group
  <1>2. Len(x.tabs) \in Nat /\ DOMAIN x.tabs = 1 .. Len(x.tabs)
    BY <1>1, LenProperties
  <1>3. ActiveOf(x) \in ToSet(x.tabs)
    BY <1>2 DEF Fits, ActiveOf, ToSet
  <1>4. ToSet(x.tabs) \subseteq Ids
    BY <1>1, <1>2, ElementOfSeq DEF ToSet
  <1> QED
    BY <1>1, <1>2, <1>3, <1>4

LEMMA TabsOfIs ==
    ASSUME NEW gs \in Seq(Group)
    PROVE  \A id : id \in TabsOf(gs) <=> \E g \in 1 .. Len(gs) : id \in ToSet(gs[g].tabs)
  <1>1. DOMAIN gs = 1 .. Len(gs)
    BY LenProperties
  <1> QED
    BY <1>1 DEF TabsOf

LEMMA ShownIsOpen ==
    ASSUME NEW gs, Well(gs)
    PROVE  /\ ShownIn(gs) = {ActiveOf(gs[g]) : g \in 1 .. Len(gs)}
           /\ ShownIn(gs) \subseteq TabsOf(gs)
           /\ TabsOf(gs) \subseteq Ids
           /\ \A g \in 1 .. Len(gs) : ToSet(gs[g].tabs) \subseteq TabsOf(gs)
                                      /\ ActiveOf(gs[g]) \in TabsOf(gs)
  <1>1. gs \in Seq(Group) /\ DOMAIN gs = 1 .. Len(gs)
    BY LenProperties DEF Well
  <1>2. \A g \in 1 .. Len(gs) :
            ActiveOf(gs[g]) \in ToSet(gs[g].tabs) /\ ToSet(gs[g].tabs) \subseteq Ids
    BY FitsFacts DEF Well
  <1> QED
    BY <1>1, <1>2, TabsOfIs DEF ShownIn

LEMMA ShownSame ==
    ASSUME NEW gs, NEW hs, Well(gs), Well(hs), Len(hs) = Len(gs),
           \A g \in 1 .. Len(gs) : ActiveOf(hs[g]) = ActiveOf(gs[g])
    PROVE  ShownIn(hs) = ShownIn(gs)
  <1>1. /\ ShownIn(gs) = {ActiveOf(gs[g]) : g \in 1 .. Len(gs)}
        /\ ShownIn(hs) = {ActiveOf(hs[g]) : g \in 1 .. Len(hs)}
    BY ShownIsOpen, Zenon
  <1> QED
    BY <1>1

LEMMA IndexIs ==
    ASSUME NEW q \in Seq(Ids), NEW id \in ToSet(q)
    PROVE  /\ IndexIn(q, id) \in 1 .. Len(q)
           /\ q[IndexIn(q, id)] = id
           /\ IsInjective(q) => \A i \in 1 .. Len(q) : q[i] = id => i = IndexIn(q, id)
  <1>1. DOMAIN q = 1 .. Len(q)
    BY LenProperties
  <1>2. \E i \in DOMAIN q : q[i] = id
    BY DEF ToSet
  <1>3. IndexIn(q, id) \in DOMAIN q /\ q[IndexIn(q, id)] = id
    BY <1>2, Zenon DEF IndexIn
  <1> QED
    BY <1>1, <1>3 DEF IsInjective

LEMMA PointingFits ==
    ASSUME NEW q \in Seq(Ids), IsInjective(q), NEW id \in ToSet(q)
    PROVE  /\ Fits(Pointing(q, id))
           /\ Pointing(q, id).tabs = q
           /\ ActiveOf(Pointing(q, id)) = id
  <1>1. IndexIn(q, id) \in 1 .. Len(q) /\ q[IndexIn(q, id)] = id
    BY IndexIs
  <1>2. IndexIn(q, id) \in Nat \ {0}
    <2>1. Len(q) \in Nat
      BY LenProperties
    <2> QED
      BY <1>1, <2>1
  <1>3. /\ Pointing(q, id) = [tabs |-> q, active |-> IndexIn(q, id)]
        /\ Pointing(q, id).tabs = q /\ Pointing(q, id).active = IndexIn(q, id)
    BY DEF Pointing
  <1>4. Pointing(q, id) \in Group
    BY <1>2, <1>3 DEF Group
  <1> HIDE DEF Pointing
  <1> QED
    BY <1>1, <1>3, <1>4 DEF Fits, ActiveOf

LEMMA WithoutFits ==
    ASSUME NEW x, Fits(x), NEW ix \in 1 .. Len(x.tabs)
    PROVE  /\ Without(x, ix) \in Group
           /\ Without(x, ix).tabs = RemoveAt(x.tabs, ix)
           /\ Len(x.tabs) > 1 => Fits(Without(x, ix))
           /\ ix # x.active => ActiveOf(Without(x, ix)) = ActiveOf(x)
  <1> DEFINE q == x.tabs
             r == RemoveAt(q, ix)
             n == Len(q)
             a == IF ix < x.active THEN x.active - 1 ELSE x.active
  <1>1. q \in Seq(Ids) /\ n \in Nat /\ IsInjective(q) /\ x.active \in 1 .. n /\ ix \in 1 .. n
    BY FitsFacts DEF Fits
  <1>2. /\ r \in Seq(Ids) /\ Len(r) = n - 1
        /\ \A i \in 1 .. n - 1 : r[i] = IF i < ix THEN q[i] ELSE q[i + 1]
    BY <1>1, RemovedIs
  <1>3. IsInjective(r)
    BY <1>1, RemovedStrip
  <1>4. /\ Without(x, ix) = [tabs |-> r, active |-> Clamp(a, r)]
        /\ Without(x, ix).tabs = r /\ Without(x, ix).active = Clamp(a, r)
    BY DEF Without
  <1>5. a \in 1 .. n
    BY <1>1
  <1>6. r = <<>> <=> n = 1
    <2>1. r = <<>> <=> Len(r) = 0
      BY <1>2, EmptySeq
    <2> QED
      BY <1>1, <1>2, <2>1
  <1> HIDE DEF q, r, n, Without
  <1>7. Clamp(a, r) \in Nat \ {0} /\ (n > 1 => Clamp(a, r) \in 1 .. n - 1)
        /\ (ix # x.active => Clamp(a, r) = a /\ a \in 1 .. n - 1)
    BY <1>1, <1>2, <1>5, <1>6 DEF Clamp
  <1>8. Without(x, ix) \in Group
    BY <1>2, <1>4, <1>7 DEF Group
  <1>9. ASSUME ix # x.active PROVE r[a] = q[x.active]
    BY <1>1, <1>2, <1>7, <1>9
  <1>10. ix # x.active => ActiveOf(Without(x, ix)) = ActiveOf(x)
    BY <1>4, <1>7, <1>9 DEF ActiveOf, q
  <1>11. n > 1 => Fits(Without(x, ix))
    BY <1>2, <1>3, <1>4, <1>7, <1>8 DEF Fits
  <1> QED
    BY <1>4, <1>8, <1>10, <1>11 DEF q, n, r

LEMMA SoleIs ==
    ASSUME NEW x, Fits(x)
    PROVE  /\ Well(<<x>>) /\ Len(<<x>>) = 1 /\ <<x>>[1] = x
           /\ TabsOf(<<x>>) = ToSet(x.tabs)
           /\ ShownIn(<<x>>) = {ActiveOf(x)}
  <1>1. <<x>> \in Seq(Group) /\ Len(<<x>>) = 1 /\ <<x>>[1] = x
    BY DEF Fits
  <1> DEFINE gs == <<x>>
  <1> HIDE DEF gs
  <1>2. gs \in Seq(Group) /\ Len(gs) = 1 /\ gs[1] = x /\ 1 .. Len(gs) = {1} /\ Len(gs) \in 1 .. 2
    BY <1>1 DEF gs
  <1>3. Well(gs)
    BY <1>2 DEF Well, Apart
  <1>4. TabsOf(gs) = ToSet(x.tabs)
    BY <1>2, TabsOfIs
  <1>5. ShownIn(gs) = {ActiveOf(x)}
    <2>1. ShownIn(gs) = {ActiveOf(gs[g]) : g \in 1 .. Len(gs)}
      BY <1>3, ShownIsOpen, Zenon
    <2> QED
      BY <1>2, <2>1
  <1> QED
    BY <1>1, <1>3, <1>4, <1>5 DEF gs

LEMMA PairIs ==
    ASSUME NEW x, NEW y, Fits(x), Fits(y), ToSet(x.tabs) \cap ToSet(y.tabs) = {}
    PROVE  /\ Well(<<x, y>>) /\ Len(<<x, y>>) = 2 /\ <<x, y>>[1] = x /\ <<x, y>>[2] = y
           /\ TabsOf(<<x, y>>) = ToSet(x.tabs) \cup ToSet(y.tabs)
  <1>1. <<x, y>> \in Seq(Group) /\ Len(<<x, y>>) = 2 /\ <<x, y>>[1] = x /\ <<x, y>>[2] = y
    BY DEF Fits
  <1> DEFINE gs == <<x, y>>
  <1> HIDE DEF gs
  <1>2. /\ gs \in Seq(Group) /\ Len(gs) = 2 /\ gs[1] = x /\ gs[2] = y
        /\ 1 .. Len(gs) = {1, 2} /\ Len(gs) \in 1 .. 2
    BY <1>1 DEF gs
  <1>3. Well(gs)
    BY <1>2 DEF Well, Apart
  <1>4. TabsOf(gs) = ToSet(x.tabs) \cup ToSet(y.tabs)
    BY <1>2, TabsOfIs
  <1> QED
    BY <1>1, <1>3, <1>4 DEF gs

\* new is gs with x for its group g.
Replaced(new, gs, g, x) ==
    /\ Well(new) /\ Len(new) = Len(gs)
    /\ \A h \in 1 .. Len(gs) : new[h] = IF h = g THEN x ELSE gs[h]
    /\ TabsOf(new) = (TabsOf(gs) \ ToSet(gs[g].tabs)) \cup ToSet(x.tabs)

LEMMA ReplaceIs ==
    ASSUME NEW gs, Well(gs), NEW g \in 1 .. Len(gs), NEW x, Fits(x),
           Spared(gs, g, ToSet(x.tabs))
    PROVE  Replaced([gs EXCEPT ![g] = x], gs, g, x)
  <1> DEFINE new == [gs EXCEPT ![g] = x]
  <1>1. gs \in Seq(Group) /\ x \in Group
    BY DEF Well, Fits
  <1>2. /\ new \in Seq(Group) /\ Len(new) = Len(gs)
        /\ \A h \in 1 .. Len(gs) : new[h] = IF h = g THEN x ELSE gs[h]
    BY <1>1, ExceptSeq
  <1> HIDE DEF new
  <1>3. Apart(new)
    BY <1>2 DEF Well, Apart, Spared
  <1>4. Well(new)
    BY <1>2, <1>3 DEF Well
  <1>5. TabsOf(new) = (TabsOf(gs) \ ToSet(gs[g].tabs)) \cup ToSet(x.tabs)
    <2>1. \A id : id \in TabsOf(new) <=> \E h \in 1 .. Len(gs) : id \in ToSet(new[h].tabs)
      BY <1>2, TabsOfIs
    <2>2. \A id : id \in TabsOf(gs) <=> \E h \in 1 .. Len(gs) : id \in ToSet(gs[h].tabs)
      BY <1>1, TabsOfIs
    <2>3. \A h \in 1 .. Len(gs) : h # g => ToSet(gs[h].tabs) \cap ToSet(gs[g].tabs) = {}
      BY DEF Well, Apart
    <2> QED
      BY <1>2, <2>1, <2>2, <2>3
  <1> QED
    BY <1>2, <1>4, <1>5 DEF new, Replaced

LEMMA DropGroupIs ==
    ASSUME NEW gs \in Seq(Group), Len(gs) = 2, NEW g \in 1 .. 2
    PROVE  RemoveAt(gs, g) = <<gs[3 - g]>>
  <1> DEFINE r == RemoveAt(gs, g)
  <1>1. g \in 1 .. Len(gs)
    OBVIOUS
  <1>2. /\ r \in Seq(Group) /\ Len(r) = 1
        /\ \A i \in 1 .. 1 : r[i] = IF i < g THEN gs[i] ELSE gs[i + 1]
    <2>1. /\ r \in Seq(Group) /\ Len(r) = Len(gs) - 1
          /\ \A i \in 1 .. Len(gs) - 1 : r[i] = IF i < g THEN gs[i] ELSE gs[i + 1]
      BY <1>1, RemovedIs
    <2> QED
      BY <2>1
  <1> HIDE DEF r
  <1>3. r[1] = gs[3 - g]
    <2>1. CASE g = 1
      BY <1>2, <2>1
    <2>2. CASE g = 2
      BY <1>2, <2>2
    <2> QED
      BY <2>1, <2>2
  <1>4. r = <<r[1]>>
    BY <1>2
  <1> QED
    BY <1>3, <1>4 DEF r

LEMMA Locate ==
    ASSUME NEW id \in OpenTabs, Well(groups)
    PROVE  /\ GroupOf(id) \in 1 .. Len(groups)
           /\ id \in ToSet(groups[GroupOf(id)].tabs)
           /\ \A g \in 1 .. Len(groups) : id \in ToSet(groups[g].tabs) => g = GroupOf(id)
  <1>1. groups \in Seq(Group) /\ DOMAIN groups = 1 .. Len(groups)
    BY LenProperties DEF Well
  <1>2. \E g \in DOMAIN groups : id \in ToSet(groups[g].tabs)
    BY <1>1, TabsOfIs DEF OpenTabs
  <1>3. GroupOf(id) \in DOMAIN groups /\ id \in ToSet(groups[GroupOf(id)].tabs)
    BY <1>2, Zenon DEF GroupOf
  <1> QED
    BY <1>1, <1>3 DEF Well, Apart

-----------------------------------------------------------------------------
(* The inductive invariant, in three parts                                    *)

(* TabsWellFormed in the form that is inductive: sizes follow from no tab  *)
(* being in a strip twice or in two strips, and a new tab is in none       *)
(* because every open one has a number that was handed out.                *)
Strips ==
    /\ Well(groups)
    /\ focused \in 1 .. Len(groups)
    /\ nextId \in 1 .. MaxTabs
    /\ OpenTabs \subseteq 0 .. nextId - 1
    /\ pinned \subseteq OpenTabs
    /\ opened \subseteq Ids
    /\ menu \in OpenTabs \cup {None}

(* MarkersOfResult needs the compares to be of tabs there have been: a new *)
(* tab is in none of them.                                                 *)
Marks ==
    /\ diff \in [Ids -> Compares \cup {None}]
    /\ result \in Compares \cup {None}
    /\ flight \in Compares \cup {None}
    /\ \A c \in {result, flight} : c # None => c.left < nextId /\ c.right < nextId
    /\ MarkersOfResult

TabsIInv == Strips /\ PollingIsVisible /\ Marks

\* What the last part of NothingLost says of a step.
StaysSorted ==
    /\ PinnedFirst
    /\ \A new \in ToSet(groups') : \E old \in ToSet(groups) :
           ToSet(new.tabs) \subseteq ToSet(old.tabs) \cup {nextId}
    => PinnedFirst'

Holds == TabsIInv' /\ StaysSorted

\* The pinned ones of a strip are its first.
Fronted(q, P) == \A i, j \in 1 .. Len(q) : i < j /\ q[j] \in P => q[i] \in P

LEMMA FrontedIs ==
    ASSUME NEW gs, Well(gs), NEW P
    PROVE  (\A g \in DOMAIN gs : \A i, j \in DOMAIN gs[g].tabs :
                i < j /\ gs[g].tabs[j] \in P => gs[g].tabs[i] \in P)
           <=> \A g \in 1 .. Len(gs) : Fronted(gs[g].tabs, P)
  <1>1. DOMAIN gs = 1 .. Len(gs)
    BY LenProperties DEF Well
  <1>2. \A g \in 1 .. Len(gs) : DOMAIN gs[g].tabs = 1 .. Len(gs[g].tabs)
    BY FitsFacts DEF Well
  <1> QED
    BY <1>1, <1>2 DEF Fronted

LEMMA FrontedFirst ==
    ASSUME TabsIInv, Well(groups')
    PROVE  /\ PinnedFirst <=> \A g \in 1 .. Len(groups) : Fronted(groups[g].tabs, pinned)
           /\ PinnedFirst' <=> \A g \in 1 .. Len(groups') : Fronted(groups'[g].tabs, pinned')
  <1>1. Well(groups)
    BY DEF TabsIInv, Strips
  <1> QED
    BY <1>1, FrontedIs DEF PinnedFirst

\* A step that only takes tabs out, or leaves the groups alone.
Thinned ==
    /\ pinned' = pinned \cap OpenTabs'
    /\ OpenTabs' \subseteq OpenTabs
    /\ \A h \in 1 .. Len(groups') : \E g \in 1 .. Len(groups) :
           InOrderOf(groups'[h].tabs, groups[g].tabs)

LEMMA SameOrder == ASSUME NEW q PROVE InOrderOf(q, q)
  BY DEF InOrderOf

LEMMA ThinnedSorted ==
    ASSUME TabsIInv, Well(groups'), Thinned
    PROVE  StaysSorted
  <1> SUFFICES ASSUME PinnedFirst PROVE PinnedFirst'
    BY DEF StaysSorted
  <1>1. \A g \in 1 .. Len(groups) : Fronted(groups[g].tabs, pinned)
    BY FrontedFirst
  <1>2. ASSUME NEW h \in 1 .. Len(groups') PROVE Fronted(groups'[h].tabs, pinned')
    <2>1. PICK g \in 1 .. Len(groups) : InOrderOf(groups'[h].tabs, groups[g].tabs)
      BY DEF Thinned
    <2>2. \A i \in 1 .. Len(groups'[h].tabs) : groups'[h].tabs[i] \in OpenTabs'
      <3>1. ToSet(groups'[h].tabs) \subseteq OpenTabs'
        BY ShownIsOpen DEF OpenTabs
      <3>2. DOMAIN groups'[h].tabs = 1 .. Len(groups'[h].tabs)
        BY FitsFacts DEF Well
      <3> QED
        BY <3>1, <3>2 DEF ToSet
    <2> DEFINE r == groups'[h].tabs
               q == groups[g].tabs
    <2>3. Fronted(q, pinned) /\ InOrderOf(r, q) /\ pinned' = pinned \cap OpenTabs'
      BY <1>1, <2>1 DEF Thinned
    <2> HIDE DEF r, q
    <2>4. \A i, j \in 1 .. Len(r) : i < j /\ r[j] \in pinned => r[i] \in pinned
      BY <2>3 DEF Fronted, InOrderOf
    <2> QED
      BY <2>2, <2>3, <2>4 DEF Fronted, r
  <1> QED
    BY <1>2, FrontedFirst

LEMMA StillThinned ==
    ASSUME TabsIInv, UNCHANGED <<groups, pinned>>
    PROVE  Thinned /\ Well(groups')
  <1>1. pinned \subseteq OpenTabs /\ OpenTabs' = OpenTabs /\ Well(groups)
    BY DEF TabsIInv, Strips, OpenTabs
  <1> QED
    BY <1>1, SameOrder DEF Thinned

\* The markers follow their tabs, and a new tab is in no compare.
LEMMA MarksKept ==
    ASSUME TabsIInv, result' = result, flight' \in {flight, None},
           nextId' \in {nextId, nextId + 1},
           OpenTabs' \subseteq OpenTabs \cup {nextId},
           diff' \in [Ids -> Compares \cup {None}],
           \A t \in OpenTabs' : t # nextId => diff'[t] = diff[t]
    PROVE  Marks'
  <1>1. nextId \in Nat /\ MarkersOfResult /\ result \in Compares \cup {None}
        /\ flight \in Compares \cup {None}
        /\ \A c \in {result, flight} : c # None => c.left < nextId /\ c.right < nextId
    BY TabsAssumption DEF TabsIInv, Strips, Marks
  <1>2. ASSUME NEW c \in {result', flight'}, c # None PROVE c.left < nextId' /\ c.right < nextId'
    <2>1. c \in Compares /\ c.left < nextId /\ c.right < nextId
      BY <1>1, <1>2
    <2>2. c.left \in Nat /\ c.right \in Nat
      BY <2>1 DEF Compares, Ids
    <2> QED
      BY <1>1, <2>1, <2>2
  <1>3. ASSUME result' # None, NEW t \in {result'.left, result'.right} \cap OpenTabs'
        PROVE  diff'[t] = result'
    <2>1. t < nextId
      BY <1>1, <1>3
    <2>2. t # nextId
      BY <1>1, <2>1
    <2>3. t \in OpenTabs /\ diff'[t] = diff[t]
      BY <1>3, <2>2
    <2> QED
      BY <1>1, <1>3, <2>3 DEF MarkersOfResult
  <1>4. flight' \in Compares \cup {None} /\ result' \in Compares \cup {None}
    BY <1>1
  <1> QED
    BY <1>2, <1>3, <1>4 DEF Marks, MarkersOfResult

LEMMA MarksCleared ==
    ASSUME TabsIInv, result' = None, flight' = flight, nextId' = nextId,
           diff' \in [Ids -> Compares \cup {None}]
    PROVE  Marks'
  <1>1. /\ flight \in Compares \cup {None}
        /\ flight # None => flight.left < nextId /\ flight.right < nextId
    BY DEF TabsIInv, Marks
  <1> QED
    BY <1>1 DEF Marks, MarkersOfResult

LEMMA MarksTyped ==
    ASSUME TabsIInv, NEW m \in [Ids -> Compares \cup {None}], NEW S
    PROVE  [t \in Ids |-> IF t \in S THEN m[t] ELSE None] \in [Ids -> Compares \cup {None}]
           /\ [t \in Ids |-> IF t \in S THEN None ELSE m[t]] \in [Ids -> Compares \cup {None}]
  OBVIOUS

\* Where the focus is.
LEMMA FocusedIs ==
    ASSUME TabsIInv
    PROVE  /\ Focused \in OpenTabs /\ Focused \in ToSet(groups[focused].tabs)
           /\ GroupOf(Focused) = focused
           /\ Focused \in Ids /\ OpenTabs \subseteq Ids
  <1>1. Well(groups) /\ focused \in 1 .. Len(groups)
    BY DEF TabsIInv, Strips
  <1>2. Focused \in ToSet(groups[focused].tabs)
    BY <1>1, FitsFacts DEF Well, Focused
  <1>3. Focused \in OpenTabs /\ OpenTabs \subseteq Ids
    BY <1>1, <1>2, ShownIsOpen DEF OpenTabs
  <1> QED
    BY <1>1, <1>2, <1>3, Locate

-----------------------------------------------------------------------------
(* What the shared parts of the handlers do                                   *)

LEMMA ResyncIs ==
    ASSUME NEW gs, Well(gs), NEW f \in 1 .. Len(gs), Resync(gs, f)
    PROVE  /\ groups' = gs /\ focused' = f
           /\ PollingIsVisible'
           /\ OpenTabs' = TabsOf(gs)
           /\ Focused' = ActiveOf(gs[f])
  BY DEF Resync, PollingIsVisible, OpenTabs, Focused

LEMMA ActivateIs ==
    ASSUME NEW gs, Well(gs), NEW g \in 1 .. Len(gs), NEW ix \in 1 .. Len(gs[g].tabs),
           Activate(gs, g, ix)
    PROVE  /\ Well(groups') /\ Len(groups') = Len(gs) /\ focused' = g /\ menu' = None
           /\ PollingIsVisible'
           /\ \A h \in 1 .. Len(gs) : groups'[h].tabs = gs[h].tabs
           /\ OpenTabs' = TabsOf(gs)
           /\ Focused' = gs[g].tabs[ix]
           /\ ix = gs[g].active => groups' = gs
  <1> DEFINE x == [gs[g] EXCEPT !.active = ix]
             new == [gs EXCEPT ![g] = x]
  <1>1. gs \in Seq(Group) /\ Fits(gs[g]) /\ gs[g] \in Group
    BY DEF Well, Fits
  <1>2. Clamp(ix, gs[g].tabs) = ix
    BY <1>1, FitsFacts DEF Clamp
  <1>3. x.tabs = gs[g].tabs /\ x.active = ix /\ x \in Group
    <2>1. ix \in Nat \ {0}
      BY <1>1, FitsFacts
    <2> QED
      BY <1>1, <2>1 DEF Group
  <1>4. Fits(x) /\ ActiveOf(x) = gs[g].tabs[ix]
    BY <1>1, <1>3 DEF Fits, ActiveOf
  <1>5. Spared(gs, g, ToSet(x.tabs))
    BY <1>3 DEF Well, Apart, Spared
  <1>6. Resync(new, g) /\ menu' = None
    <2>1. [gs EXCEPT ![g].active = ix] = new
      OBVIOUS
    <2> HIDE DEF new
    <2> QED
      BY <1>2, <2>1 DEF Activate
  <1> HIDE DEF x
  <1>7. /\ Well(new) /\ Len(new) = Len(gs)
        /\ \A h \in 1 .. Len(gs) : new[h] = IF h = g THEN x ELSE gs[h]
        /\ TabsOf(new) = (TabsOf(gs) \ ToSet(gs[g].tabs)) \cup ToSet(x.tabs)
    <2>1. Replaced(new, gs, g, x)
      BY <1>4, <1>5, ReplaceIs
    <2> QED
      BY <2>1 DEF Replaced
  <1>8. ToSet(gs[g].tabs) \subseteq TabsOf(gs)
    BY ShownIsOpen
  <1>9. TabsOf(new) = TabsOf(gs)
    BY <1>3, <1>7, <1>8
  <1>10. ix = gs[g].active => new = gs
    <2>1. ASSUME ix = gs[g].active PROVE x = gs[g]
      <3>1. gs[g] = [tabs |-> gs[g].tabs, active |-> gs[g].active]
        BY <1>1, FitsFacts
      <3>2. x = [tabs |-> gs[g].tabs, active |-> ix]
        BY <3>1 DEF x
      <3> QED
        BY <2>1, <3>1, <3>2
    <2>2. [gs EXCEPT ![g] = gs[g]] = gs
      <3>1. gs = [h \in 1 .. Len(gs) |-> gs[h]]
        BY <1>1, LenProperties
      <3> QED
        BY <3>1
    <2> QED
      BY <2>1, <2>2
  <1> HIDE DEF new
  <1>11. /\ groups' = new /\ focused' = g
         /\ PollingIsVisible' /\ OpenTabs' = TabsOf(new) /\ Focused' = ActiveOf(new[g])
    BY <1>6, <1>7, ResyncIs
  <1> QED
    BY <1>3, <1>4, <1>6, <1>7, <1>9, <1>10, <1>11

\* Only the group that is left matters: the other one may be an emptied strip.
LEMMA CloseGroupIs ==
    ASSUME TabsIInv, NEW gs \in Seq(Group), Len(gs) = 2, NEW g \in 1 .. 2, Fits(gs[3 - g]),
           CloseGroup(gs, g)
    PROVE  /\ groups' = <<gs[3 - g]>> /\ Well(groups') /\ focused' = 1 /\ Len(groups') = 1
           /\ PollingIsVisible' /\ menu' = None
           /\ OpenTabs' = ToSet(gs[3 - g].tabs)
           /\ Focused' = ActiveOf(gs[3 - g])
           /\ pinned' = pinned \cap OpenTabs' /\ opened' \subseteq Ids
           /\ diff' \in [Ids -> Compares \cup {None}] /\ result' = None
  <1> DEFINE x == gs[3 - g]
             rest == <<x>>
  <1>1. RemoveAt(gs, g) = rest
    BY DropGroupIs
  <1> HIDE DEF x, rest
  <1>2. /\ Fits(x)
        /\ Activate(rest, 1, rest[1].active) /\ KeepData(rest, Unmarked(rest)) /\ result' = None
    BY <1>1 DEF CloseGroup, x
  <1>3. /\ Well(rest) /\ Len(rest) = 1 /\ rest[1] = x /\ TabsOf(rest) = ToSet(x.tabs)
    BY <1>2, SoleIs DEF rest
  <1>4. 1 \in 1 .. Len(rest) /\ rest[1].active \in 1 .. Len(rest[1].tabs)
    BY <1>2, <1>3 DEF Fits
  <1>5. /\ Well(groups') /\ focused' = 1 /\ menu' = None /\ PollingIsVisible'
        /\ OpenTabs' = TabsOf(rest) /\ Focused' = rest[1].tabs[rest[1].active]
        /\ groups' = rest
    BY <1>2, <1>3, <1>4, ActivateIs
  <1>6. pinned' = pinned \cap OpenTabs' /\ opened' \subseteq Ids
    BY <1>2, <1>5 DEF KeepData, TabsIInv, Strips
  <1>7. diff' \in [Ids -> Compares \cup {None}]
    <2>1. diff \in [Ids -> Compares \cup {None}]
      BY DEF TabsIInv, Marks
    <2>2. Unmarked(rest) \in [Ids -> Compares \cup {None}]
      BY <2>1, MarksTyped DEF Unmarked
    <2> QED
      BY <1>2, <2>2, MarksTyped DEF KeepData
  <1> QED
    BY <1>2, <1>3, <1>5, <1>6, <1>7 DEF x, rest, ActiveOf

\* A group is replaced by one with fewer of its tabs.
LEMMA ShrunkIs ==
    ASSUME TabsIInv, NEW g \in 1 .. Len(groups), NEW x, Fits(x),
           ToSet(x.tabs) \subseteq ToSet(groups[g].tabs),
           InOrderOf(x.tabs, groups[g].tabs),
           NEW kept, Shrunk([groups EXCEPT ![g] = x], g, kept)
    PROVE  /\ Well(groups') /\ Len(groups') = Len(groups) /\ focused' = focused
           /\ PollingIsVisible'
           /\ OpenTabs' \subseteq OpenTabs
           /\ Focused' = IF g = focused THEN ActiveOf(x) ELSE Focused
           /\ menu' = IF g = focused THEN None ELSE kept
           /\ Thinned /\ opened' \subseteq Ids
           /\ diff' \in [Ids -> Compares \cup {None}] /\ result' = result
           /\ \A t \in OpenTabs' : diff'[t] = diff[t]
           /\ OpenTabs' = (OpenTabs \ ToSet(groups[g].tabs)) \cup ToSet(x.tabs)
  <1> DEFINE gs == [groups EXCEPT ![g] = x]
  <1>1. Well(groups) /\ focused \in 1 .. Len(groups) /\ pinned \subseteq OpenTabs
        /\ opened \subseteq Ids /\ handle = Focused
        /\ diff \in [Ids -> Compares \cup {None}]
    BY DEF TabsIInv, Strips, Marks, PollingIsVisible
  <1>2. Spared(groups, g, ToSet(x.tabs))
    BY <1>1 DEF Well, Apart, Spared
  <1>3. /\ Well(gs) /\ Len(gs) = Len(groups)
        /\ \A h \in 1 .. Len(groups) : gs[h] = IF h = g THEN x ELSE groups[h]
        /\ TabsOf(gs) = (OpenTabs \ ToSet(groups[g].tabs)) \cup ToSet(x.tabs)
    <2>1. Replaced(gs, groups, g, x)
      BY <1>1, <1>2, ReplaceIs
    <2> QED
      BY <2>1 DEF OpenTabs, Replaced
  <1> HIDE DEF gs
  <1>4. KeepData(gs, diff) /\ result' = result
    BY DEF Shrunk, gs
  <1>5. /\ groups' = gs /\ PollingIsVisible' /\ OpenTabs' = TabsOf(gs)
        /\ focused' = focused
        /\ menu' = IF g = focused THEN None ELSE kept
        /\ Focused' = IF g = focused THEN ActiveOf(x) ELSE Focused
    <2>1. CASE g = focused
      <3>1. Activate(gs, g, gs[g].active)
        BY <2>1 DEF Shrunk, gs
      <3>2. g \in 1 .. Len(gs) /\ gs[g] = x /\ gs[g].active \in 1 .. Len(gs[g].tabs)
        BY <1>3 DEF Fits
      <3>3. /\ groups' = gs /\ focused' = g /\ menu' = None /\ PollingIsVisible'
            /\ OpenTabs' = TabsOf(gs) /\ Focused' = gs[g].tabs[gs[g].active]
        BY <1>3, <3>1, <3>2, ActivateIs
      <3> QED
        BY <2>1, <3>2, <3>3 DEF ActiveOf
    <2>2. CASE g # focused
      <3>1. /\ groups' = gs /\ polling' = ShownIn(gs) /\ menu' = kept
            /\ focused' = focused /\ handle' = handle
        BY <2>2 DEF Shrunk, gs
      <3>2. Focused' = Focused
        BY <1>1, <1>3, <2>2, <3>1 DEF Focused
      <3>3. PollingIsVisible'
        BY <1>1, <3>1, <3>2 DEF PollingIsVisible
      <3> QED
        BY <2>2, <3>1, <3>2, <3>3 DEF OpenTabs
    <2> QED
      BY <2>1, <2>2
  <1>6. ToSet(groups[g].tabs) \subseteq OpenTabs /\ OpenTabs \subseteq Ids
    BY <1>1, ShownIsOpen DEF OpenTabs
  <1>7. OpenTabs' \subseteq OpenTabs
    BY <1>3, <1>5, <1>6
  <1>8. pinned' = pinned \cap OpenTabs' /\ opened' \subseteq Ids
    BY <1>1, <1>4, <1>5 DEF KeepData
  <1>9. ASSUME NEW h \in 1 .. Len(groups')
        PROVE  InOrderOf(groups'[h].tabs, groups[h].tabs) /\ h \in 1 .. Len(groups)
    BY <1>3, <1>5, SameOrder
  <1>10. Thinned
    BY <1>7, <1>8, <1>9 DEF Thinned
  <1>11. diff' = [t \in Ids |-> IF t \in OpenTabs' THEN diff[t] ELSE None]
    BY <1>4, <1>5 DEF KeepData
  <1>12. diff' \in [Ids -> Compares \cup {None}] /\ \A t \in OpenTabs' : diff'[t] = diff[t]
    BY <1>1, <1>6, <1>7, <1>11
  <1> QED
    BY <1>3, <1>4, <1>5, <1>7, <1>8, <1>10, <1>12

-----------------------------------------------------------------------------
(* The operations                                                             *)

LEMMA TabsInitHolds == Init => TabsIInv
  <1> SUFFICES ASSUME Init PROVE TabsIInv
    OBVIOUS
  <1> DEFINE x == [tabs |-> <<0>>, active |-> 1]
  <1>1. 0 \in Ids /\ MaxTabs \in Nat \ {0}
    BY TabsAssumption DEF Ids
  <1>2. Fits(x) /\ ToSet(x.tabs) = {0} /\ ActiveOf(x) = 0
    <2>1. <<0>> \in Seq(Ids) /\ Len(<<0>>) = 1 /\ DOMAIN <<0>> = {1} /\ <<0>>[1] = 0
      BY <1>1
    <2>2. x \in Group
      BY <2>1 DEF Group
    <2> QED
      BY <2>1, <2>2 DEF Fits, IsInjective, ToSet, ActiveOf
  <1> HIDE DEF x
  <1>3. groups = <<x>> /\ focused = 1 /\ pinned = {} /\ opened = {} /\ nextId = 1
        /\ polling = {0} /\ handle = 0 /\ menu = None
        /\ diff = [t \in Ids |-> None] /\ result = None /\ flight = None
    BY DEF Init, x
  <1>4. Well(groups) /\ Len(groups) = 1 /\ groups[1] = x /\ OpenTabs = {0} /\ ShownIn(groups) = {0}
    BY <1>2, <1>3, SoleIs DEF OpenTabs
  <1>5. Strips
    BY <1>1, <1>3, <1>4 DEF Strips
  <1>6. PollingIsVisible
    BY <1>2, <1>3, <1>4 DEF PollingIsVisible, Focused
  <1>7. Marks
    BY <1>3 DEF Marks, MarkersOfResult
  <1> QED
    BY <1>5, <1>6, <1>7 DEF TabsIInv

LEMMA StillHolds ==
    ASSUME TabsIInv, UNCHANGED <<groups, focused, pinned, nextId, polling, handle>>,
           opened' \subseteq Ids, menu' \in OpenTabs \cup {None}, Marks'
    PROVE  Holds
  <1>1. StaysSorted
    BY StillThinned, ThinnedSorted
  <1>2. OpenTabs' = OpenTabs /\ PollingIsVisible'
    BY DEF OpenTabs, PollingIsVisible, Focused, TabsIInv
  <1>3. Strips'
    BY <1>2 DEF Strips, TabsIInv
  <1> QED
    BY <1>1, <1>2, <1>3 DEF Holds, TabsIInv

\* A step that moves the focus or a menu and nothing else.
LEMMA FocusHolds ==
    ASSUME TabsIInv, UNCHANGED <<nextId, data, result, flight>>,
           Well(groups'), Len(groups') = Len(groups),
           \A h \in 1 .. Len(groups) : groups'[h].tabs = groups[h].tabs,
           OpenTabs' = OpenTabs, focused' \in 1 .. Len(groups'), PollingIsVisible',
           menu' \in OpenTabs \cup {None}
    PROVE  Holds
  <1>1. pinned \subseteq OpenTabs /\ opened \subseteq Ids /\ nextId \in 1 .. MaxTabs
        /\ OpenTabs \subseteq 0 .. nextId - 1
    BY DEF TabsIInv, Strips
  <1>2. Strips'
    BY <1>1 DEF Strips, data
  <1>3. Thinned
    BY <1>1, SameOrder DEF Thinned, data
  <1>4. StaysSorted
    BY <1>3, ThinnedSorted
  <1>5. Marks'
    BY MarksKept DEF data, TabsIInv, Marks
  <1> QED
    BY <1>2, <1>4, <1>5 DEF Holds, TabsIInv

LEMMA SelectHolds == ASSUME TabsIInv, NEW id \in OpenTabs, Select(id) PROVE Holds
  <1> DEFINE g == GroupOf(id)
             q == groups[g].tabs
  <1>1. Well(groups)
    BY DEF TabsIInv, Strips
  <1>2. g \in 1 .. Len(groups) /\ id \in ToSet(q)
    BY <1>1, Locate
  <1>3. q \in Seq(Ids)
    BY <1>1, <1>2, FitsFacts DEF Well
  <1>4. IndexIn(q, id) \in 1 .. Len(q)
    BY <1>2, <1>3, IndexIs
  <1>5. Activate(groups, g, IndexIn(q, id)) /\ UNCHANGED <<nextId, data, result, flight>>
    BY DEF Select
  <1> HIDE DEF g, q
  <1>6. /\ Well(groups') /\ Len(groups') = Len(groups) /\ focused' = g /\ menu' = None
        /\ PollingIsVisible'
        /\ \A h \in 1 .. Len(groups) : groups'[h].tabs = groups[h].tabs
        /\ OpenTabs' = TabsOf(groups)
    BY <1>1, <1>2, <1>4, <1>5, ActivateIs DEF q
  <1> QED
    BY <1>2, <1>5, <1>6, FocusHolds DEF OpenTabs

LEMMA FocusGroupHolds ==
    ASSUME TabsIInv, NEW g \in 1 .. Len(groups), Resync(groups, g),
           UNCHANGED <<nextId, data, result, flight>>, menu' \in OpenTabs \cup {None}
    PROVE  Holds
  <1>1. Well(groups)
    BY DEF TabsIInv, Strips
  <1>2. /\ groups' = groups /\ focused' = g /\ PollingIsVisible' /\ OpenTabs' = TabsOf(groups)
    BY <1>1, ResyncIs
  <1> QED
    BY <1>1, <1>2, FocusHolds DEF OpenTabs

\* A strip in another order, on the same tab.
LEMMA RearrangedIs ==
    ASSUME TabsIInv, NEW g \in 1 .. Len(groups), NEW q \in Seq(Ids), IsInjective(q),
           ToSet(q) = ToSet(groups[g].tabs),
           groups' = [groups EXCEPT ![g] = Pointing(q, ActiveOf(groups[g]))],
           UNCHANGED <<focused, polling, handle>>
    PROVE  /\ Well(groups') /\ Len(groups') = Len(groups) /\ PollingIsVisible'
           /\ OpenTabs' = OpenTabs /\ Focused' = Focused
           /\ \A h \in 1 .. Len(groups) :
                  groups'[h].tabs = IF h = g THEN q ELSE groups[h].tabs
  <1> DEFINE x == Pointing(q, ActiveOf(groups[g]))
  <1>1. Well(groups) /\ Fits(groups[g]) /\ focused \in 1 .. Len(groups) /\ PollingIsVisible
    BY DEF TabsIInv, Strips, Well
  <1>2. ActiveOf(groups[g]) \in ToSet(q)
    BY <1>1, FitsFacts
  <1>3. Fits(x) /\ x.tabs = q /\ ActiveOf(x) = ActiveOf(groups[g])
    BY <1>2, PointingFits
  <1>4. Spared(groups, g, ToSet(q))
    BY <1>1 DEF Well, Apart, Spared
  <1> HIDE DEF x
  <1>5. /\ Well(groups') /\ Len(groups') = Len(groups)
        /\ \A h \in 1 .. Len(groups) : groups'[h] = IF h = g THEN x ELSE groups[h]
        /\ OpenTabs' = (OpenTabs \ ToSet(groups[g].tabs)) \cup ToSet(q)
    <2>1. groups' = [groups EXCEPT ![g] = x]
      BY DEF x
    <2> QED
      <3>1. Spared(groups, g, ToSet(x.tabs))
        BY <1>3, <1>4
      <3>2. Replaced([groups EXCEPT ![g] = x], groups, g, x)
        BY <1>1, <1>3, <3>1, ReplaceIs
      <3>3. Replaced(groups', groups, g, x)
        BY <2>1, <3>2
      <3> QED
        BY <3>3, <1>3 DEF OpenTabs, Replaced
  <1>6. OpenTabs' = OpenTabs
    <2>1. ToSet(groups[g].tabs) \subseteq OpenTabs
      BY <1>1, ShownIsOpen DEF OpenTabs
    <2> QED
      BY <1>5, <2>1
  <1>7. \A h \in 1 .. Len(groups) : ActiveOf(groups'[h]) = ActiveOf(groups[h])
    BY <1>3, <1>5
  <1>8. Focused' = Focused
    BY <1>1, <1>7 DEF Focused
  <1>9. ShownIn(groups') = ShownIn(groups)
    BY <1>1, <1>5, <1>7, ShownSame
  <1>10. PollingIsVisible'
    BY <1>1, <1>8, <1>9 DEF PollingIsVisible
  <1> QED
    BY <1>3, <1>5, <1>6, <1>8, <1>10

LEMMA LeadingPinsIs ==
    ASSUME NEW q \in Seq(Ids)
    PROVE  LET n == LeadingPins(q)
           IN  /\ n \in 0 .. Len(q)
               /\ \A i \in 1 .. n : q[i] \in pinned
               /\ n = Len(q) \/ q[n + 1] \notin pinned
  <1> DEFINE T == {i \in 1 .. Len(q) : q[i] \notin pinned}
             Leads(n) == (\A i \in 1 .. n : q[i] \in pinned)
                         /\ (n = Len(q) \/ q[n + 1] \notin pinned)
  <1>1. Len(q) \in Nat
    BY LenProperties
  <1>2. \E n \in 0 .. Len(q) : Leads(n)
    <2>1. CASE T = {}
      <3>1. Len(q) \in 0 .. Len(q) /\ Leads(Len(q))
        BY <1>1, <2>1
      <3> QED
        BY <3>1
    <2>2. CASE T # {}
      <3>1. T \subseteq Nat
        BY <1>1
      <3>2. PICK i \in T : \A j \in T : i <= j
        <4> HIDE DEF T
        <4> QED
          BY <2>2, <3>1, LeastOf
      <3>3. i - 1 \in 0 .. Len(q) /\ (i - 1) + 1 = i /\ q[i] \notin pinned
            /\ \A j \in 1 .. i - 1 : j \in 1 .. Len(q) /\ ~(i <= j)
        BY <1>1, <3>2
      <3>4. \A j \in 1 .. i - 1 : q[j] \in pinned
        BY <3>2, <3>3
      <3>5. Leads(i - 1)
        BY <3>3, <3>4
      <3> QED
        BY <3>3, <3>5
    <2> QED
      BY <2>1, <2>2
  <1>3. LeadingPins(q) = CHOOSE n \in 0 .. Len(q) : Leads(n)
    BY DEF LeadingPins
  <1> HIDE DEF Leads, T
  <1>4. LeadingPins(q) \in 0 .. Len(q) /\ Leads(LeadingPins(q))
    BY <1>2, <1>3, Zenon
  <1> QED
    BY <1>4 DEF Leads

LEMMA TogglePinHolds ==
    ASSUME TabsIInv, NEW id \in OpenTabs, TogglePin(id)
    PROVE  Holds /\ OpenTabs' = OpenTabs /\ Focused' = Focused
  <1> DEFINE g == GroupOf(id)
             t == groups[g].tabs
             rest == RemoveAt(t, IndexIn(t, id))
             p == LeadingPins(rest) + 1
             q == InsertAt(rest, p, id)
  <1>1. Well(groups) /\ pinned \subseteq OpenTabs /\ opened \subseteq Ids
        /\ nextId \in 1 .. MaxTabs /\ OpenTabs \subseteq 0 .. nextId - 1 /\ OpenTabs \subseteq Ids
        /\ focused \in 1 .. Len(groups)
    BY FocusedIs DEF TabsIInv, Strips
  <1>2. g \in 1 .. Len(groups) /\ id \in ToSet(t)
        /\ \A h \in 1 .. Len(groups) : id \in ToSet(groups[h].tabs) => h = g
    BY <1>1, Locate
  <1>3. t \in Seq(Ids) /\ IsInjective(t)
    BY <1>1, <1>2, FitsFacts DEF Well, Fits
  <1>4. IndexIn(t, id) \in 1 .. Len(t) /\ t[IndexIn(t, id)] = id
    BY <1>2, <1>3, IndexIs
  <1>5. rest \in Seq(Ids)
    BY <1>3, <1>4, RemovedIs
  <1>6. IsInjective(rest) /\ ToSet(rest) = ToSet(t) \ {id} /\ InOrderOf(rest, t)
    BY <1>3, <1>4, RemovedStrip
  <1>7. /\ LeadingPins(rest) \in 0 .. Len(rest)
        /\ \A i \in 1 .. LeadingPins(rest) : rest[i] \in pinned
        /\ LeadingPins(rest) = Len(rest) \/ rest[LeadingPins(rest) + 1] \notin pinned
    BY <1>5, LeadingPinsIs
  <1>8. Len(rest) \in Nat /\ p \in 1 .. Len(rest) + 1
    BY <1>5, <1>7, LenProperties
  <1>9. /\ groups' = [groups EXCEPT ![g] = Pointing(q, ActiveOf(groups[g]))]
        /\ pinned' = IF id \in pinned THEN pinned \ {id} ELSE pinned \cup {id}
        /\ menu' = None
        /\ UNCHANGED <<focused, opened, nextId, polling, handle, diff, result, flight>>
    BY DEF TogglePin, overlay
  <1> HIDE DEF g, t, rest, p
  <1>10. /\ q \in Seq(Ids) /\ Len(q) = Len(rest) + 1
         /\ \A i \in 1 .. Len(rest) + 1 :
                q[i] = IF i < p THEN rest[i] ELSE IF i = p THEN id ELSE rest[i - 1]
    BY <1>1, <1>5, <1>8, InsertedIs DEF PutIn
  <1>11. IsInjective(q) /\ ToSet(q) = ToSet(t)
    <2>1. id \in Ids /\ id \notin ToSet(rest)
      BY <1>1, <1>6
    <2>2. IsInjective(q) /\ ToSet(q) = ToSet(rest) \cup {id}
      BY <1>5, <1>6, <1>8, <2>1, InsertedStrip
    <2> QED
      BY <1>2, <1>6, <2>2
  <1> HIDE DEF q
  <1>12. /\ Well(groups') /\ Len(groups') = Len(groups) /\ PollingIsVisible'
         /\ OpenTabs' = OpenTabs /\ Focused' = Focused
         /\ \A h \in 1 .. Len(groups) : groups'[h].tabs = IF h = g THEN q ELSE groups[h].tabs
    BY <1>2, <1>9, <1>10, <1>11, RearrangedIs DEF t
  <1>13. Strips'
    BY <1>1, <1>9, <1>12 DEF Strips
  <1>14. Marks'
    BY <1>9, <1>12, MarksKept DEF TabsIInv, Marks
  <1>15. StaysSorted
    <2> SUFFICES ASSUME PinnedFirst PROVE PinnedFirst'
      BY DEF StaysSorted
    <2>1. \A h \in 1 .. Len(groups) : Fronted(groups[h].tabs, pinned)
      BY <1>12, FrontedFirst
    <2>2. ASSUME NEW h \in 1 .. Len(groups), h # g PROVE Fronted(groups'[h].tabs, pinned')
      <3>1. \A i \in 1 .. Len(groups[h].tabs) : groups[h].tabs[i] # id
        <4>1. DOMAIN groups[h].tabs = 1 .. Len(groups[h].tabs)
          BY <1>1, FitsFacts DEF Well
        <4> QED
          BY <1>2, <2>2, <4>1 DEF ToSet
      <3> QED
        BY <1>9, <1>12, <2>1, <2>2, <3>1 DEF Fronted
    <2>3. Fronted(q, pinned')
      <3>1. \A i \in 1 .. Len(rest) : rest[i] # id
        <4>1. DOMAIN rest = 1 .. Len(rest)
          BY <1>5, LenProperties
        <4> QED
          BY <1>6, <4>1 DEF ToSet
      <3>2. \A i, j \in 1 .. Len(rest) : i < j /\ rest[j] \in pinned => rest[i] \in pinned
        BY <1>2, <1>6, <2>1 DEF Fronted, InOrderOf, t
      <3>3. \A i \in 1 .. Len(rest) : (i < p => rest[i] \in pinned')
                                      /\ (~(i < p) => rest[i] \notin pinned')
        <4> SUFFICES ASSUME NEW i \in 1 .. Len(rest)
                     PROVE  (i < p => rest[i] \in pinned) /\ (~(i < p) => rest[i] \notin pinned)
          BY <1>9, <3>1
        <4>1. CASE i < p
          <5>1. i \in 1 .. LeadingPins(rest)
            BY <1>7, <1>8, <4>1 DEF p
          <5> QED
            BY <1>7, <4>1, <5>1
        <4>2. CASE ~(i < p)
          <5>1. p \in 1 .. Len(rest) /\ rest[p] \notin pinned /\ (i = p \/ p < i)
            BY <1>7, <1>8, <4>2 DEF p
          <5> QED
            BY <3>2, <4>2, <5>1
        <4> QED
          BY <4>1, <4>2
      <3> SUFFICES ASSUME NEW i \in 1 .. Len(q), NEW j \in 1 .. Len(q), i < j, q[j] \in pinned'
                   PROVE  q[i] \in pinned'
        BY DEF Fronted
      <3>4. ~(p < j)
        <4> SUFFICES ASSUME p < j PROVE FALSE
          OBVIOUS
        <4>1. j - 1 \in 1 .. Len(rest) /\ ~(j - 1 < p) /\ ~(j < p) /\ j # p
          BY <1>8, <1>10
        <4> QED
          BY <1>10, <3>3, <4>1
      <3>5. i < p /\ i \in 1 .. Len(rest)
        BY <1>8, <1>10, <3>4
      <3> QED
        BY <1>10, <3>3, <3>5
    <2>4. \A h \in 1 .. Len(groups') : Fronted(groups'[h].tabs, pinned')
      BY <1>12, <2>2, <2>3
    <2> QED
      BY <1>12, <2>4, FrontedFirst
  <1> QED
    BY <1>12, <1>13, <1>14, <1>15 DEF Holds, TabsIInv

LEMMA ReorderHolds ==
    ASSUME TabsIInv, NEW from \in OpenTabs, NEW to \in OpenTabs, Reorder(from, to)
    PROVE  Holds /\ OpenTabs' = OpenTabs /\ Focused' = Focused
  <1> DEFINE g == GroupOf(from)
             t == groups[g].tabs
             a == IndexIn(t, from)
             b == IndexIn(t, to)
             rest == RemoveAt(t, a)
             dest == IF a < b THEN b - 1 ELSE b
             q == InsertAt(rest, dest, from)
  <1>1. Well(groups) /\ pinned \subseteq OpenTabs /\ opened \subseteq Ids
        /\ nextId \in 1 .. MaxTabs /\ OpenTabs \subseteq 0 .. nextId - 1 /\ OpenTabs \subseteq Ids
        /\ focused \in 1 .. Len(groups)
    BY FocusedIs DEF TabsIInv, Strips
  <1>2. g \in 1 .. Len(groups) /\ from \in ToSet(t) /\ to \in ToSet(t) /\ from # to
    <2>1. GroupOf(from) = GroupOf(to) /\ from # to
      BY DEF Reorder
    <2> QED
      BY <1>1, <2>1, Locate
  <1>3. t \in Seq(Ids) /\ IsInjective(t) /\ Len(t) \in Nat
    BY <1>1, <1>2, FitsFacts DEF Well, Fits
  <1>4. a \in 1 .. Len(t) /\ t[a] = from /\ b \in 1 .. Len(t) /\ t[b] = to
    BY <1>2, <1>3, IndexIs
  <1>5. /\ rest \in Seq(Ids) /\ Len(rest) = Len(t) - 1
        /\ \A i \in 1 .. Len(t) - 1 : rest[i] = IF i < a THEN t[i] ELSE t[i + 1]
    BY <1>3, <1>4, RemovedIs
  <1>6. IsInjective(rest) /\ ToSet(rest) = ToSet(t) \ {from}
    BY <1>3, <1>4, RemovedStrip
  <1>7. dest \in 1 .. Len(rest) + 1 /\ a # b
    BY <1>2, <1>3, <1>4, <1>5
  <1>8. /\ groups' = [groups EXCEPT ![g] = Pointing(q, ActiveOf(groups[g]))]
        /\ (from \in pinned <=> to \in pinned)
        /\ menu = None
        /\ UNCHANGED <<focused, nextId, polling, handle, menu, pinned, opened, diff, result, flight>>
    BY DEF Reorder, data
  <1> HIDE DEF g, t, rest, a, b
  <1>9. /\ q \in Seq(Ids) /\ Len(q) = Len(t)
        /\ \A i \in 1 .. Len(t) :
               q[i] = IF i < dest THEN rest[i] ELSE IF i = dest THEN from ELSE rest[i - 1]
    <2>1. Len(rest) + 1 = Len(t)
      BY <1>3, <1>5
    <2> HIDE DEF dest
    <2> QED
      BY <1>1, <1>5, <1>7, <2>1, InsertedIs DEF PutIn
  <1>10. IsInjective(q) /\ ToSet(q) = ToSet(t)
    <2>1. from \in Ids /\ from \notin ToSet(rest)
      BY <1>1, <1>6
    <2>2. IsInjective(q) /\ ToSet(q) = ToSet(rest) \cup {from}
      BY <1>5, <1>6, <1>7, <2>1, InsertedStrip
    <2> QED
      BY <1>2, <1>6, <2>2
  <1> HIDE DEF q
  <1>11. /\ Well(groups') /\ Len(groups') = Len(groups) /\ PollingIsVisible'
         /\ OpenTabs' = OpenTabs /\ Focused' = Focused
         /\ \A h \in 1 .. Len(groups) : groups'[h].tabs = IF h = g THEN q ELSE groups[h].tabs
    BY <1>2, <1>8, <1>9, <1>10, RearrangedIs DEF t
  <1>12. Strips'
    BY <1>1, <1>8, <1>11 DEF Strips
  <1>13. Marks'
    BY <1>8, <1>11, MarksKept DEF TabsIInv, Marks
  <1>14. StaysSorted
    <2> SUFFICES ASSUME PinnedFirst PROVE PinnedFirst'
      BY DEF StaysSorted
    <2>1. \A h \in 1 .. Len(groups) : Fronted(groups[h].tabs, pinned)
      BY <1>11, FrontedFirst
    <2>2. Fronted(q, pinned)
      <3>1. Fronted(t, pinned)
        BY <1>2, <2>1 DEF t
      <3> DEFINE At(i) == IF i < dest THEN IF i < a THEN i ELSE i + 1
                          ELSE IF i - 1 < a THEN i - 1 ELSE i
      <3>2. \A i \in 1 .. Len(t) : i # dest => At(i) \in 1 .. Len(t)
        BY <1>3, <1>4, <1>5, <1>7
      <3>3. \A i, j \in 1 .. Len(t) : i # dest /\ j # dest /\ i < j => At(i) < At(j)
        BY <1>3, <1>4, <1>5, <1>7
      <3>4. \A i \in 1 .. Len(t) : (i < dest => At(i) < b) /\ (dest < i => At(i) = b \/ b < At(i))
        BY <1>3, <1>4, <1>5, <1>7
      <3>5. ASSUME NEW i \in 1 .. Len(t), i # dest PROVE q[i] = t[At(i)]
        <4>1. CASE i < dest
          <5>1. i \in 1 .. Len(t) - 1
            BY <1>3, <1>5, <1>7, <4>1
          <5> QED
            BY <1>5, <1>9, <4>1, <5>1
        <4>2. CASE ~(i < dest)
          <5>1. i - 1 \in 1 .. Len(t) - 1 /\ (i - 1) + 1 = i
            BY <1>3, <1>5, <1>7, <3>5, <4>2
          <5> QED
            BY <1>5, <1>9, <3>5, <4>2, <5>1
        <4> QED
          BY <4>1, <4>2
      <3>6. dest \in 1 .. Len(t) /\ q[dest] = from
        BY <1>3, <1>5, <1>7, <1>9
      <3> HIDE DEF dest, At
      <3> SUFFICES ASSUME NEW i \in 1 .. Len(t), NEW j \in 1 .. Len(t), i < j, q[j] \in pinned
                   PROVE  q[i] \in pinned
        BY <1>9 DEF Fronted
      <3>7. CASE i # dest /\ j # dest
        BY <3>1, <3>2, <3>3, <3>5, <3>7 DEF Fronted
      <3>8. CASE j = dest
        <4>1. i # dest /\ i < dest
          BY <3>6, <3>8
        <4>2. t[b] \in pinned /\ At(i) < b /\ At(i) \in 1 .. Len(t)
          BY <1>4, <1>8, <3>2, <3>4, <3>6, <3>8, <4>1
        <4> QED
          BY <1>4, <3>1, <3>5, <4>1, <4>2 DEF Fronted
      <3>9. CASE i = dest
        <4>1. j # dest /\ dest < j
          BY <3>6, <3>9
        <4>2. t[At(j)] \in pinned /\ At(j) \in 1 .. Len(t) /\ (At(j) = b \/ b < At(j))
          BY <3>2, <3>4, <3>5, <4>1
        <4>3. t[b] \in pinned
          BY <1>4, <3>1, <4>2 DEF Fronted
        <4> QED
          BY <1>4, <1>8, <3>6, <3>9, <4>3
      <3> QED
        BY <3>7, <3>8, <3>9
    <2>3. \A h \in 1 .. Len(groups') : Fronted(groups'[h].tabs, pinned')
      BY <1>8, <1>11, <2>1, <2>2
    <2> QED
      BY <1>11, <2>3, FrontedFirst
  <1> QED
    BY <1>11, <1>12, <1>13, <1>14 DEF Holds, TabsIInv

LEMMA CloseHolds ==
    ASSUME TabsIInv, NEW id \in OpenTabs, NEW kept,
           kept = None \/ (kept = menu /\ id = Focused),
           Close(id, kept)
    PROVE  Holds /\ (id # Focused => Focused' = Focused)
  <1> DEFINE g == GroupOf(id)
             t == groups[g].tabs
             ix == IndexIn(t, id)
             x == Without(groups[g], ix)
  <1>1. Well(groups) /\ pinned \subseteq OpenTabs /\ opened \subseteq Ids
        /\ nextId \in 1 .. MaxTabs /\ OpenTabs \subseteq 0 .. nextId - 1
        /\ focused \in 1 .. Len(groups) /\ Len(groups) \in 1 .. 2
        /\ menu \in OpenTabs \cup {None}
    BY DEF TabsIInv, Strips, Well
  <1>2. g \in 1 .. Len(groups) /\ id \in ToSet(t)
    BY <1>1, Locate
  <1>3. Fits(groups[g]) /\ t \in Seq(Ids) /\ IsInjective(t) /\ Len(t) \in Nat
        /\ DOMAIN t = 1 .. Len(t) /\ groups[g].active \in 1 .. Len(t)
    BY <1>1, <1>2, FitsFacts DEF Well, Fits
  <1>4. ix \in 1 .. Len(t) /\ t[ix] = id
    BY <1>2, <1>3, IndexIs
  <1>5. id = Focused => g = focused
    BY FocusedIs
  <1>6. UNCHANGED <<nextId, flight>>
    BY DEF Close
  <1>7. CASE Len(t) > 1
    <2>1. Shrunk([groups EXCEPT ![g] = x], g, kept)
      BY <1>7 DEF Close
    <2>2. Fits(x) /\ x.tabs = RemoveAt(t, ix) /\ (ix # groups[g].active => ActiveOf(x) = ActiveOf(groups[g]))
      BY <1>3, <1>4, <1>7, WithoutFits
    <2>3. ToSet(x.tabs) = ToSet(t) \ {id} /\ InOrderOf(x.tabs, t)
      BY <1>3, <1>4, <2>2, RemovedStrip
    <2> HIDE DEF g, t, ix, x
    <2>4. /\ Well(groups') /\ Len(groups') = Len(groups) /\ focused' = focused
          /\ PollingIsVisible'
          /\ OpenTabs' \subseteq OpenTabs
          /\ Focused' = IF g = focused THEN ActiveOf(x) ELSE Focused
          /\ menu' = IF g = focused THEN None ELSE kept
          /\ Thinned /\ opened' \subseteq Ids
          /\ diff' \in [Ids -> Compares \cup {None}] /\ result' = result
          /\ \A i \in OpenTabs' : diff'[i] = diff[i]
      BY <1>2, <2>1, <2>2, <2>3, ShrunkIs DEF t
    <2>5. menu' = None
      BY <1>5, <2>4
    <2>6. StaysSorted
      BY <2>4, ThinnedSorted
    <2>7. Marks'
      BY <1>6, <2>4, MarksKept
    <2>8. Strips'
      BY <1>1, <1>6, <2>4, <2>5 DEF Strips, Thinned
    <2>9. ASSUME id # Focused PROVE Focused' = Focused
      <3>1. CASE g = focused
        <4>1. Focused = t[groups[g].active]
          BY <3>1 DEF Focused, ActiveOf, t
        <4>2. ix # groups[g].active
          BY <1>4, <2>9, <4>1
        <4> QED
          BY <2>2, <2>4, <3>1, <4>2 DEF Focused
      <3>2. CASE g # focused
        BY <2>4, <3>2
      <3> QED
        BY <3>1, <3>2
    <2> QED
      BY <2>4, <2>6, <2>7, <2>8, <2>9 DEF Holds, TabsIInv
  <1>8. CASE ~(Len(t) > 1) /\ Len(groups) > 1
    <2>1. CloseGroup(groups, g)
      BY <1>8 DEF Close, IsSplit
    <2>2. Len(groups) = 2 /\ g \in 1 .. 2 /\ 3 - g \in 1 .. Len(groups) /\ groups \in Seq(Group)
          /\ 1 \in 1 .. 2 /\ Len(groups) # 1
      BY <1>1, <1>2, <1>8 DEF Well
    <2>3. Fits(groups[3 - g])
      BY <1>1, <2>2 DEF Well
    <2> HIDE DEF g, t, ix, x
    <2>4. /\ groups' = <<groups[3 - g]>> /\ Well(groups') /\ focused' = 1 /\ Len(groups') = 1
          /\ PollingIsVisible' /\ menu' = None
          /\ OpenTabs' = ToSet(groups[3 - g].tabs)
          /\ Focused' = ActiveOf(groups[3 - g])
          /\ pinned' = pinned \cap OpenTabs' /\ opened' \subseteq Ids
          /\ diff' \in [Ids -> Compares \cup {None}] /\ result' = None
      BY <2>1, <2>2, <2>3, CloseGroupIs
    <2>5. OpenTabs' \subseteq OpenTabs
      BY <1>1, <2>2, <2>4, ShownIsOpen DEF OpenTabs
    <2>6. Thinned
      <3>1. groups'[1] = groups[3 - g] /\ 1 .. Len(groups') = {1}
        BY <2>4
      <3> QED
        BY <2>2, <2>4, <2>5, <3>1, SameOrder DEF Thinned
    <2>7. StaysSorted
      BY <2>4, <2>6, ThinnedSorted
    <2>8. Marks'
      BY <1>6, <2>2, <2>4, MarksCleared
    <2>9. Strips'
      <3>1. focused' \in 1 .. Len(groups')
        BY <2>4
      <3> QED
        BY <1>1, <1>6, <2>4, <2>5, <3>1 DEF Strips
    <2>10. ASSUME id # Focused PROVE Focused' = Focused
      <3>1. g # focused
        <4> SUFFICES ASSUME g = focused PROVE FALSE
          OBVIOUS
        <4>1. Len(t) = 1 /\ ix = 1 /\ groups[g].active = 1
          BY <1>3, <1>4, <1>8
        <4> QED
          BY <1>4, <2>10, <4>1 DEF Focused, ActiveOf, t
      <3>2. 3 - g = focused
        BY <1>1, <2>2, <3>1
      <3> QED
        BY <2>4, <3>2 DEF Focused
    <2> QED
      BY <2>4, <2>7, <2>8, <2>9, <2>10 DEF Holds, TabsIInv
  <1>9. CASE ~(Len(t) > 1) /\ ~(Len(groups) > 1)
    <2>1. Home(kept)
      BY <1>9 DEF Close, IsSplit
    <2>2. /\ UNCHANGED <<groups, focused, pinned, nextId, polling, handle, diff, result, flight>>
          /\ opened' \subseteq Ids /\ menu' \in OpenTabs \cup {None}
      BY <1>1, <1>6, <2>1 DEF Home
    <2>3. OpenTabs' = OpenTabs /\ Focused' = Focused
      BY <2>2 DEF OpenTabs, Focused
    <2>4. Marks'
      BY <2>2, <2>3, MarksKept DEF TabsIInv, Marks
    <2> QED
      BY <2>2, <2>3, <2>4, StillHolds
  <1> QED
    BY <1>7, <1>8, <1>9

LEMMA RetainHolds ==
    ASSUME TabsIInv, NEW g \in 1 .. Len(groups), NEW keep, NEW prefer,
           keep \subseteq ToSet(groups[g].tabs),
           pinned \cap ToSet(groups[g].tabs) \subseteq keep,
           keep # {} => prefer \in keep,
           Retain(g, keep, prefer, None)
    PROVE  Holds /\ pinned' = pinned
  <1> DEFINE t == groups[g].tabs
             q == KeepOnly(t, keep)
             x == Pointing(q, prefer)
             sole == [tabs |-> <<Focused>>, active |-> 1]
  <1>1. Well(groups) /\ pinned \subseteq OpenTabs /\ opened \subseteq Ids
        /\ nextId \in 1 .. MaxTabs /\ OpenTabs \subseteq 0 .. nextId - 1
        /\ focused \in 1 .. Len(groups) /\ Len(groups) \in 1 .. 2
        /\ menu \in OpenTabs \cup {None}
        /\ PollingIsVisible /\ diff \in [Ids -> Compares \cup {None}]
    BY DEF TabsIInv, Strips, Well, Marks
  <1>2. t \in Seq(Ids) /\ IsInjective(t) /\ Len(t) \in Nat /\ DOMAIN t = 1 .. Len(t)
        /\ ToSet(t) \subseteq OpenTabs
    BY <1>1, FitsFacts, ShownIsOpen DEF Well, Fits, OpenTabs
  <1>3. UNCHANGED <<nextId, flight>>
    BY DEF Retain
  <1>4. CASE keep = {} /\ Len(groups) > 1
    <2>1. CloseGroup(groups, g)
      BY <1>4 DEF Retain, IsSplit
    <2>2. Len(groups) = 2 /\ g \in 1 .. 2 /\ 3 - g \in 1 .. Len(groups) /\ groups \in Seq(Group)
          /\ 1 \in 1 .. 2 /\ Len(groups) # 1 /\ \A h \in 1 .. 2 : h = g \/ h = 3 - g
      BY <1>1, <1>4 DEF Well
    <2>3. Fits(groups[3 - g])
      BY <1>1, <2>2 DEF Well
    <2> HIDE DEF t, q, x, sole
    <2>4. /\ groups' = <<groups[3 - g]>> /\ Well(groups') /\ focused' = 1 /\ Len(groups') = 1
          /\ PollingIsVisible' /\ menu' = None
          /\ OpenTabs' = ToSet(groups[3 - g].tabs)
          /\ pinned' = pinned \cap OpenTabs' /\ opened' \subseteq Ids
          /\ diff' \in [Ids -> Compares \cup {None}] /\ result' = None
      BY <2>1, <2>2, <2>3, CloseGroupIs
    <2>5. OpenTabs' \subseteq OpenTabs
      BY <1>1, <2>2, <2>4, ShownIsOpen, ZenonT(60) DEF OpenTabs
    <2>6. Thinned
      <3>1. groups'[1] = groups[3 - g] /\ 1 .. Len(groups') = {1}
        BY <2>4
      <3> QED
        BY <2>2, <2>4, <2>5, <3>1, SameOrder DEF Thinned
    <2>7. StaysSorted
      BY <2>4, <2>6, ThinnedSorted
    <2>8. Marks'
      BY <1>3, <2>2, <2>4, MarksCleared
    <2>9. Strips'
      <3>1. focused' \in 1 .. Len(groups')
        BY <2>4
      <3> QED
        BY <1>1, <1>3, <2>4, <2>5, <3>1 DEF Strips
    <2>10. pinned' = pinned
      <3>1. \A id \in OpenTabs : id \in ToSet(groups[g].tabs) \/ id \in ToSet(groups[3 - g].tabs)
        BY <2>2, TabsOfIs DEF OpenTabs
      <3> QED
        BY <1>1, <1>4, <2>4, <3>1
    <2> QED
      BY <2>4, <2>7, <2>8, <2>9, <2>10 DEF Holds, TabsIInv
  <1>5. CASE keep = {} /\ ~(Len(groups) > 1)
    <2>1. Len(groups) = 1 /\ g = 1 /\ focused = 1 /\ groups \in Seq(Group)
      BY <1>1, <1>5 DEF Well
    <2>2. OpenTabs = ToSet(t) /\ Focused \in ToSet(t) /\ Focused \in Ids
      <3>1. \A id : id \in OpenTabs <=> id \in ToSet(t)
        BY <2>1, TabsOfIs DEF OpenTabs
      <3> QED
        BY <2>1, <3>1, FocusedIs
    <2>3. pinned = {}
      BY <1>1, <1>5, <2>2
    <2>4. sole \in Group /\ Fits(sole) /\ ToSet(sole.tabs) = {Focused} /\ ActiveOf(sole) = Focused
          /\ InOrderOf(sole.tabs, t)
      <3>1. <<Focused>> \in Seq(Ids) /\ Len(<<Focused>>) = 1 /\ DOMAIN <<Focused>> = {1}
            /\ <<Focused>>[1] = Focused
        BY <2>2
      <3>2. sole \in Group
        BY <3>1 DEF Group
      <3> QED
        BY <3>1, <3>2 DEF Fits, IsInjective, ToSet, ActiveOf, InOrderOf
    <2> DEFINE alone == [groups EXCEPT ![g] = sole]
    <2>5. /\ Well(alone) /\ Len(alone) = 1 /\ alone[1] = sole /\ TabsOf(alone) = {Focused}
      <3> HIDE DEF sole
      <3>1. Spared(groups, g, ToSet(sole.tabs))
        BY <2>1 DEF Spared
      <3> QED
        <4>1. Replaced(alone, groups, g, sole)
          BY <1>1, <2>1, <2>4, <3>1, ReplaceIs
        <4> QED
          BY <4>1, <2>1, <2>2, <2>4 DEF OpenTabs, Replaced
    <2>6. /\ groups' = alone /\ pinned' = pinned \cap TabsOf(alone) /\ opened' = {}
          /\ diff' = [i \in Ids |-> IF i = Focused THEN diff[i] ELSE None]
          /\ polling' = ShownIn(alone)
          /\ menu' = None
          /\ UNCHANGED <<focused, handle, result>>
      BY <1>5 DEF Retain, IsSplit
    <2> HIDE DEF alone, t, q, x, sole
    <2>7. OpenTabs' = {Focused} /\ Well(groups') /\ groups'[1] = sole /\ Len(groups') = 1
      BY <2>5, <2>6 DEF OpenTabs
    <2>8. Focused' = Focused
      BY <2>1, <2>4, <2>6, <2>7 DEF Focused
    <2>9. PollingIsVisible'
      BY <1>1, <2>6, <2>8 DEF PollingIsVisible
    <2>10. Strips'
      BY <1>1, <1>3, <2>1, <2>2, <2>3, <2>6, <2>7 DEF Strips
    <2>11. diff' \in [Ids -> Compares \cup {None}] /\ \A i \in OpenTabs' : diff'[i] = diff[i]
      BY <1>1, <2>2, <2>6, <2>7
    <2>12. Marks'
      BY <1>3, <2>2, <2>6, <2>7, <2>11, MarksKept
    <2>13. Thinned
      BY <2>1, <2>2, <2>3, <2>4, <2>6, <2>7 DEF Thinned, t
    <2>14. StaysSorted
      BY <2>7, <2>13, ThinnedSorted
    <2> QED
      BY <2>3, <2>6, <2>9, <2>10, <2>12, <2>14 DEF Holds, TabsIInv
  <1>6. CASE keep # {}
    <2>1. IF Len(q) = Len(t)
          THEN /\ menu' = None
               /\ UNCHANGED <<groups, focused, polling, handle, data, result>>
          ELSE Shrunk([groups EXCEPT ![g] = x], g, None)
      BY <1>6 DEF Retain
    <2>2. /\ q \in Seq(Ids) /\ ToSet(q) = keep /\ IsInjective(q) /\ InOrderOf(q, t)
      <3>1. /\ q \in Seq(Ids) /\ Range(q) = Range(t) \cap keep
            /\ IsInjective(q) /\ InOrderOf(q, t)
        BY <1>2, KeepOnlyIs
      <3>2. Range(q) = ToSet(q) /\ Range(t) = ToSet(t)
        BY DEF Range, ToSet
      <3> HIDE DEF q, t
      <3> QED
        BY <1>2, <3>1, <3>2 DEF t
    <2>3. Fits(x) /\ x.tabs = q /\ ActiveOf(x) = prefer
      BY <1>6, <2>2, PointingFits
    <2> HIDE DEF t, q, x, sole
    <2>4. CASE Len(q) = Len(t)
      <3>1. /\ menu' = None
            /\ UNCHANGED <<groups, focused, polling, handle, pinned, opened, diff, result>>
        BY <2>1, <2>4 DEF data
      <3>2. OpenTabs' = OpenTabs
        BY <3>1 DEF OpenTabs
      <3>3. Marks'
        BY <1>1, <1>3, <3>1, <3>2, MarksKept
      <3> QED
        BY <1>1, <1>3, <3>1, <3>3, StillHolds
    <2>5. CASE Len(q) # Len(t)
      <3>1. Shrunk([groups EXCEPT ![g] = x], g, None)
        BY <2>1, <2>5
      <3>2. ToSet(x.tabs) \subseteq ToSet(groups[g].tabs) /\ InOrderOf(x.tabs, groups[g].tabs)
        BY <2>2, <2>3 DEF t
      <3>3. /\ Well(groups') /\ Len(groups') = Len(groups) /\ focused' = focused
            /\ PollingIsVisible'
            /\ OpenTabs' \subseteq OpenTabs
            /\ menu' = IF g = focused THEN None ELSE None
            /\ Thinned /\ opened' \subseteq Ids
            /\ diff' \in [Ids -> Compares \cup {None}] /\ result' = result
            /\ \A i \in OpenTabs' : diff'[i] = diff[i]
            /\ OpenTabs' = (OpenTabs \ ToSet(groups[g].tabs)) \cup ToSet(x.tabs)
        BY <2>3, <3>1, <3>2, ShrunkIs
      <3>4. StaysSorted
        BY <3>3, ThinnedSorted
      <3>5. Marks'
        BY <1>3, <3>3, MarksKept
      <3>6. Strips'
        BY <1>1, <1>3, <3>3 DEF Strips, Thinned
      <3>7. pinned' = pinned
        BY <1>1, <2>2, <2>3, <3>3 DEF Thinned
      <3> QED
        BY <3>3, <3>4, <3>5, <3>6, <3>7 DEF Holds, TabsIInv
    <2> QED
      BY <2>4, <2>5
  <1> QED
    BY <1>4, <1>5, <1>6

LEMMA ManyCloseHolds ==
    ASSUME TabsIInv, NEW id \in OpenTabs, CloseOthers(id) \/ CloseRight(id) \/ CloseAll(id)
    PROVE  Holds /\ pinned' = pinned
  <1> DEFINE g == GroupOf(id)
             t == groups[g].tabs
  <1>1. Well(groups)
    BY DEF TabsIInv, Strips
  <1>2. g \in 1 .. Len(groups) /\ id \in ToSet(t)
    BY <1>1, Locate
  <1>3. t \in Seq(Ids) /\ DOMAIN t = 1 .. Len(t) /\ Len(t) \in Nat
    BY <1>1, <1>2, FitsFacts DEF Well
  <1>4. CASE CloseOthers(id)
    <2> DEFINE keep == {i \in ToSet(t) : i = id \/ i \in pinned}
    <2>1. Retain(g, keep, id, None)
      BY <1>4 DEF CloseOthers
    <2>2. keep \subseteq ToSet(t) /\ pinned \cap ToSet(t) \subseteq keep /\ id \in keep
      BY <1>2
    <2> HIDE DEF keep, g
    <2> QED
      BY <1>2, <2>1, <2>2, RetainHolds
  <1>5. CASE CloseRight(id)
    <2> DEFINE keep == {t[i] : i \in 1 .. IndexIn(t, id)} \cup (ToSet(t) \cap pinned)
    <2>1. Retain(g, keep, id, None)
      BY <1>5 DEF CloseRight
    <2>2. IndexIn(t, id) \in 1 .. Len(t) /\ t[IndexIn(t, id)] = id
      BY <1>2, <1>3, IndexIs
    <2>3. /\ \A i \in 1 .. IndexIn(t, id) : i \in 1 .. Len(t)
          /\ IndexIn(t, id) \in 1 .. IndexIn(t, id)
      BY <1>3, <2>2
    <2>4. keep \subseteq ToSet(t) /\ pinned \cap ToSet(t) \subseteq keep /\ id \in keep
      BY <1>3, <2>2, <2>3 DEF ToSet
    <2> HIDE DEF keep, g
    <2> QED
      BY <1>2, <2>1, <2>4, RetainHolds
  <1>6. CASE CloseAll(id)
    <2> DEFINE kept == KeepOnly(t, pinned)
               prefer == IF kept = <<>> THEN id ELSE kept[1]
    <2>1. Retain(g, ToSet(kept), prefer, None)
      BY <1>6 DEF CloseAll
    <2>2. kept \in Seq(Ids) /\ ToSet(kept) = ToSet(t) \cap pinned
      <3>1. kept \in Seq(Ids) /\ Range(kept) = Range(t) \cap pinned
        BY <1>3, KeepOnlyIs
      <3>2. Range(kept) = ToSet(kept) /\ Range(t) = ToSet(t)
        BY DEF Range, ToSet
      <3> QED
        BY <3>1, <3>2
    <2> HIDE DEF kept
    <2>3. ToSet(kept) # {} => prefer \in ToSet(kept)
      <3>1. DOMAIN kept = 1 .. Len(kept) /\ Len(kept) \in Nat /\ (kept = <<>> <=> Len(kept) = 0)
        BY <2>2, LenProperties, EmptySeq
      <3>2. Len(kept) # 0 => 1 \in DOMAIN kept
        BY <3>1
      <3>3. ToSet(kept) # {} => Len(kept) # 0
        BY <3>1 DEF ToSet
      <3> QED
        BY <3>1, <3>2, <3>3 DEF ToSet
    <2> HIDE DEF prefer, g
    <2> QED
      BY <1>2, <2>1, <2>2, <2>3, RetainHolds
  <1> QED
    BY <1>4, <1>5, <1>6

\* What has to be shown of a step that pins, opens and clears nothing.
LEMMA MovedHolds ==
    ASSUME TabsIInv, UNCHANGED <<nextId, pinned, opened, flight>>,
           Well(groups'), focused' \in 1 .. Len(groups'), PollingIsVisible',
           OpenTabs' = OpenTabs, menu' \in OpenTabs \cup {None},
           Marks', StaysSorted
    PROVE  Holds
  <1>1. Strips'
    BY DEF TabsIInv, Strips
  <1> QED
    BY <1>1 DEF Holds, TabsIInv

\* No strip of before holds what two strips held, so nothing is said of the order.
LEMMA MixedIsSorted ==
    ASSUME TabsIInv, Len(groups) = 2, NEW h \in 1 .. Len(groups'), Well(groups'),
           NEW i, NEW j, {i, j} \subseteq ToSet(groups'[h].tabs),
           i \in ToSet(groups[1].tabs), j \in ToSet(groups[2].tabs)
    PROVE  StaysSorted
  <1>1. groups \in Seq(Group) /\ DOMAIN groups = {1, 2} /\ 1 \in 1 .. Len(groups) /\ 2 \in 1 .. Len(groups)
    BY LenProperties DEF TabsIInv, Strips, Well
  <1>2. ToSet(groups[1].tabs) \cap ToSet(groups[2].tabs) = {}
    BY <1>1 DEF TabsIInv, Strips, Well, Apart
  <1>3. i # nextId /\ j # nextId
    <2>1. i \in OpenTabs /\ j \in OpenTabs
      BY <1>1, ShownIsOpen DEF TabsIInv, Strips, OpenTabs
    <2>2. OpenTabs \subseteq 0 .. nextId - 1 /\ nextId \in Nat
      BY TabsAssumption DEF TabsIInv, Strips
    <2> QED
      BY <2>1, <2>2
  <1>4. groups'[h] \in ToSet(groups')
    BY LenProperties DEF ToSet, Well
  <1>5. \A old \in ToSet(groups) : old = groups[1] \/ old = groups[2]
    BY <1>1 DEF ToSet
  <1>6. \A old \in ToSet(groups) : ~(ToSet(groups'[h].tabs) \subseteq ToSet(old.tabs) \cup {nextId})
    BY <1>2, <1>3, <1>5
  <1> QED
    BY <1>4, <1>6 DEF StaysSorted

LEMMA MoveHolds ==
    ASSUME TabsIInv, NEW id \in OpenTabs, NEW dest \in 1 .. Len(groups),
           NEW at \in 1 .. Len(groups[dest].tabs) + 1, Move(id, dest, at)
    PROVE  Holds /\ OpenTabs' = OpenTabs
  <1> DEFINE src == GroupOf(id)
             s == groups[src].tabs
             d == groups[dest].tabs
             ix == IndexIn(s, id)
             x == Without(groups[src], ix)
             q == InsertAt(d, at, id)
             there == [tabs |-> q, active |-> at]
             mid == [groups EXCEPT ![src] = x]
             gs == [mid EXCEPT ![dest] = there]
  <1>1. Well(groups) /\ pinned \subseteq OpenTabs /\ opened \subseteq Ids
        /\ nextId \in 1 .. MaxTabs /\ OpenTabs \subseteq 0 .. nextId - 1 /\ OpenTabs \subseteq Ids
        /\ Len(groups) \in 1 .. 2 /\ groups \in Seq(Group)
        /\ diff \in [Ids -> Compares \cup {None}]
    BY FocusedIs DEF TabsIInv, Strips, Well, Marks
  <1>2. src \in 1 .. Len(groups) /\ id \in ToSet(s)
        /\ \A h \in 1 .. Len(groups) : id \in ToSet(groups[h].tabs) => h = src
    BY <1>1, Locate
  <1>3. src # dest /\ UNCHANGED <<nextId, flight>>
    BY DEF Move
  <1>4. Len(groups) = 2 /\ {src, dest} = {1, 2} /\ 3 - src = dest
    BY <1>1, <1>2, <1>3
  <1>5. Fits(groups[src]) /\ s \in Seq(Ids) /\ IsInjective(s) /\ Len(s) \in Nat
        /\ DOMAIN s = 1 .. Len(s)
    BY <1>1, <1>2, FitsFacts DEF Well, Fits
  <1>6. Fits(groups[dest]) /\ d \in Seq(Ids) /\ IsInjective(d) /\ Len(d) \in Nat /\ Len(d) >= 1
        /\ DOMAIN d = 1 .. Len(d)
    BY <1>1, FitsFacts DEF Well, Fits
  <1>7. ix \in 1 .. Len(s) /\ s[ix] = id
    BY <1>2, <1>5, IndexIs
  <1>8. /\ x \in Group /\ x.tabs = RemoveAt(s, ix)
        /\ (Len(s) > 1 => Fits(x))
    BY <1>5, <1>7, WithoutFits
  <1>9. ToSet(x.tabs) = ToSet(s) \ {id} /\ x.tabs \in Seq(Ids) /\ Len(x.tabs) = Len(s) - 1
    <2>1. ToSet(x.tabs) = ToSet(s) \ {id}
      BY <1>5, <1>7, <1>8, RemovedStrip
    <2>2. x.tabs \in Seq(Ids) /\ Len(x.tabs) = Len(s) - 1
      BY <1>5, <1>7, <1>8, RemovedIs
    <2> QED
      BY <2>1, <2>2
  <1>9a. Len(x.tabs) = Len(s) - 1 /\ Len(s) \in Nat /\ Len(x.tabs) \in Nat
    BY <1>5, <1>9, LenProperties
  <1>10. id \notin ToSet(d) /\ id \in Ids /\ ToSet(s) \cap ToSet(d) = {}
    BY <1>1, <1>2, <1>3 DEF Well, Apart
  <1>11. /\ q \in Seq(Ids) /\ Len(q) = Len(d) + 1 /\ q[at] = id
         /\ IsInjective(q) /\ ToSet(q) = ToSet(d) \cup {id}
    <2>1. /\ q \in Seq(Ids) /\ Len(q) = Len(d) + 1
          /\ \A i \in 1 .. Len(d) + 1 :
                 q[i] = IF i < at THEN d[i] ELSE IF i = at THEN id ELSE d[i - 1]
      <3>1. q \in Seq(Ids) /\ PutIn(q, d, at, id)
        BY <1>6, <1>10, InsertedIs
      <3> QED
        BY <3>1 DEF PutIn
    <2>2. q[at] = id
      <3>1. at \in 1 .. Len(d) + 1 /\ ~(at < at)
        BY <1>6
      <3> QED
        BY <2>1, <3>1
    <2>3. IsInjective(q) /\ ToSet(q) = ToSet(d) \cup {id}
      BY <1>6, <1>10, InsertedStrip
    <2> QED
      BY <2>1, <2>2, <2>3
  <1>12. there \in Group /\ there.tabs = q /\ there.active = at /\ at \in 1 .. Len(q)
    <2>1. at \in Nat \ {0} /\ at \in 1 .. Len(q)
      BY <1>6, <1>11
    <2> QED
      BY <1>11, <2>1 DEF Group
  <1>13. Fits(there)
    BY <1>11, <1>12 DEF Fits
  <1>14. IF gs[src].tabs = <<>>
         THEN CloseGroup(gs, src)
         ELSE Activate(gs, dest, at) /\ UNCHANGED <<data, result>>
    <2>1. gs = [groups EXCEPT ![src] = Without(@, IndexIn(@.tabs, id)), ![dest] = there]
      OBVIOUS
    <2> HIDE DEF gs, there
    <2> QED
      BY <2>1 DEF Move, there
  <1> HIDE DEF src, s, d, ix, x, q, there
  <1>15. /\ gs \in Seq(Group) /\ Len(gs) = 2 /\ gs[src] = x /\ gs[dest] = there
    <2>1. /\ mid \in Seq(Group) /\ Len(mid) = 2
          /\ \A h \in 1 .. 2 : mid[h] = IF h = src THEN x ELSE groups[h]
      BY <1>1, <1>2, <1>4, <1>8, OtherIs
    <2> HIDE DEF mid
    <2>2. /\ gs \in Seq(Group) /\ Len(gs) = 2
          /\ \A h \in 1 .. 2 : gs[h] = IF h = dest THEN there ELSE mid[h]
      <3>1. dest \in 1 .. 2 /\ there \in Group
        BY <1>4, <1>12
      <3> QED
        BY <2>1, <3>1, OtherIs
    <2> QED
      BY <1>2, <1>3, <1>4, <2>1, <2>2
  <1>16. \A i : i \in OpenTabs <=> i \in ToSet(s) \/ i \in ToSet(d)
    <2>1. \A i : i \in OpenTabs <=> \E h \in 1 .. Len(groups) : i \in ToSet(groups[h].tabs)
      BY <1>1, TabsOfIs DEF OpenTabs
    <2>2. src \in 1 .. Len(groups) /\ \A h \in 1 .. Len(groups) : h = src \/ h = dest
      BY <1>2, <1>4
    <2> QED
      BY <2>1, <2>2 DEF s, d
  <1>17. PICK other \in ToSet(d) : TRUE
    <2>1. 1 \in DOMAIN d
      BY <1>6
    <2> QED
      BY <2>1 DEF ToSet
  \* Both the moved tab and one of those it moved to are in one strip now.
  <1>18. ASSUME Well(groups'), NEW h \in 1 .. Len(groups'), groups'[h].tabs = q
         PROVE  StaysSorted
    <2>1. {id, other} \subseteq ToSet(groups'[h].tabs)
      BY <1>11, <1>17, <1>18
    <2>2. CASE src = 1 /\ dest = 2
      BY <1>2, <1>4, <1>17, <1>18, <2>1, <2>2, MixedIsSorted DEF s, d
    <2>3. CASE src = 2 /\ dest = 1
      BY <1>2, <1>4, <1>17, <1>18, <2>1, <2>3, MixedIsSorted DEF s, d
    <2> QED
      BY <1>4, <2>2, <2>3
  <1> HIDE DEF gs, mid
  <1>19. CASE gs[src].tabs = <<>>
    <2>1. ToSet(s) = {id}
      <3>1. Len(x.tabs) = 0
        BY <1>15, <1>19, EmptySeq
      <3>2. Len(s) = 1
        BY <1>9a, <3>1, OneLess
      <3>3. DOMAIN s = {1} /\ ix = 1
        BY <1>5, <1>7, <3>2
      <3> QED
        BY <1>7, <3>3 DEF ToSet
    <2>2. CloseGroup(gs, src) /\ src \in 1 .. 2 /\ gs[3 - src] = there
      BY <1>2, <1>4, <1>14, <1>15, <1>19
    <2>3. /\ groups' = <<there>> /\ Well(groups') /\ focused' = 1 /\ Len(groups') = 1
          /\ PollingIsVisible' /\ menu' = None
          /\ OpenTabs' = ToSet(q)
          /\ pinned' = pinned \cap OpenTabs' /\ opened' \subseteq Ids
          /\ diff' \in [Ids -> Compares \cup {None}] /\ result' = None
      BY <1>12, <1>13, <1>15, <2>2, CloseGroupIs
    <2>4. OpenTabs' = OpenTabs
      BY <1>11, <1>16, <2>1, <2>3
    <2>5. Strips'
      BY <1>1, <1>3, <2>3, <2>4 DEF Strips
    <2>6. Marks'
      BY <1>3, <1>4, <2>3, MarksCleared
    <2>7. StaysSorted
      <3>1. 1 \in 1 .. Len(groups') /\ groups'[1].tabs = q
        BY <1>12, <2>3
      <3> QED
        BY <1>18, <2>3, <3>1
    <2> QED
      BY <2>3, <2>4, <2>5, <2>6, <2>7 DEF Holds, TabsIInv
  <1>20. CASE gs[src].tabs # <<>>
    <2>1. Len(s) > 1
      <3>1. Len(x.tabs) # 0
        BY <1>9, <1>15, <1>20, EmptySeq
      <3> QED
        BY <1>9a, <3>1, OneLess
    <2>2. Fits(x)
      BY <1>8, <2>1
    <2>3. Apart(gs)
      <3>1. ToSet(x.tabs) \cap ToSet(q) = {}
        BY <1>9, <1>10, <1>11
      <3> QED
        <4> SUFFICES ASSUME NEW g \in 1 .. Len(gs), NEW h \in 1 .. Len(gs), g # h
                     PROVE  ToSet(gs[g].tabs) \cap ToSet(gs[h].tabs) = {}
          BY DEF Apart
        <4>1. (g = src /\ h = dest) \/ (g = dest /\ h = src)
          BY <1>4, <1>15
        <4>2. gs[src].tabs = x.tabs /\ gs[dest].tabs = q
          BY <1>12, <1>15
        <4> QED
          BY <3>1, <4>1, <4>2
    <2>4. Well(gs)
      BY <1>4, <1>13, <1>15, <2>2, <2>3 DEF Well
    <2>5. TabsOf(gs) = OpenTabs
      <3>1. \A i : i \in TabsOf(gs) <=> \E h \in 1 .. 2 : i \in ToSet(gs[h].tabs)
        BY <1>15, TabsOfIs
      <3>2. \A i : i \in TabsOf(gs) <=> i \in ToSet(x.tabs) \/ i \in ToSet(q)
        BY <1>4, <1>12, <1>15, <3>1
      <3> QED
        BY <1>2, <1>9, <1>11, <1>16, <3>2
    <2>6. Activate(gs, dest, at) /\ UNCHANGED <<pinned, opened, diff, result>>
      BY <1>14, <1>20 DEF data
    <2>7. /\ Well(groups') /\ Len(groups') = Len(gs) /\ focused' = dest /\ menu' = None
          /\ PollingIsVisible'
          /\ \A h \in 1 .. Len(gs) : groups'[h].tabs = gs[h].tabs
          /\ OpenTabs' = TabsOf(gs)
      <3>1. dest \in 1 .. Len(gs) /\ at \in 1 .. Len(gs[dest].tabs)
        BY <1>4, <1>12, <1>15
      <3> QED
        BY <2>4, <2>6, <3>1, ActivateIs
    <2>8. StaysSorted
      <3>1. dest \in 1 .. Len(groups') /\ groups'[dest].tabs = q
        BY <1>4, <1>12, <1>15, <2>7
      <3> QED
        BY <1>18, <2>7, <3>1
    <2>9. Marks'
      BY <1>1, <1>3, <2>5, <2>6, <2>7, MarksKept
    <2>10. Holds
      <3>1. focused' \in 1 .. Len(groups')
        BY <1>4, <1>15, <2>7
      <3> QED
        BY <1>3, <2>5, <2>6, <2>7, <2>8, <2>9, <3>1, MovedHolds
    <2> QED
      BY <2>5, <2>7, <2>10
  <1> QED
    BY <1>19, <1>20

LEMMA DropHolds ==
    ASSUME TabsIInv, NEW id \in OpenTabs, Drop(id)
    PROVE  Holds /\ OpenTabs' = OpenTabs
  <1>1. Well(groups) /\ groups \in Seq(Group)
    BY DEF TabsIInv, Strips, Well
  <1>2. CASE \E to \in OpenTabs : Reorder(id, to)
    BY <1>2, ReorderHolds
  <1>3. ASSUME NEW to \in OpenTabs, Move(id, GroupOf(to), IndexIn(groups[GroupOf(to)].tabs, to))
        PROVE  Holds /\ OpenTabs' = OpenTabs
    <2> DEFINE g == GroupOf(to)
               q == groups[g].tabs
    <2>1. g \in 1 .. Len(groups) /\ to \in ToSet(q)
      BY <1>1, Locate
    <2>2. q \in Seq(Ids) /\ Len(q) \in Nat
      BY <1>1, <2>1, FitsFacts DEF Well
    <2>3. IndexIn(q, to) \in 1 .. Len(q)
      BY <2>1, <2>2, IndexIs
    <2>4. IndexIn(q, to) \in 1 .. Len(q) + 1
      BY <2>2, <2>3
    <2> HIDE DEF g
    <2> QED
      BY <1>3, <2>1, <2>4, MoveHolds DEF g
  <1>4. ASSUME NEW g \in DOMAIN groups, Move(id, g, Len(groups[g].tabs) + 1)
        PROVE  Holds /\ OpenTabs' = OpenTabs
    <2>1. g \in 1 .. Len(groups)
      BY <1>1, LenProperties
    <2>2. Len(groups[g].tabs) + 1 \in 1 .. Len(groups[g].tabs) + 1
      <3>1. Len(groups[g].tabs) \in Nat
        BY <1>1, <2>1, FitsFacts DEF Well
      <3> QED
        BY <3>1
    <2> QED
      BY <1>4, <2>1, <2>2, MoveHolds
  <1> QED
    BY <1>2, <1>3, <1>4 DEF Drop

LEMMA NewTabHolds ==
    ASSUME TabsIInv, NEW g \in 1 .. Len(groups), NEW open \in BOOLEAN, NewTab(g, open)
    PROVE  Holds
  <1> DEFINE t == groups[g].tabs
             q == Append(t, nextId)
             x == [groups[g] EXCEPT !.tabs = q]
             gs == [groups EXCEPT ![g] = x]
  <1>1. Well(groups) /\ pinned \subseteq OpenTabs /\ opened \subseteq Ids
        /\ nextId \in 1 .. MaxTabs /\ OpenTabs \subseteq 0 .. nextId - 1
        /\ Len(groups) \in 1 .. 2 /\ MaxTabs \in Nat
    BY TabsAssumption DEF TabsIInv, Strips, Well
  <1>2. nextId < MaxTabs /\ nextId' = nextId + 1 /\ nextId \in Ids /\ nextId' \in 1 .. MaxTabs
        /\ nextId \notin OpenTabs
    BY <1>1 DEF NewTab, Ids
  <1>3. Fits(groups[g]) /\ t \in Seq(Ids) /\ IsInjective(t) /\ Len(t) \in Nat
        /\ groups[g].active \in 1 .. Len(t) /\ ToSet(t) \subseteq OpenTabs /\ DOMAIN t = 1 .. Len(t)
    BY <1>1, FitsFacts, ShownIsOpen DEF Well, Fits, OpenTabs
  <1>4. nextId \notin ToSet(t)
    BY <1>2, <1>3
  <1>5. /\ q \in Seq(Ids) /\ Len(q) = Len(t) + 1
        /\ q[Len(t) + 1] = nextId
        /\ \A i \in 1 .. Len(t) : q[i] = t[i]
        /\ IsInjective(q)
        /\ ToSet(q) = ToSet(t) \cup {nextId}
    BY <1>2, <1>3, <1>4, AppendedStrip
  <1>6. Activate(gs, g, Len(t) + 1) /\ UNCHANGED <<pinned, diff, result, flight>>
        /\ opened' = IF open THEN opened \cup {nextId} ELSE opened
    <2>1. gs = [groups EXCEPT ![g].tabs = Append(@, nextId)]
      OBVIOUS
    <2> HIDE DEF gs
    <2> QED
      BY <2>1 DEF NewTab, overlay
  <1> HIDE DEF q, t
  <1>7. x.tabs = q /\ x.active = groups[g].active /\ x \in Group
    <2>1. groups[g] \in Group
      BY <1>3 DEF Fits
    <2> QED
      BY <1>5, <2>1 DEF Group
  <1> HIDE DEF x
  <1>8. Fits(x)
    <2>1. x.active \in 1 .. Len(q)
      BY <1>3, <1>5, <1>7
    <2> QED
      BY <1>5, <1>7, <2>1 DEF Fits
  <1>9. Spared(groups, g, ToSet(q))
    <2>1. \A h \in 1 .. Len(groups) : nextId \notin ToSet(groups[h].tabs)
      BY <1>1, <1>2, ShownIsOpen DEF OpenTabs
    <2> QED
      BY <1>1, <1>5, <2>1 DEF Well, Apart, Spared, t
  <1>10. /\ Well(gs) /\ Len(gs) = Len(groups)
         /\ \A h \in 1 .. Len(groups) : gs[h] = IF h = g THEN x ELSE groups[h]
         /\ TabsOf(gs) = (OpenTabs \ ToSet(t)) \cup ToSet(q)
    <2>1. Replaced(gs, groups, g, x)
      BY <1>1, <1>7, <1>8, <1>9, ReplaceIs
    <2> QED
      BY <2>1, <1>7 DEF t, OpenTabs, Replaced
  <1> HIDE DEF gs
  <1>11. TabsOf(gs) = OpenTabs \cup {nextId}
    BY <1>3, <1>5, <1>10
  <1>12. /\ Well(groups') /\ Len(groups') = Len(groups) /\ focused' = g /\ menu' = None
         /\ PollingIsVisible'
         /\ \A h \in 1 .. Len(groups) : groups'[h].tabs = gs[h].tabs
         /\ OpenTabs' = OpenTabs \cup {nextId}
    <2>1. g \in 1 .. Len(gs) /\ Len(t) + 1 \in 1 .. Len(gs[g].tabs)
      BY <1>3, <1>5, <1>7, <1>10
    <2> QED
      BY <1>6, <1>10, <1>11, <2>1, ActivateIs
  <1>13. Strips'
    <2>1. OpenTabs' \subseteq 0 .. nextId' - 1
      BY <1>1, <1>2, <1>12
    <2> QED
      BY <1>1, <1>2, <1>6, <1>12, <2>1 DEF Strips
  <1>14. Marks'
    BY <1>2, <1>6, <1>12, MarksKept DEF TabsIInv, Marks
  <1>15. StaysSorted
    <2> SUFFICES ASSUME PinnedFirst PROVE PinnedFirst'
      BY DEF StaysSorted
    <2>1. \A h \in 1 .. Len(groups) : Fronted(groups[h].tabs, pinned)
      BY <1>12, FrontedFirst
    <2>2. Fronted(q, pinned)
      <3>1. \A i, j \in 1 .. Len(t) : i < j /\ t[j] \in pinned => t[i] \in pinned
        BY <2>1 DEF Fronted, t
      <3>2. \A i \in 1 .. Len(q) : i \in 1 .. Len(t) \/ i = Len(t) + 1
        BY <1>3, <1>5
      <3>3. q[Len(t) + 1] \notin pinned
        BY <1>1, <1>2, <1>5
      <3>4. \A i, j \in 1 .. Len(q) : i < j /\ j \in 1 .. Len(t) => i \in 1 .. Len(t)
        BY <1>3, <1>5
      <3> QED
        BY <1>5, <3>1, <3>2, <3>3, <3>4 DEF Fronted
    <2>3. \A h \in 1 .. Len(groups') : Fronted(groups'[h].tabs, pinned')
      BY <1>6, <1>7, <1>10, <1>12, <2>1, <2>2
    <2> QED
      BY <1>12, <2>3, FrontedFirst
  <1> QED
    BY <1>12, <1>13, <1>14, <1>15 DEF Holds, TabsIInv

LEMMA SplitHolds == ASSUME TabsIInv, Split PROVE Holds
  <1> DEFINE y == [tabs |-> <<nextId>>, active |-> 1]
             x == groups[1]
             gs == Append(groups, y)
  <1>1. Well(groups) /\ pinned \subseteq OpenTabs /\ opened \subseteq Ids
        /\ nextId \in 1 .. MaxTabs /\ OpenTabs \subseteq 0 .. nextId - 1
        /\ Len(groups) \in 1 .. 2 /\ MaxTabs \in Nat /\ groups \in Seq(Group)
    BY TabsAssumption DEF TabsIInv, Strips, Well
  <1>2. nextId < MaxTabs /\ nextId' = nextId + 1 /\ nextId \in Ids /\ nextId' \in 1 .. MaxTabs
        /\ nextId \notin OpenTabs /\ Len(groups) = 1
    BY <1>1 DEF Split, Ids, IsSplit
  <1>3. Activate(gs, 2, 1) /\ UNCHANGED <<pinned, diff, result, flight>>
        /\ opened' = IF Focused \in opened THEN opened \cup {nextId} ELSE opened
    BY DEF Split, overlay
  <1>4. Fits(x) /\ OpenTabs = ToSet(x.tabs)
    <2>1. \A id : id \in OpenTabs <=> id \in ToSet(x.tabs)
      BY <1>1, <1>2, TabsOfIs DEF OpenTabs
    <2> QED
      BY <1>1, <1>2, <2>1 DEF Well
  <1>5. /\ Fits(y) /\ ToSet(y.tabs) = {nextId} /\ y.active = 1 /\ Len(y.tabs) = 1
        /\ y \in Group
    <2>1. <<nextId>> \in Seq(Ids) /\ Len(<<nextId>>) = 1 /\ DOMAIN <<nextId>> = {1}
          /\ <<nextId>>[1] = nextId
      BY <1>2
    <2>2. y \in Group
      BY <2>1 DEF Group
    <2> QED
      BY <2>1, <2>2 DEF Fits, IsInjective, ToSet
  <1>6. gs = <<x, y>>
    <2>1. groups \in Seq(Group) /\ y \in Group /\ Len(groups) = 1
      BY <1>1, <1>2, <1>5
    <2> HIDE DEF y
    <2> QED
      BY <2>1, SecondIs
  <1> HIDE DEF x, y, gs
  <1>7. /\ Well(gs) /\ Len(gs) = 2 /\ gs[1] = x /\ gs[2] = y
        /\ TabsOf(gs) = OpenTabs \cup {nextId}
    <2>1. ToSet(x.tabs) \cap ToSet(y.tabs) = {}
      BY <1>2, <1>4, <1>5
    <2> QED
      BY <1>4, <1>5, <1>6, <2>1, PairIs
  <1>8. /\ Well(groups') /\ Len(groups') = 2 /\ focused' = 2 /\ menu' = None
        /\ PollingIsVisible' /\ OpenTabs' = OpenTabs \cup {nextId}
        /\ groups'[1].tabs = x.tabs /\ groups'[2].tabs = y.tabs
    <2>1. 2 \in 1 .. Len(gs) /\ 1 \in 1 .. Len(gs[2].tabs) /\ 1 \in 1 .. Len(gs)
      <3>1. Len(gs) = 2 /\ Len(gs[2].tabs) = 1
        BY <1>5, <1>7
      <3> QED
        BY <3>1
    <2> QED
      BY <1>3, <1>7, <2>1, ActivateIs
  <1>9. Strips'
    <2>1. OpenTabs' \subseteq 0 .. nextId' - 1
      BY <1>1, <1>2, <1>8
    <2>2. focused' \in 1 .. Len(groups')
      BY <1>8
    <2> QED
      BY <1>1, <1>2, <1>3, <1>8, <2>1, <2>2 DEF Strips
  <1>10. Marks'
    BY <1>2, <1>3, <1>8, MarksKept DEF TabsIInv, Marks
  <1>11. StaysSorted
    <2> SUFFICES ASSUME PinnedFirst PROVE PinnedFirst'
      BY DEF StaysSorted
    <2>1. Fronted(x.tabs, pinned)
      BY <1>2, <1>8, FrontedFirst DEF x
    <2>2. Fronted(y.tabs, pinned)
      BY <1>5 DEF Fronted
    <2>3. \A h \in 1 .. Len(groups') : h = 1 \/ h = 2
      BY <1>8
    <2>4. \A h \in 1 .. Len(groups') : Fronted(groups'[h].tabs, pinned')
      BY <1>3, <1>8, <2>1, <2>2, <2>3
    <2> QED
      BY <1>8, <2>4, FrontedFirst
  <1> QED
    BY <1>8, <1>9, <1>10, <1>11 DEF Holds, TabsIInv

LEMMA BothGroups ==
    ASSUME TabsIInv, IsSplit
    PROVE  /\ Well(groups) /\ Len(groups) = 2
           /\ Fits(groups[1]) /\ Fits(groups[2])
           /\ ToSet(groups[1].tabs) \cap ToSet(groups[2].tabs) = {}
           /\ OpenTabs = ToSet(groups[1].tabs) \cup ToSet(groups[2].tabs)
           /\ focused \in {1, 2}
           /\ diff \in [Ids -> Compares \cup {None}]
           /\ menu \in OpenTabs \cup {None}
  <1>1. /\ Well(groups) /\ Len(groups) \in 1 .. 2 /\ groups \in Seq(Group)
        /\ focused \in 1 .. Len(groups) /\ diff \in [Ids -> Compares \cup {None}]
        /\ menu \in OpenTabs \cup {None}
    BY DEF TabsIInv, Strips, Well, Marks
  <1>2. Len(groups) = 2 /\ 1 \in 1 .. Len(groups) /\ 2 \in 1 .. Len(groups)
    <2>1. Len(groups) \in 1 .. 2 /\ Len(groups) > 1
      BY <1>1 DEF IsSplit
    <2> QED
      BY <2>1
  <1>3. \A id : id \in OpenTabs <=> id \in ToSet(groups[1].tabs) \/ id \in ToSet(groups[2].tabs)
    BY <1>1, <1>2, TabsOfIs DEF OpenTabs
  <1> QED
    BY <1>1, <1>2, <1>3 DEF Well, Apart

LEMMA MergeHolds ==
    ASSUME TabsIInv, Merge
    PROVE  Holds /\ OpenTabs' = OpenTabs /\ Focused' = Focused
  <1> DEFINE a == groups[1].tabs
             b == groups[2].tabs
             q == a \o b
             x == [tabs |-> q, active |-> groups[1].active]
             gs == <<x>>
  <1>1. /\ Well(groups) /\ Len(groups) = 2
        /\ Fits(groups[1]) /\ Fits(groups[2])
        /\ ToSet(a) \cap ToSet(b) = {} /\ OpenTabs = ToSet(a) \cup ToSet(b)
        /\ diff \in [Ids -> Compares \cup {None}]
    BY BothGroups DEF Merge
  <1>2. /\ a \in Seq(Ids) /\ b \in Seq(Ids) /\ IsInjective(a) /\ IsInjective(b)
        /\ Len(a) \in Nat /\ Len(b) \in Nat /\ groups[1].active \in 1 .. Len(a)
    BY <1>1, FitsFacts DEF Fits
  <1>3. q \in Seq(Ids) /\ IsInjective(q) /\ ToSet(q) = OpenTabs /\ Len(q) = Len(a) + Len(b)
    BY <1>1, <1>2, JoinedStrip, ConcatProperties
  <1>4. /\ diff' = Unmarked(gs) /\ Activate(gs, 1, IndexIn(q, Focused))
        /\ result' = None /\ UNCHANGED <<pinned, opened, nextId, flight>>
    BY DEF Merge
  <1> HIDE DEF a, b, q
  <1>5. Fits(x) /\ x.tabs = q
    <2>1. groups[1].active \in Nat \ {0} /\ groups[1].active \in 1 .. Len(q)
      BY <1>2, <1>3
    <2>2. x \in Group /\ x.tabs = q /\ x.active = groups[1].active
      BY <1>3, <2>1 DEF Group
    <2> QED
      BY <1>3, <2>1, <2>2 DEF Fits
  <1> HIDE DEF x
  <1>6. Well(gs) /\ Len(gs) = 1 /\ gs[1] = x /\ TabsOf(gs) = OpenTabs
    BY <1>3, <1>5, SoleIs
  <1>7. IndexIn(q, Focused) \in 1 .. Len(q) /\ q[IndexIn(q, Focused)] = Focused
    BY <1>3, FocusedIs, IndexIs
  <1> HIDE DEF gs
  <1>8. /\ Well(groups') /\ Len(groups') = 1 /\ focused' = 1 /\ menu' = None
        /\ PollingIsVisible' /\ OpenTabs' = OpenTabs
        /\ groups'[1].tabs = q /\ Focused' = Focused
    <2>1. 1 \in 1 .. Len(gs)
      BY <1>6
    <2> QED
      BY <1>4, <1>5, <1>6, <1>7, <2>1, ActivateIs
  <1>9. StaysSorted
    <2>1. PICK i \in ToSet(a) : TRUE
      BY <1>1, FitsFacts DEF a
    <2>2. PICK j \in ToSet(b) : TRUE
      BY <1>1, FitsFacts DEF b
    <2>3. 1 \in 1 .. Len(groups') /\ {i, j} \subseteq ToSet(groups'[1].tabs)
      BY <1>1, <1>3, <1>8, <2>1, <2>2
    <2> QED
      BY <1>1, <1>8, <2>1, <2>2, <2>3, MixedIsSorted DEF a, b
  <1>10. diff' \in [Ids -> Compares \cup {None}]
    BY <1>1, <1>4, MarksTyped DEF Unmarked
  <1>11. Marks'
    BY <1>1, <1>4, <1>8, <1>10, MarksCleared
  <1>12. focused' \in 1 .. Len(groups')
    BY <1>8
  <1> QED
    BY <1>4, <1>8, <1>9, <1>11, <1>12, MovedHolds

LEMMA SwapHolds ==
    ASSUME TabsIInv, Swap
    PROVE  Holds /\ OpenTabs' = OpenTabs /\ Focused' = Focused
  <1> DEFINE gs == <<groups[2], groups[1]>>
  <1>1. /\ Well(groups) /\ Len(groups) = 2
        /\ Fits(groups[1]) /\ Fits(groups[2])
        /\ ToSet(groups[1].tabs) \cap ToSet(groups[2].tabs) = {}
        /\ OpenTabs = ToSet(groups[1].tabs) \cup ToSet(groups[2].tabs)
        /\ focused \in {1, 2}
        /\ diff \in [Ids -> Compares \cup {None}]
        /\ menu \in OpenTabs \cup {None}
    BY BothGroups DEF Swap
  <1>2. /\ diff' = Unmarked(gs) /\ Resync(gs, 3 - focused) /\ result' = None
        /\ UNCHANGED <<pinned, opened, nextId, menu, flight>>
    BY DEF Swap
  <1>3. /\ Well(gs) /\ Len(gs) = 2 /\ gs[1] = groups[2] /\ gs[2] = groups[1]
        /\ TabsOf(gs) = ToSet(groups[2].tabs) \cup ToSet(groups[1].tabs)
    BY <1>1, PairIs
  <1> HIDE DEF gs
  <1>4. 3 - focused \in 1 .. Len(gs) /\ gs[3 - focused] = groups[focused]
    BY <1>1, <1>3
  <1>5. /\ groups' = gs /\ focused' = 3 - focused /\ PollingIsVisible'
        /\ OpenTabs' = OpenTabs /\ Focused' = Focused
    BY <1>1, <1>2, <1>3, <1>4, ResyncIs DEF Focused
  <1>6. Thinned
    <2>1. pinned' = pinned \cap OpenTabs'
      BY <1>2, <1>5 DEF TabsIInv, Strips
    <2>2. ASSUME NEW h \in 1 .. Len(groups')
          PROVE  3 - h \in 1 .. Len(groups) /\ groups'[h] = groups[3 - h]
      <3>1. Len(groups') = 2 /\ Len(groups) = 2 /\ groups'[1] = groups[2] /\ groups'[2] = groups[1]
        BY <1>1, <1>3, <1>5
      <3>2. h = 1 \/ h = 2
        BY <3>1
      <3> QED
        BY <3>1, <3>2
    <2> QED
      BY <1>5, <2>1, <2>2, SameOrder DEF Thinned
  <1>7. StaysSorted
    BY <1>3, <1>5, <1>6, ThinnedSorted
  <1>8. diff' \in [Ids -> Compares \cup {None}]
    BY <1>1, <1>2, MarksTyped DEF Unmarked
  <1>9. Marks'
    BY <1>2, <1>8, MarksCleared
  <1> QED
    BY <1>1, <1>2, <1>3, <1>4, <1>5, <1>7, <1>9, MovedHolds

LEMMA RunCompareHolds == ASSUME TabsIInv, RunCompare PROVE Holds
  <1>1. /\ IsSplit
        /\ flight' = [left |-> ActiveOf(groups[1]), right |-> ActiveOf(groups[2])]
        /\ UNCHANGED <<groups, focused, nextId, polling, handle, menu, pinned, opened, diff, result>>
    BY DEF RunCompare, HasEndpoints, data
  <1>2. /\ Well(groups) /\ Len(groups) = 2 /\ menu \in OpenTabs \cup {None}
        /\ opened \subseteq Ids /\ OpenTabs \subseteq 0 .. nextId - 1 /\ nextId \in Nat
        /\ OpenTabs \subseteq Ids
    BY <1>1, BothGroups, FocusedIs, TabsAssumption DEF TabsIInv, Strips
  <1>3. ActiveOf(groups[1]) \in OpenTabs /\ ActiveOf(groups[2]) \in OpenTabs
    BY <1>2, ShownIsOpen DEF OpenTabs
  <1>4. /\ flight' \in Compares
        /\ flight'.left < nextId /\ flight'.right < nextId
    <2> DEFINE l == ActiveOf(groups[1])
               m == ActiveOf(groups[2])
    <2>1. l \in Ids /\ m \in Ids /\ l \in 0 .. nextId - 1 /\ m \in 0 .. nextId - 1
      BY <1>2, <1>3
    <2>2. flight' = [left |-> l, right |-> m]
      BY <1>1
    <2>3. l < nextId /\ m < nextId
      BY <1>2, <2>1
    <2> HIDE DEF l, m
    <2> QED
      BY <2>1, <2>2, <2>3 DEF Compares
  <1>5. Marks'
    <2>1. OpenTabs' = OpenTabs /\ Marks
      BY <1>1 DEF OpenTabs, TabsIInv
    <2>2. MarkersOfResult'
      BY <1>1, <2>1 DEF Marks, MarkersOfResult
    <2> QED
      BY <1>1, <1>4, <2>1, <2>2 DEF Marks
  <1> QED
    BY <1>1, <1>2, <1>5, StillHolds

LEMMA LandHolds == ASSUME TabsIInv, Land PROVE Holds
  <1>1. /\ flight # None /\ flight' = None /\ result' = flight
        /\ diff' = [t \in Ids |-> IF t \in {flight.left, flight.right} \cap OpenTabs
                                  THEN flight ELSE diff[t]]
        /\ UNCHANGED <<groups, focused, pinned, opened, nextId, polling, handle, menu>>
    BY DEF Land
  <1>2. /\ flight \in Compares /\ flight.left < nextId /\ flight.right < nextId
        /\ diff \in [Ids -> Compares \cup {None}] /\ OpenTabs \subseteq Ids
        /\ opened \subseteq Ids /\ menu \in OpenTabs \cup {None}
    BY <1>1, FocusedIs DEF TabsIInv, Strips, Marks
  <1>3. diff' \in [Ids -> Compares \cup {None}]
        /\ \A t \in {flight.left, flight.right} \cap OpenTabs : diff'[t] = flight
    BY <1>1, <1>2
  <1>4. OpenTabs' = OpenTabs
    BY <1>1 DEF OpenTabs
  <1>5. Marks'
    BY <1>1, <1>2, <1>3, <1>4 DEF Marks, MarkersOfResult
  <1> QED
    BY <1>1, <1>2, <1>5, StillHolds

LEMMA ClearCompareHolds == ASSUME TabsIInv, ClearCompare PROVE Holds
  <1>1. /\ diff' = Unmarked(groups) /\ result' = None
        /\ UNCHANGED <<groups, focused, pinned, opened, nextId, polling, handle, menu, flight>>
    BY DEF ClearCompare
  <1>2. /\ Well(groups) /\ diff \in [Ids -> Compares \cup {None}]
        /\ opened \subseteq Ids /\ menu \in OpenTabs \cup {None}
    BY DEF TabsIInv, Strips, Marks
  <1>3. diff' \in [Ids -> Compares \cup {None}]
    BY <1>1, <1>2, MarksTyped DEF Unmarked
  <1>4. Marks'
    BY <1>1, <1>3, MarksCleared
  <1> QED
    BY <1>1, <1>2, <1>4, StillHolds

\* Steps that leave the groups, the pins and the compares as they were.
LEMMA PlainHolds ==
    ASSUME TabsIInv,
           \/ DismissMenu \/ Navigate \/ GoHome \/ LandFailed \/ UNCHANGED vars
           \/ \E parked \in SUBSET opened : RemoteDeleted(parked)
    PROVE  Holds
  <1>1. opened \subseteq Ids /\ menu \in OpenTabs \cup {None} /\ Focused \in Ids
        /\ diff \in [Ids -> Compares \cup {None}]
    BY FocusedIs DEF TabsIInv, Strips, Marks
  <1>2. /\ UNCHANGED <<groups, focused, pinned, nextId, polling, handle, diff, result>>
        /\ flight' \in {flight, None}
        /\ opened' \subseteq Ids /\ menu' \in OpenTabs \cup {None}
    <2>1. CASE DismissMenu
      BY <1>1, <2>1 DEF DismissMenu, data
    <2>2. CASE Navigate
      BY <1>1, <2>2 DEF Navigate, overlay
    <2>3. CASE GoHome
      BY <1>1, <2>3 DEF GoHome, Home
    <2>4. CASE LandFailed
      BY <1>1, <2>4 DEF LandFailed, data
    <2>5. CASE UNCHANGED vars
      BY <1>1, <2>5 DEF vars
    <2>6. CASE \E parked \in SUBSET opened : RemoteDeleted(parked)
      BY <1>1, <2>6 DEF RemoteDeleted, overlay
    <2> QED
      BY <2>1, <2>2, <2>3, <2>4, <2>5, <2>6
  <1>3. OpenTabs' = OpenTabs
    BY <1>2 DEF OpenTabs
  <1>4. Marks'
    BY <1>1, <1>2, <1>3, MarksKept
  <1> QED
    BY <1>2, <1>4, StillHolds

LEMMA TabsStepHolds == ASSUME TabsIInv, [Next]_vars PROVE Holds
  <1>1. Well(groups) /\ DOMAIN groups = 1 .. Len(groups)
    BY LenProperties DEF TabsIInv, Strips, Well
  <1>2. ASSUME NEW g \in DOMAIN groups, FocusGroup(g) PROVE Holds
    BY <1>1, <1>2, FocusGroupHolds DEF FocusGroup
  <1>3. ASSUME NEW g \in DOMAIN groups, NEW open \in BOOLEAN, NewTab(g, open) PROVE Holds
    BY <1>1, <1>3, NewTabHolds
  <1>4. ASSUME NEW id \in OpenTabs, Select(id) PROVE Holds
    BY <1>4, SelectHolds
  <1>5. ASSUME NEW id \in OpenTabs, CloseButton(id) \/ CloseItem(id) PROVE Holds
    BY <1>5, CloseHolds DEF CloseButton, CloseItem
  <1>6. ASSUME NEW id \in OpenTabs, OpenMenu(id) PROVE Holds
    BY <1>1, <1>6, Locate, FocusGroupHolds DEF OpenMenu
  <1>7. ASSUME NEW id \in OpenTabs, CloseOthers(id) \/ CloseRight(id) \/ CloseAll(id) PROVE Holds
    BY <1>7, ManyCloseHolds
  <1>8. ASSUME NEW id \in OpenTabs, TogglePin(id) PROVE Holds
    BY <1>8, TogglePinHolds
  <1>9. ASSUME NEW id \in OpenTabs, Drop(id) PROVE Holds
    BY <1>9, DropHolds
  <1>10. CASE CloseKey
    BY <1>10, FocusedIs, CloseHolds DEF CloseKey
  <1>11. CASE Split \/ Merge \/ Swap
    BY <1>11, SplitHolds, MergeHolds, SwapHolds
  <1>12. CASE RunCompare \/ Land \/ ClearCompare
    BY <1>12, RunCompareHolds, LandHolds, ClearCompareHolds
  <1>13. CASE \/ DismissMenu \/ Navigate \/ GoHome \/ LandFailed \/ UNCHANGED vars
              \/ \E parked \in SUBSET opened : RemoteDeleted(parked)
    BY <1>13, PlainHolds
  <1> QED
    BY <1>2, <1>3, <1>4, <1>5, <1>6, <1>7, <1>8, <1>9, <1>10, <1>11, <1>12, <1>13
       DEF Next, ItemOf

LEMMA TabsIInvHolds == Spec => []TabsIInv
  <1>1. TabsIInv /\ [Next]_vars => TabsIInv'
    BY TabsStepHolds DEF Holds
  <1> QED
    BY <1>1, TabsInitHolds, PTL DEF Spec

LEMMA WellFormedHolds == TabsIInv => TabsWellFormed
  <1> SUFFICES ASSUME TabsIInv PROVE TabsWellFormed
    OBVIOUS
  <1>1. /\ Well(groups) /\ groups \in Seq(Group) /\ Len(groups) \in 1 .. 2
        /\ focused \in 1 .. Len(groups) /\ DOMAIN groups = 1 .. Len(groups)
        /\ OpenTabs \subseteq Ids /\ Focused \in Ids
    BY FocusedIs, LenProperties DEF TabsIInv, Strips, Well
  <1>2. polling \subseteq Ids
    BY <1>1, ShownIsOpen DEF TabsIInv, PollingIsVisible
  <1>3. TypeOK
    BY <1>1, <1>2 DEF TypeOK, TabsIInv, Strips, Marks, PollingIsVisible
  <1>4. \A g \in DOMAIN groups : groups[g].active \in DOMAIN groups[g].tabs
    BY <1>1, FitsFacts DEF Well, Fits
  <1>5. Cardinality(OpenTabs) =
            IF IsSplit THEN Len(groups[1].tabs) + Len(groups[2].tabs) ELSE Len(groups[1].tabs)
    <2>1. ASSUME NEW g \in 1 .. Len(groups)
          PROVE  /\ IsFiniteSet(ToSet(groups[g].tabs)) /\ Len(groups[g].tabs) \in Nat
                 /\ Cardinality(ToSet(groups[g].tabs)) = Len(groups[g].tabs)
      <3>1. groups[g].tabs \in Seq(Ids) /\ IsInjective(groups[g].tabs)
            /\ Len(groups[g].tabs) \in Nat
        BY <1>1, FitsFacts DEF Well, Fits
      <3> QED
        BY <3>1, StripSize
    <2>2. CASE IsSplit
      <3>1. /\ Len(groups) = 2
            /\ ToSet(groups[1].tabs) \cap ToSet(groups[2].tabs) = {}
            /\ OpenTabs = ToSet(groups[1].tabs) \cup ToSet(groups[2].tabs)
        BY <2>2, BothGroups
      <3>2. 1 \in 1 .. Len(groups) /\ 2 \in 1 .. Len(groups)
        BY <3>1
      <3> DEFINE a == ToSet(groups[1].tabs)
                 b == ToSet(groups[2].tabs)
      <3>3. IsFiniteSet(a) /\ IsFiniteSet(b) /\ a \cap b = {}
        BY <2>1, <3>1, <3>2
      <3> DEFINE m == Len(groups[1].tabs)
                 n == Len(groups[2].tabs)
      <3>4. Cardinality(a) = m /\ m \in Nat /\ Cardinality(b) = n /\ n \in Nat
        BY <2>1, <3>2
      <3>5. OpenTabs = a \cup b
        BY <3>1
      <3>6. Cardinality(a \cup b) = m + n
        <4> HIDE DEF a, b, m, n
        <4> QED
          BY <3>3, <3>4, SizesAdd
      <3> QED
        BY <2>2, <3>5, <3>6
    <2>3. CASE ~IsSplit
      <3>1. Len(groups) = 1 /\ 1 \in 1 .. Len(groups)
        BY <1>1, <2>3 DEF IsSplit
      <3>2. \A id : id \in OpenTabs <=> id \in ToSet(groups[1].tabs)
        BY <1>1, <3>1, TabsOfIs DEF OpenTabs
      <3>3. OpenTabs = ToSet(groups[1].tabs)
        BY <3>2
      <3> QED
        BY <2>1, <2>3, <3>1, <3>3
    <2> QED
      BY <2>2, <2>3
  <1> QED
    BY <1>1, <1>3, <1>4, <1>5 DEF TabsWellFormed, TabsIInv, Strips

(* Through every close, drag, merge, swap and split each group keeps a     *)
(* tab, no tab is in two places, and the indices the handlers of tabs.rs   *)
(* and split.rs use without a check are in range.                          *)
THEOREM TabsAlwaysWellFormed == Spec => []TabsWellFormed
  BY TabsIInvHolds, WellFormedHolds, PTL

(* Exactly the tabs on screen poll, and the cached handle is the focused   *)
(* tab's: every path to a new strip or focus re-syncs (tabs.rs).           *)
THEOREM PollingAlwaysVisible == Spec => []PollingIsVisible
  <1>1. TabsIInv => PollingIsVisible
    BY DEF TabsIInv
  <1> QED
    BY <1>1, TabsIInvHolds, PTL

(* The markers in the lists are those of the compare the popover counts,   *)
(* wherever its tabs have gone since it was started (split.rs).            *)
THEOREM MarkersAlwaysOfResult == Spec => []MarkersOfResult
  <1>1. TabsIInv => MarkersOfResult
    BY DEF TabsIInv, Marks
  <1> QED
    BY <1>1, TabsIInvHolds, PTL

(* The user stays in the tab they are in when tabs are pinned, reordered   *)
(* or closed around it, and when the groups merge or swap.                 *)
THEOREM FocusAlwaysStays == Spec => FocusStays
  <1> DEFINE A == \/ Merge \/ Swap
                  \/ \E id \in OpenTabs :
                         \/ TogglePin(id)
                         \/ \E to \in OpenTabs : Reorder(id, to)
                         \/ id # Focused /\ (CloseItem(id) \/ CloseButton(id))
                  => Focused' = Focused
  <1>1. TabsIInv => A
    <2> SUFFICES ASSUME TabsIInv PROVE A
      OBVIOUS
    <2>1. CASE Merge \/ Swap
      BY <2>1, MergeHolds, SwapHolds
    <2>2. ASSUME NEW id \in OpenTabs, TogglePin(id) PROVE Focused' = Focused
      BY <2>2, TogglePinHolds
    <2>3. ASSUME NEW id \in OpenTabs, NEW to \in OpenTabs, Reorder(id, to) PROVE Focused' = Focused
      BY <2>3, ReorderHolds
    <2>4. ASSUME NEW id \in OpenTabs, id # Focused, CloseItem(id) \/ CloseButton(id)
          PROVE  Focused' = Focused
      BY <2>4, CloseHolds DEF CloseItem, CloseButton
    <2> QED
      BY <2>1, <2>2, <2>3, <2>4
  <1>2. Spec => [][A]_vars
    BY <1>1, TabsIInvHolds, PTL DEF Spec
  <1> QED
    BY <1>2 DEF FocusStays

(* Rearranging loses no tab, and closing many spares the pinned ones.  In  *)
(* steps after which no group holds a tab of another they stay in front; a *)
(* drop on another group and a merge (tabs.rs, toggle_split) may put tabs  *)
(* before them.                                                            *)
THEOREM NothingIsLost == Spec => NothingLost
  <1> DEFINE A == /\ Merge \/ Swap \/ (\E id \in OpenTabs : Drop(id) \/ TogglePin(id))
                         => OpenTabs' = OpenTabs
                  /\ (\E id \in OpenTabs : CloseOthers(id) \/ CloseRight(id) \/ CloseAll(id))
                         => pinned' = pinned
                  /\ /\ PinnedFirst
                     /\ \A new \in ToSet(groups') : \E old \in ToSet(groups) :
                            ToSet(new.tabs) \subseteq ToSet(old.tabs) \cup {nextId}
                     => PinnedFirst'
  <1>1. TabsIInv /\ [Next]_vars => A
    <2> SUFFICES ASSUME TabsIInv, [Next]_vars PROVE A
      OBVIOUS
    <2>1. Merge \/ Swap \/ (\E id \in OpenTabs : Drop(id) \/ TogglePin(id)) => OpenTabs' = OpenTabs
      BY MergeHolds, SwapHolds, DropHolds, TogglePinHolds
    <2>2. (\E id \in OpenTabs : CloseOthers(id) \/ CloseRight(id) \/ CloseAll(id)) => pinned' = pinned
      BY ManyCloseHolds
    <2>3. StaysSorted
      BY TabsStepHolds DEF Holds
    <2> QED
      BY <2>1, <2>2, <2>3 DEF StaysSorted
  <1>2. Spec => [][A]_vars
    BY <1>1, TabsIInvHolds, PTL DEF Spec
  <1> QED
    BY <1>2 DEF NothingLost
=============================================================================
