--------------------------- MODULE OpusDecProofs ---------------------------
(***************************************************************************)
(* Theorems about OpusDec, for any programs of packets, any pages, chunks  *)
(* and junk: how much the sync buffer holds, that the lacing table of one  *)
(* task stays in order, and that no packet is decoded without a decoder.   *)
(* The argument for the first:                                             *)
(*                                                                         *)
(* The bytes ahead of the decoder, those in the buffer that were not       *)
(* returned and those in the ring behind them, are whole pages and junk    *)
(* between them (Framed), whatever part of a page a chunk ends with.  A    *)
(* seek that finds neither a page nor junk has less at hand than a page    *)
(* that was made, so that the chunk read then ends within a page and a     *)
(* chunk.  A seek that skips junk returns to the reader once for a stretch *)
(* of junk (unsynced), and a decoder that cannot be made returns before    *)
(* the buffer was looked through: each is a chunk on top of that.  So the  *)
(* invariant counts the chunks read beyond need, c, against the junk and   *)
(* the failures so far: the J - c left are enough for the stretches of     *)
(* junk that are still ahead (Stretches).                                  *)
(***************************************************************************)
EXTENDS OpusDec, FiniteSetTheorems, TLAPS

-----------------------------------------------------------------------------
(* Least and greatest numbers, and sums of numbers: the library's induction *)
(* theorems take a predicate, which no prover here instantiates, so that    *)
(* induction goes over the parts of a finite set.                           *)

\* Every set of numbers has a smallest one.
LEMMA SmallestNumber ==
    ASSUME NEW T \in SUBSET Nat, T # {}
    PROVE  \E x \in T : \A y \in T : x <= y
<1>1. PICK t \in T : TRUE
  OBVIOUS
<1> DEFINE S == 0 .. t
           U == {0 .. x : x \in T \cap S}
<1>2. IsFiniteSet(S)
  BY <1>1, FS_Interval
<1>3. IsWellFoundedOn(StrictSubsetOrdering(S), SUBSET S)
  BY <1>2, FS_StrictSubsetOrderingWellFounded, FS_FiniteSubsetsOfFinite
<1>4. U \subseteq SUBSET S /\ U # {}
  BY <1>1
<1>5. PICK m \in U : \A u \in U : ~ (<<u, m>> \in StrictSubsetOrdering(S))
  <2> HIDE DEF S, U
  <2> QED
    BY <1>3, <1>4, WFMin
<1>6. PICK x \in T \cap S : m = 0 .. x
  BY <1>5
<1>7. ASSUME NEW y \in T PROVE x <= y
  <2> SUFFICES ASSUME y < x PROVE FALSE
    BY <1>6
  <2>1. y \in T \cap S /\ 0 .. y \subseteq 0 .. x /\ x \in 0 .. x /\ x \notin 0 .. y
    BY <1>6
  <2>2. 0 .. y \in U /\ 0 .. y \in SUBSET S /\ 0 .. x \in SUBSET S /\ 0 .. y # 0 .. x
    BY <1>1, <1>6, <2>1
  <2>3. <<0 .. y, m>> \in StrictSubsetOrdering(S)
    BY <1>6, <2>1, <2>2 DEF StrictSubsetOrdering
  <2> QED
    BY <1>5, <2>2, <2>3
<1> QED
  BY <1>6, <1>7

LEMMA MinIs ==
    ASSUME NEW T \in SUBSET Nat, T # {}
    PROVE  Min(T) \in T /\ \A y \in T : Min(T) <= y
<1>1. \E x \in T : \A y \in T : x <= y
  BY SmallestNumber
<1> QED
  BY <1>1 DEF Min

LEMMA MaxIs ==
    ASSUME NEW T \in SUBSET Nat, T # {}, NEW N \in Nat, \A y \in T : y <= N
    PROVE  Max(T) \in T /\ \A y \in T : y <= Max(T)
<1> DEFINE U == {N - y : y \in T}
<1>1. U \in SUBSET Nat /\ U # {}
  <2>1. \A y \in T : N - y \in Nat
    OBVIOUS
  <2> QED
    BY <2>1, Zenon
<1>2. PICK u \in U : \A v \in U : u <= v
  <2> HIDE DEF U
  <2> QED
    BY <1>1, SmallestNumber
<1>3. PICK x \in T : u = N - x
  BY <1>2
<1>4. ASSUME NEW y \in T PROVE x >= y
  <2>1. N - y \in U
    OBVIOUS
  <2>2. N - x <= N - y
    BY <1>2, <1>3, <2>1
  <2> QED
    BY <2>2
<1>5. \E z \in T : \A y \in T : z >= y
  BY <1>4
<1>6. Max(T) \in T /\ \A y \in T : Max(T) >= y
  BY <1>5 DEF Max
<1>7. Max(T) \in Nat
  BY <1>6
<1> QED
  BY <1>6, <1>7

Pick(t) == CHOOSE x \in t : TRUE

\* g is the sum of f over every part of S, as the fold computes it.
IsSum(f, S, g) ==
    g = [t \in SUBSET S |-> IF t = {} THEN 0 ELSE f[Pick(t)] + g[t \ {Pick(t)}]]

LEMMA SumIs ==
    ASSUME NEW f, NEW S
    PROVE  SumFunctionOnSet(f, S) = (CHOOSE g : IsSum(f, S, g))[S]
BY DEF SumFunctionOnSet, FoldFunctionOnSet, MapThenFoldSet, IsSum, Pick

\* There is just one such function for a finite set, and its values are the
\* sums over the parts.
SumsTo(f, S) ==
    /\ \A g : IsSum(f, S, g) => \A t \in SUBSET S : g[t] = SumFunctionOnSet(f, t)
    /\ IsSum(f, S, [t \in SUBSET S |-> SumFunctionOnSet(f, t)])

LEMMA SumsToParts ==
    ASSUME NEW f, NEW S, \A s \in SUBSET S : s # S => SumsTo(f, s)
    PROVE  SumsTo(f, S)
<1> DEFINE Sum(t) == SumFunctionOnSet(f, t)
           H == [t \in SUBSET S |-> IF t # S THEN Sum(t)
                                    ELSE IF S = {} THEN 0
                                    ELSE f[Pick(S)] + Sum(S \ {Pick(S)})]
<1>1. ASSUME NEW t \in SUBSET S, t # {} PROVE Pick(t) \in t /\ t \ {Pick(t)} # t
  BY <1>1 DEF Pick
<1>2. ASSUME NEW g, IsSum(f, S, g), NEW t \in SUBSET S, t # S PROVE g[t] = Sum(t)
  <2> DEFINE k == [u \in SUBSET t |-> g[u]]
  <2>1. IsSum(f, t, k)
    <3>1. ASSUME NEW u \in SUBSET t
          PROVE  k[u] = IF u = {} THEN 0 ELSE f[Pick(u)] + k[u \ {Pick(u)}]
      BY <1>2 DEF IsSum
    <3>2. k = [u \in SUBSET t |-> IF u = {} THEN 0 ELSE f[Pick(u)] + k[u \ {Pick(u)}]]
      BY <3>1
    <3> QED
      BY <3>2 DEF IsSum
  <2>2. k[t] = Sum(t)
    <3> HIDE DEF k
    <3> QED
      BY <1>2, <2>1 DEF SumsTo
  <2> QED
    BY <2>2
<1>3. ASSUME NEW t \in SUBSET S, t # S
      PROVE  Sum(t) = IF t = {} THEN 0 ELSE f[Pick(t)] + Sum(t \ {Pick(t)})
  <2> DEFINE k == [u \in SUBSET t |-> Sum(u)]
  <2>1. IsSum(f, t, k)
    BY <1>3 DEF SumsTo
  <2>2. k[t] = IF t = {} THEN 0 ELSE f[Pick(t)] + k[t \ {Pick(t)}]
    BY <2>1 DEF IsSum
  <2> QED
    BY <2>2
<1>4. IsSum(f, S, H)
  <2>1. ASSUME NEW t \in SUBSET S
        PROVE  H[t] = IF t = {} THEN 0 ELSE f[Pick(t)] + H[t \ {Pick(t)}]
    <3>1. CASE t = {}
      BY <1>3, <3>1
    <3>2. CASE t # {}
      <4>1. t \ {Pick(t)} \in SUBSET S /\ t \ {Pick(t)} # S
        BY <1>1, <3>2
      <4>2. H[t \ {Pick(t)}] = Sum(t \ {Pick(t)})
        BY <4>1
      <4> QED
        BY <1>3, <3>2, <4>2
    <3> QED
      BY <3>1, <3>2
  <2> HIDE DEF H
  <2>2. H = [t \in SUBSET S |-> H[t]]
    BY DEF H
  <2>3. H = [t \in SUBSET S |-> IF t = {} THEN 0 ELSE f[Pick(t)] + H[t \ {Pick(t)}]]
    BY <2>1, <2>2
  <2> QED
    BY <2>3 DEF IsSum
<1>5. ASSUME NEW g, IsSum(f, S, g) PROVE g[S] = H[S]
  <2>1. CASE S = {}
    BY <1>5, <2>1 DEF IsSum
  <2>2. CASE S # {}
    <3>1. g[S \ {Pick(S)}] = Sum(S \ {Pick(S)})
      BY <1>1, <1>2, <1>5, <2>2
    <3>2. g[S] = f[Pick(S)] + g[S \ {Pick(S)}]
      BY <1>5, <2>2 DEF IsSum
    <3> QED
      BY <2>2, <3>1, <3>2
  <2> QED
    BY <2>1, <2>2
<1>6. Sum(S) = H[S]
  <2>1. IsSum(f, S, CHOOSE g : IsSum(f, S, g))
    BY <1>4
  <2> QED
    BY <1>5, <2>1, SumIs
<1>7. \A t \in SUBSET S : H[t] = Sum(t)
  BY <1>6
<1>8. H = [t \in SUBSET S |-> Sum(t)]
  <2> HIDE DEF H
  <2>1. H = [t \in SUBSET S |-> H[t]]
    BY DEF H
  <2> QED
    BY <1>7, <2>1
<1>9. ASSUME NEW g, IsSum(f, S, g), NEW t \in SUBSET S PROVE g[t] = Sum(t)
  BY <1>2, <1>5, <1>6, <1>9
<1> HIDE DEF H
<1> QED
  BY <1>4, <1>8, <1>9 DEF SumsTo

\* Induction over the parts of a finite set.
LEMMA SumsToAll ==
    ASSUME NEW f, NEW S, IsFiniteSet(S)
    PROVE  SumsTo(f, S)
<1> DEFINE Bad == {s \in SUBSET S : ~ SumsTo(f, s)}
<1> SUFFICES ASSUME Bad # {} PROVE FALSE
  OBVIOUS
<1>1. IsWellFoundedOn(StrictSubsetOrdering(S), SUBSET S)
  BY FS_StrictSubsetOrderingWellFounded, FS_FiniteSubsetsOfFinite
<1>2. PICK s \in Bad : \A t \in Bad : ~ (<<t, s>> \in StrictSubsetOrdering(S))
  <2>1. Bad \subseteq SUBSET S
    OBVIOUS
  <2> HIDE DEF Bad
  <2> QED
    BY <1>1, <2>1, WFMin
<1>3. ASSUME NEW t \in SUBSET s, t # s PROVE SumsTo(f, t)
  BY <1>2, <1>3 DEF StrictSubsetOrdering
<1> QED
  BY <1>2, <1>3, SumsToParts

LEMMA SumUnfolds ==
    ASSUME NEW f, NEW S, IsFiniteSet(S)
    PROVE  SumFunctionOnSet(f, S) =
              IF S = {} THEN 0 ELSE f[Pick(S)] + SumFunctionOnSet(f, S \ {Pick(S)})
<1> DEFINE k == [t \in SUBSET S |-> SumFunctionOnSet(f, t)]
<1>1. IsSum(f, S, k)
  BY SumsToAll DEF SumsTo
<1>2. k[S] = IF S = {} THEN 0 ELSE f[Pick(S)] + k[S \ {Pick(S)}]
  <2> HIDE DEF k
  <2> QED
    BY <1>1 DEF IsSum
<1>3. S # {} => Pick(S) \in S
  BY DEF Pick
<1> QED
  BY <1>2, <1>3

\* A sum of numbers is one.
LEMMA SumOfNumbers ==
    ASSUME NEW f, NEW S, IsFiniteSet(S), \A x \in S : f[x] \in Nat
    PROVE  SumFunctionOnSet(f, S) \in Nat
<1> DEFINE Bad == {s \in SUBSET S : ~ (SumFunctionOnSet(f, s) \in Nat)}
<1> SUFFICES ASSUME Bad # {} PROVE FALSE
  OBVIOUS
<1>1. IsWellFoundedOn(StrictSubsetOrdering(S), SUBSET S)
  BY FS_StrictSubsetOrderingWellFounded, FS_FiniteSubsetsOfFinite
<1>2. PICK s \in Bad : \A t \in Bad : ~ (<<t, s>> \in StrictSubsetOrdering(S))
  <2>1. Bad \subseteq SUBSET S
    OBVIOUS
  <2> HIDE DEF Bad
  <2> QED
    BY <1>1, <2>1, WFMin
<1>3. ASSUME NEW t \in SUBSET s, t # s PROVE SumFunctionOnSet(f, t) \in Nat
  BY <1>2, <1>3 DEF StrictSubsetOrdering
<1>4. s \in SUBSET S /\ IsFiniteSet(s) /\ ~ (SumFunctionOnSet(f, s) \in Nat)
  BY <1>2, FS_Subset
<1>5. SumFunctionOnSet(f, s) = IF s = {} THEN 0 ELSE f[Pick(s)] + SumFunctionOnSet(f, s \ {Pick(s)})
  BY <1>4, SumUnfolds
<1>6. CASE s = {}
  BY <1>4, <1>5, <1>6
<1>7. CASE s # {}
  <2>1. Pick(s) \in s
    BY <1>7 DEF Pick
  <2>2. f[Pick(s)] \in Nat /\ SumFunctionOnSet(f, s \ {Pick(s)}) \in Nat
    BY <1>3, <1>4, <2>1
  <2> QED
    BY <1>4, <1>5, <1>7, <2>2
<1> QED
  BY <1>6, <1>7

-----------------------------------------------------------------------------
(* Sequences: what is in them does not matter                              *)

IsSeq(x) == \E T : x \in Seq(T)

\* z is x of length m, and y of length n behind it.
IsJoin(z, x, m, y, n) ==
    /\ Len(z) = m + n
    /\ \A i \in Nat : 1 <= i /\ i <= m => z[i] = x[i]
    /\ \A i \in Nat : 1 <= i /\ i <= n => z[m + i] = y[i]

\* z is the n elements of x behind the k-th.
IsPart(z, n, x, k) ==
    /\ Len(z) = n
    /\ \A i \in Nat : 1 <= i /\ i <= n => z[i] = x[k + i]

\* n times e.
IsRun(z, n, e) == Len(z) = n /\ \A i \in Nat : 1 <= i /\ i <= n => z[i] = e

LEMMA IsSeqLen ==
    ASSUME NEW x, IsSeq(x) PROVE Len(x) \in Nat
BY DEF IsSeq

LEMMA JoinIs ==
    ASSUME NEW x, NEW y, IsSeq(x), IsSeq(y)
    PROVE  IsSeq(x \o y) /\ IsJoin(x \o y, x, Len(x), y, Len(y))
<1>1. PICK S : x \in Seq(S)
  BY DEF IsSeq
<1>2. PICK T : y \in Seq(T)
  BY DEF IsSeq
<1>3. PICK U : U = S \cup T
  OBVIOUS
<1>4. x \in Seq(U) /\ y \in Seq(U)
  BY <1>1, <1>2, <1>3
<1>5. x \o y \in Seq(U)
  BY <1>4
<1>6. IsJoin(x \o y, x, Len(x), y, Len(y))
  BY <1>4 DEF IsJoin
<1> QED
  BY <1>5, <1>6, Zenon DEF IsSeq

LEMMA PartIs ==
    ASSUME NEW x, IsSeq(x), NEW k \in Nat, NEW n \in Nat, k + n = Len(x)
    PROVE  IsSeq(SubSeq(x, k + 1, Len(x))) /\ IsPart(SubSeq(x, k + 1, Len(x)), n, x, k)
<1>1. PICK S : x \in Seq(S)
  BY DEF IsSeq
<1>2. PICK l \in Nat : l = Len(x) /\ l = k + n
  BY <1>1
<1>3. SubSeq(x, k + 1, l) \in Seq(S) /\ Len(SubSeq(x, k + 1, l)) = n
      /\ \A i \in Nat : 1 <= i /\ i <= n => SubSeq(x, k + 1, l)[i] = x[k + i]
  <2>1. \A i \in 1 .. Len(x) : x[i] \in S
    BY <1>1
  <2>2. k + 1 <= l + 1 /\ l - (k + 1) + 1 = n
    BY <1>2
  <2>3. Len(SubSeq(x, k + 1, l)) = n
    BY <1>1, <1>2
  <2>6. \A i \in k + 1 .. l : x[i] \in S
    BY <1>2, <2>1
  <2>4. SubSeq(x, k + 1, l) \in Seq(S)
    BY <1>2, <2>6
  <2>5. \A i \in Nat : 1 <= i /\ i <= n => SubSeq(x, k + 1, l)[i] = x[k + i]
    BY <1>1, <1>2
  <2> QED
    BY <2>3, <2>4, <2>5
<1>4. PICK z : z = SubSeq(x, k + 1, l)
  OBVIOUS
<1>5. IsSeq(z) /\ IsPart(z, n, x, k)
  BY <1>3, <1>4, Zenon DEF IsSeq, IsPart
<1> QED
  BY <1>2, <1>4, <1>5, Zenon

LEMMA FrontIs ==
    ASSUME NEW x, IsSeq(x), NEW n \in Nat, n <= Len(x)
    PROVE  IsSeq(SubSeq(x, 1, n)) /\ IsPart(SubSeq(x, 1, n), n, x, 0)
<1>1. PICK S : x \in Seq(S)
  BY DEF IsSeq
<1>3. SubSeq(x, 1, n) \in Seq(S) /\ Len(SubSeq(x, 1, n)) = n
      /\ \A i \in Nat : 1 <= i /\ i <= n => SubSeq(x, 1, n)[i] = x[0 + i]
  BY <1>1
<1>4. PICK z : z = SubSeq(x, 1, n)
  OBVIOUS
<1>5. IsSeq(z) /\ IsPart(z, n, x, 0)
  BY <1>3, <1>4, Zenon DEF IsSeq, IsPart
<1> QED
  BY <1>4, <1>5, Zenon

LEMMA RunIs ==
    ASSUME NEW e, NEW n \in Nat
    PROVE  IsSeq([i \in 1 .. n |-> e]) /\ IsRun([i \in 1 .. n |-> e], n, e)
<1>1. [i \in 1 .. n |-> e] \in Seq({e})
  OBVIOUS
<1>2. IsSeq([i \in 1 .. n |-> e])
  BY <1>1, Zenon DEF IsSeq
<1>3. IsRun([i \in 1 .. n |-> e], n, e)
  BY DEF IsRun
<1> QED
  BY <1>2, <1>3

LEMMA SingleIs ==
    ASSUME NEW e
    PROVE  IsSeq(<<e>>) /\ Len(<<e>>) = 1 /\ <<e>>[1] = e
<1>1. <<e>> \in Seq({e})
  OBVIOUS
<1> QED
  BY <1>1 DEF IsSeq

-----------------------------------------------------------------------------
(* What is ahead of the decoder: whole pages and junk                      *)

Junky(x) == x.k \in {"junk", "O"}
InPage(x) == x.k \in {"head", "body"}

\* A page of l bytes, one of ps, begins at byte j of the n bytes s and is there
\* whole.
Spans(s, n, ps, j, l) ==
    /\ s[j].k = "page" /\ l = PageLen(s[j].pg)
    /\ Len(s[j].pg.segs) \in Nat /\ Len(s[j].pg.body) \in Nat
    /\ j + l - 1 <= n
    /\ \E p \in 1 .. Len(ps) : ps[p].len = l
    /\ \A i \in Nat : j < i /\ i < j + l => InPage(s[i])

\* Every byte is junk or belongs to a page.
Framed(s, n, ps) ==
    \A i \in Nat : 1 <= i /\ i <= n =>
        \/ Junky(s[i])
        \/ \E j \in Nat, l \in Nat : 1 <= j /\ j <= i /\ i < j + l /\ Spans(s, n, ps, j, l)

LEMMA SpanLength ==
    ASSUME NEW s, NEW n, NEW ps, NEW j, NEW l, Spans(s, n, ps, j, l)
    PROVE  l >= HeadLen + Len(s[j].pg.segs) /\ HeadLen >= 1 /\ l \in Nat
<1>1. PICK a \in Nat, b \in Nat : a = Len(s[j].pg.segs) /\ b = Len(s[j].pg.body)
  BY DEF Spans
<1>2. l = HeadLen + a + b
  BY <1>1 DEF Spans, PageLen
<1>3. HeadLen \in Nat /\ HeadLen >= 1
  BY SyncAssumption
<1>4. l >= HeadLen + a /\ l \in Nat
  BY <1>2, <1>3
<1>5. l >= HeadLen + Len(s[j].pg.segs)
  BY <1>1, <1>4, Zenon
<1> QED
  BY <1>3, <1>4, <1>5

LEMMA PageSpans ==
    ASSUME NEW s, NEW n \in Nat, NEW ps, Framed(s, n, ps),
           NEW i \in Nat, 1 <= i, i <= n, s[i].k = "page"
    PROVE  \E l \in Nat : Spans(s, n, ps, i, l)
<1>1. PICK j \in Nat, l \in Nat : 1 <= j /\ j <= i /\ i < j + l /\ Spans(s, n, ps, j, l)
  BY DEF Framed, Junky
<1>2. ~ (j < i)
  BY <1>1 DEF Spans, InPage
<1> QED
  BY <1>1, <1>2

LEMMA FramedDrop ==
    ASSUME NEW s, NEW n \in Nat, NEW ps, Framed(s, n, ps),
           NEW k \in Nat, NEW m \in Nat, n = k + m,
           NEW z, \A i \in Nat : 1 <= i /\ i <= m => z[i] = s[k + i],
           \A j, l \in Nat : 1 <= j /\ j <= k /\ Spans(s, n, ps, j, l) => j + l <= k + 1
    PROVE  Framed(z, m, ps)
<1> SUFFICES ASSUME NEW i \in Nat, 1 <= i, i <= m, ~ Junky(z[i])
             PROVE  \E j \in Nat, l \in Nat : 1 <= j /\ j <= i /\ i < j + l /\ Spans(z, m, ps, j, l)
  BY DEF Framed
<1>1. PICK j \in Nat, l \in Nat : 1 <= j /\ j <= k + i /\ k + i < j + l /\ Spans(s, n, ps, j, l)
  <2>1. k + i \in Nat /\ 1 <= k + i /\ k + i <= n /\ z[i] = s[k + i]
    OBVIOUS
  <2> QED
    BY <2>1 DEF Framed
<1>2. j > k
  BY <1>1
<1>3. PICK h \in Nat : j = k + h /\ 1 <= h /\ h <= i /\ i < h + l
  <2>1. j - k \in Nat /\ j = k + (j - k)
    BY <1>2
  <2> QED
    BY <1>1, <1>2, <2>1
<1>4. z[h] = s[j]
  BY <1>3
<1>5. ASSUME NEW g \in Nat, h < g, g < h + l PROVE InPage(z[g])
  <2>1. h + l - 1 <= m
    BY <1>1, <1>3, SMTT(30) DEF Spans
  <2>2. z[g] = s[k + g] /\ k + g \in Nat /\ j < k + g /\ k + g < j + l
    BY <1>3, <1>5, <2>1
  <2> QED
    BY <1>1, <2>2 DEF Spans
<1>6. Spans(z, m, ps, h, l)
  <2>1. h + l - 1 <= m
    BY <1>1, <1>3 DEF Spans
  <2> QED
    BY <1>1, <1>4, <1>5, <2>1, Zenon DEF Spans
<1> QED
  BY <1>3, <1>6

\* A page that was there is still there when more bytes come.
LEMMA SpansOn ==
    ASSUME NEW s, NEW n \in Nat, NEW ps, NEW j \in Nat, NEW l \in Nat, 1 <= j,
           Spans(s, n, ps, j, l),
           NEW z, NEW k \in Nat, NEW m \in Nat, n + k <= m,
           \A i \in Nat : 1 <= i /\ i <= n => z[k + i] = s[i]
    PROVE  Spans(z, m, ps, k + j, l)
<1>1. l >= 1 /\ j + l - 1 <= n
  <2>1. j + l - 1 <= n
    BY DEF Spans
  <2>2. PICK a \in Nat : a = Len(s[j].pg.segs)
    BY DEF Spans
  <2>3. l >= HeadLen + Len(s[j].pg.segs) /\ HeadLen >= 1
    BY SpanLength, Zenon
  <2>4. l >= HeadLen + a
    BY <2>2, <2>3, Zenon
  <2>5. HeadLen \in Nat
    BY SyncAssumption
  <2> QED
    BY <2>1, <2>3, <2>4, <2>5
<1>2. z[k + j] = s[j]
  BY <1>1
<1>3. ASSUME NEW g \in Nat, k + j < g, g < k + j + l PROVE InPage(z[g])
  <2>1. PICK i \in Nat : g = k + i /\ j < i /\ i < j + l
    <3>1. g - k \in Nat /\ g = k + (g - k)
      BY <1>3
    <3> QED
      BY <1>3, <3>1
  <2>2. InPage(s[i])
    BY <2>1, Zenon DEF Spans
  <2>3. i <= n
    BY <1>1, <2>1
  <2>4. z[k + i] = s[i]
    BY <2>1, <2>3
  <2> QED
    BY <2>1, <2>2, <2>4, Zenon
<1>4. k + j + l - 1 <= m
  BY <1>1
<1> QED
  BY <1>2, <1>3, <1>4 DEF Spans

LEMMA FramedJoin ==
    ASSUME NEW s, NEW n \in Nat, NEW ps, Framed(s, n, ps),
           NEW x, NEW e \in Nat, Framed(x, e, ps),
           NEW z, \A i \in Nat : 1 <= i /\ i <= n => z[i] = s[i],
           \A i \in Nat : 1 <= i /\ i <= e => z[n + i] = x[i]
    PROVE  Framed(z, n + e, ps)
<1> SUFFICES ASSUME NEW i \in Nat, 1 <= i, i <= n + e, ~ Junky(z[i])
             PROVE  \E j \in Nat, l \in Nat :
                        1 <= j /\ j <= i /\ i < j + l /\ Spans(z, n + e, ps, j, l)
  BY DEF Framed
<1>1. CASE i <= n
  <2>1. PICK j \in Nat, l \in Nat : 1 <= j /\ j <= i /\ i < j + l /\ Spans(s, n, ps, j, l)
    <3>1. z[i] = s[i]
      BY <1>1
    <3> QED
      BY <1>1, <3>1 DEF Framed
  <2>2. \A g \in Nat : 1 <= g /\ g <= n => z[0 + g] = s[g]
    <3>1. \A g \in Nat : 0 + g = g
      OBVIOUS
    <3> QED
      BY <3>1
  <2>3. Spans(z, n + e, ps, 0 + j, l)
    <3>1. n + 0 <= n + e /\ n + e \in Nat
      OBVIOUS
    <3> QED
      BY <2>1, <2>2, <3>1, SpansOn
  <2>4. 0 + j = j
    OBVIOUS
  <2> QED
    BY <2>1, <2>3, <2>4
<1>2. CASE i > n
  <2>1. PICK g \in Nat : i = n + g /\ 1 <= g /\ g <= e
    <3>1. i - n \in Nat /\ i = n + (i - n)
      BY <1>2
    <3> QED
      BY <1>2, <3>1
  <2>2. PICK j \in Nat, l \in Nat : 1 <= j /\ j <= g /\ g < j + l /\ Spans(x, e, ps, j, l)
    <3>1. z[i] = x[g]
      BY <2>1
    <3> QED
      BY <2>1, <3>1 DEF Framed
  <2>3. Spans(z, n + e, ps, n + j, l)
    <3>1. e + n <= n + e /\ n + e \in Nat
      OBVIOUS
    <3> QED
      BY <2>2, <3>1, SpansOn
  <2>4. n + j \in Nat /\ 1 <= n + j /\ n + j <= i /\ i < n + j + l
    BY <2>1, <2>2
  <2> QED
    BY <2>2, <2>3, <2>4
<1> QED
  BY <1>1, <1>2

\* z is the m elements of s behind the k-th.
Rest(z, m, s, k) == \A i \in Nat : 1 <= i /\ i <= m => z[i] = s[k + i]

\* More pages are made.
LEMMA FramedMore ==
    ASSUME NEW s, NEW n, NEW ps, NEW rs, Framed(s, n, ps),
           \A p \in 1 .. Len(ps) : \E r \in 1 .. Len(rs) : rs[r].len = ps[p].len
    PROVE  Framed(s, n, rs)
<1>1. ASSUME NEW j \in Nat, NEW l \in Nat, Spans(s, n, ps, j, l) PROVE Spans(s, n, rs, j, l)
  BY <1>1, Zenon DEF Spans
<1> QED
  BY <1>1, Zenon DEF Framed

\* What is ahead begins with junk or with a page.
LEMMA FirstAhead ==
    ASSUME NEW s, NEW n \in Nat, NEW ps, Framed(s, n, ps), n >= 1, ~ Junky(s[1])
    PROVE  \E l \in Nat : Spans(s, n, ps, 1, l)
<1>1. PICK j \in Nat, l \in Nat : 1 <= j /\ j <= 1 /\ 1 < j + l /\ Spans(s, n, ps, j, l)
  <2>1. 1 \in Nat /\ 1 <= 1 /\ 1 <= n
    OBVIOUS
  <2> QED
    BY <2>1 DEF Framed
<1>2. j = 1
  BY <1>1
<1> QED
  BY <1>1, <1>2

\* A page leaves, or bytes of which none opens a page.
LEMMA FramedPast ==
    ASSUME NEW s, NEW n \in Nat, NEW ps, Framed(s, n, ps),
           NEW l \in Nat, Spans(s, n, ps, 1, l), NEW m \in Nat, n = l + m,
           NEW z, Rest(z, m, s, l)
    PROVE  Framed(z, m, ps)
<1>1. ASSUME NEW j \in Nat, NEW h \in Nat, 1 <= j, j <= l, Spans(s, n, ps, j, h)
      PROVE  j + h <= l + 1
  <2>1. ~ (1 < j)
    <3> SUFFICES ASSUME 1 < j PROVE FALSE
      OBVIOUS
    <3>1. j < 1 + l
      BY <1>1
    <3>2. InPage(s[j])
      BY <3>1, Zenon DEF Spans
    <3>3. s[j].k = "page"
      BY <1>1 DEF Spans
    <3> QED
      BY <3>2, <3>3 DEF InPage
  <2>2. j = 1
    BY <1>1, <2>1
  <2>3. h = PageLen(s[1].pg) /\ l = PageLen(s[1].pg)
    BY <1>1, <2>2, Zenon DEF Spans
  <2> QED
    BY <2>2, <2>3
<1> QED
  BY <1>1, FramedDrop DEF Rest

LEMMA FramedOn ==
    ASSUME NEW s, NEW n \in Nat, NEW ps, Framed(s, n, ps),
           NEW k \in Nat, \A i \in Nat : 1 <= i /\ i <= k => s[i].k # "page",
           NEW m \in Nat, n = k + m,
           NEW z, Rest(z, m, s, k)
    PROVE  Framed(z, m, ps)
<1>1. ASSUME NEW j \in Nat, NEW h \in Nat, 1 <= j, j <= k, Spans(s, n, ps, j, h)
      PROVE  j + h <= k + 1
  BY <1>1 DEF Spans
<1> QED
  BY <1>1, FramedDrop DEF Rest

\* Up to the first byte that may open a page there is junk.
LEMMA JunkBefore ==
    ASSUME NEW s, NEW n \in Nat, NEW ps, Framed(s, n, ps),
           NEW k \in Nat, k <= n, \A i \in Nat : 1 <= i /\ i <= k => s[i].k # "page",
           NEW i \in Nat, 1 <= i, i <= k
    PROVE  Junky(s[i])
<1> SUFFICES ASSUME ~ Junky(s[i]) PROVE FALSE
  OBVIOUS
<1>1. i <= n
  OBVIOUS
<1>2. PICK j \in Nat, l \in Nat : 1 <= j /\ j <= i /\ i < j + l /\ Spans(s, n, ps, j, l)
  BY <1>1 DEF Framed
<1>3. s[j].k = "page"
  BY <1>2 DEF Spans
<1>4. 1 <= j /\ j <= k
  BY <1>2
<1> QED
  BY <1>3, <1>4

\* Behind the first element of z there are those of y and w.
Behind(z, y, a, w, b) ==
    \A i \in Nat : 1 < i /\ i <= 1 + a + b =>
        \/ \E g \in Nat : 1 <= g /\ g <= a /\ z[i] = y[g]
        \/ \E g \in Nat : 1 <= g /\ g <= b /\ z[i] = w[g]

LEMMA FirstAndRest ==
    ASSUME NEW x, NEW y, NEW w, IsSeq(x), IsSeq(y), IsSeq(w), Len(x) = 1
    PROVE  /\ IsSeq((x \o y) \o w) /\ Len((x \o y) \o w) = 1 + Len(y) + Len(w)
           /\ ((x \o y) \o w)[1] = x[1]
           /\ Behind((x \o y) \o w, y, Len(y), w, Len(w))
<1> DEFINE a == Len(y)
           b == Len(w)
<1>0. a \in Nat /\ b \in Nat
  BY IsSeqLen, Zenon
<1> HIDE DEF a, b
<1>1. PICK xy : xy = x \o y /\ IsSeq(xy)
  BY JoinIs, Zenon
<1>2. IsJoin(xy, x, 1, y, a)
  BY <1>1, JoinIs, Zenon DEF a
<1>3. PICK z : z = xy \o w /\ IsSeq(z)
  BY <1>1, JoinIs, Zenon
<1>4. IsJoin(z, xy, 1 + a, w, b)
  <2>1. Len(xy) = 1 + a
    BY <1>0, <1>2 DEF IsJoin
  <2> QED
    BY <1>1, <1>3, <2>1, JoinIs, Zenon DEF b
<1>5. ASSUME NEW i \in Nat, 1 < i, i <= 1 + a + b
      PROVE  \/ \E g \in Nat : 1 <= g /\ g <= a /\ z[i] = y[g]
             \/ \E g \in Nat : 1 <= g /\ g <= b /\ z[i] = w[g]
  <2>1. CASE i <= 1 + a
    <3>1. PICK g \in Nat : i = 1 + g /\ 1 <= g /\ g <= a
      <4>1. i - 1 \in Nat /\ i = 1 + (i - 1) /\ 1 <= i - 1 /\ i - 1 <= a
        BY <1>0, <1>5, <2>1
      <4> QED
        BY <4>1
    <3>2. z[i] = xy[i] /\ xy[1 + g] = y[g]
      BY <1>0, <1>2, <1>4, <1>5, <2>1, <3>1 DEF IsJoin
    <3> QED
      BY <3>1, <3>2
  <2>2. CASE i > 1 + a
    <3>1. PICK g \in Nat : i = 1 + a + g /\ 1 <= g /\ g <= b
      <4>1. i - (1 + a) \in Nat /\ i = 1 + a + (i - (1 + a)) /\ 1 <= i - (1 + a) /\ i - (1 + a) <= b
        BY <1>0, <1>5, <2>2
      <4> QED
        BY <4>1
    <3>2. z[i] = w[g]
      BY <1>0, <1>4, <3>1 DEF IsJoin
    <3> QED
      BY <3>1, <3>2
  <2> QED
    BY <1>0, <2>1, <2>2
<1>6. z[1] = x[1] /\ Len(z) = 1 + a + b
  BY <1>0, <1>2, <1>4 DEF IsJoin
<1>7. z = (x \o y) \o w
  BY <1>1, <1>3
<1>8. Behind(z, y, a, w, b)
  BY <1>5, Zenon DEF Behind
<1> QED
  BY <1>3, <1>6, <1>7, <1>8, Zenon DEF a, b

\* The bytes of a page are one.
LEMMA PageBytesAre ==
    ASSUME NEW page, Len(page.segs) \in Nat, Len(page.body) \in Nat
    PROVE  /\ IsSeq(PageBytes(page))
           /\ Len(PageBytes(page)) = PageLen(page) /\ PageLen(page) \in Nat
           /\ PageLen(page) >= HeadLen
           /\ PageBytes(page)[1] = [k |-> "page", pg |-> page]
           /\ \A i \in Nat : 1 < i /\ i <= PageLen(page) => InPage(PageBytes(page)[i])
<1>1. PICK b \in Nat : b = Len(page.body)
  OBVIOUS
<1>2. PICK a \in Nat : HeadLen - 1 + Len(page.segs) = a /\ HeadLen <= a + 1
                       /\ PageLen(page) = 1 + a + b
  <2>1. PICK c \in Nat : c = Len(page.segs)
    OBVIOUS
  <2>2. HeadLen - 1 + c \in Nat /\ HeadLen <= (HeadLen - 1 + c) + 1
        /\ HeadLen + c + b = 1 + (HeadLen - 1 + c) + b
    BY SyncAssumption
  <2>3. PageLen(page) = HeadLen + c + b
    BY <1>1, <2>1, Zenon DEF PageLen
  <2>4. HeadLen - 1 + Len(page.segs) = HeadLen - 1 + c
    BY <2>1, Zenon
  <2>5. PageLen(page) = 1 + (HeadLen - 1 + c) + b
    BY <2>2, <2>3, Zenon
  <2> QED
    BY <2>2, <2>4, <2>5, Zenon
<1>3. PICK x : /\ x = <<[k |-> "page", pg |-> page]>> /\ IsSeq(x)
               /\ Len(x) = 1 /\ x[1] = [k |-> "page", pg |-> page]
  BY SingleIs, Zenon
<1>4. PICK y : y = [i \in 1 .. a |-> [k |-> "head"]]
  OBVIOUS
<1>5. IsSeq(y) /\ IsRun(y, a, [k |-> "head"])
  BY <1>4, RunIs, Zenon
<1>6. PICK w : w = [i \in 1 .. b |-> [k |-> "body"]]
  OBVIOUS
<1>7. IsSeq(w) /\ IsRun(w, b, [k |-> "body"])
  BY <1>6, RunIs, Zenon
<1>8. PICK z : /\ z = (x \o y) \o w /\ IsSeq(z) /\ Len(z) = 1 + a + b /\ z[1] = x[1]
               /\ Behind(z, y, a, w, b)
  <2>1. Len(y) = a /\ Len(w) = b
    BY <1>5, <1>7 DEF IsRun
  <2>2. /\ IsSeq((x \o y) \o w) /\ Len((x \o y) \o w) = 1 + Len(y) + Len(w)
        /\ ((x \o y) \o w)[1] = x[1]
        /\ Behind((x \o y) \o w, y, Len(y), w, Len(w))
    <3>1. IsSeq(x) /\ Len(x) = 1 /\ IsSeq(y) /\ IsSeq(w)
      BY <1>3, <1>5, <1>7, Zenon
    <3> QED
      BY <3>1, FirstAndRest, Zenon
  <2> QED
    BY <2>1, <2>2, Zenon
<1>9. ASSUME NEW i \in Nat, 1 < i, i <= 1 + a + b
       PROVE  z[i].k \in {"head", "body"}
  <2>1. CASE \E g \in Nat : 1 <= g /\ g <= a /\ z[i] = y[g]
    BY <1>5, <2>1 DEF IsRun
  <2>2. CASE \E g \in Nat : 1 <= g /\ g <= b /\ z[i] = w[g]
    BY <1>7, <2>2 DEF IsRun
  <2> QED
    BY <1>8, <1>9, <2>1, <2>2 DEF Behind
<1>10. z[1] = [k |-> "page", pg |-> page]
  BY <1>3, <1>8
<1>11. PageBytes(page) = z
  BY <1>1, <1>2, <1>3, <1>4, <1>6, <1>8, Zenon DEF PageBytes
<1>12. PageLen(page) = 1 + a + b /\ HeadLen <= a + 1
  BY <1>2
<1>13. PageLen(page) \in Nat /\ PageLen(page) >= HeadLen
  BY <1>12, SyncAssumption
<1>14. \A i \in Nat : 1 < i /\ i <= PageLen(page) => InPage(z[i])
  BY <1>9, <1>12, Zenon DEF InPage
<1>15. Len(z) = PageLen(page) /\ IsSeq(z)
  BY <1>8, <1>12, Zenon
<1> QED
  BY <1>10, <1>11, <1>13, <1>14, <1>15, Zenon

-----------------------------------------------------------------------------
(* Stretches of junk                                                       *)

\* z begins as s does.
SameBytes(z, s, n) == \A i \in Nat : 1 <= i /\ i <= n => z[i] = s[i]

\* The e bytes of z behind the first n are junk.
JunkOn(z, n, e) == \A i \in Nat : 1 <= i /\ i <= e => Junky(z[n + i])

\* A stretch of junk begins at byte i of the n bytes s; the first byte is only
\* looked at when f = 1.
Begins(s, n, f, i) ==
    /\ i \in Nat /\ f <= i /\ 1 <= i /\ i <= n
    /\ Junky(s[i])
    /\ i > 1 => ~ Junky(s[i - 1])

\* The places where stretches begin are among those of A, counted from b.
Covers(A, b, s, n, f) == \A i \in Nat : Begins(s, n, f, i) => b + i \in A

\* At most k stretches begin.
Stretches(s, n, f, k) ==
    \E b \in Nat : \E A \in SUBSET Nat :
        IsFiniteSet(A) /\ Cardinality(A) <= k /\ Covers(A, b, s, n, f)

LEMMA StretchesNone ==
    ASSUME NEW s, NEW f \in Nat, NEW k \in Nat
    PROVE  Stretches(s, 0, f, k)
<1>1. Covers({}, 0, s, 0, f)
  BY DEF Covers, Begins
<1>2. IsFiniteSet({}) /\ Cardinality({}) = 0
  BY FS_EmptySet
<1> QED
  BY <1>1, <1>2 DEF Stretches

LEMMA StretchesMore ==
    ASSUME NEW s, NEW n, NEW f, NEW k \in Nat, NEW j \in Nat, k <= j,
           Stretches(s, n, f, k)
    PROVE  Stretches(s, n, f, j)
<1>1. PICK b \in Nat, A \in SUBSET Nat :
          IsFiniteSet(A) /\ Cardinality(A) <= k /\ Covers(A, b, s, n, f)
  BY Zenon DEF Stretches
<1>2. Cardinality(A) \in Nat
  BY <1>1, FS_CardinalityType
<1>3. Cardinality(A) <= j
  BY <1>1, <1>2
<1> QED
  BY <1>1, <1>3, Zenon DEF Stretches

\* Bytes are used up, and behind them a stretch goes on or another byte begins.
LEMMA StretchesPast ==
    ASSUME NEW s, NEW n \in Nat, NEW f \in Nat, f <= 2, NEW k \in Nat, Stretches(s, n, f, k),
           NEW p \in Nat, 1 <= p, NEW m \in Nat, n = p + m, NEW g \in Nat,
           g <= 1 => ~ Junky(s[p]),
           NEW z, Rest(z, m, s, p)
    PROVE  Stretches(z, m, g, k)
<1>0. \A i \in Nat : 1 <= i /\ i <= m => z[i] = s[p + i]
  BY DEF Rest
<1>1. PICK b \in Nat, A \in SUBSET Nat :
          IsFiniteSet(A) /\ Cardinality(A) <= k /\ Covers(A, b, s, n, f)
  BY Zenon DEF Stretches
<1>2. ASSUME NEW i \in Nat, Begins(z, m, g, i) PROVE (b + p) + i \in A
  <2>1. 1 <= i /\ i <= m /\ g <= i /\ Junky(z[i]) /\ (i > 1 => ~ Junky(z[i - 1]))
    BY <1>2 DEF Begins
  <2>2. Junky(s[p + i])
    BY <1>0, <2>1
  <2>3. ~ Junky(s[p + i - 1])
    <3>1. CASE i = 1
      <4>1. g <= 1 /\ p + i - 1 = p
        BY <2>1, <3>1
      <4> QED
        BY <4>1
    <3>2. CASE i > 1
      <4>1. i - 1 \in Nat /\ 1 <= i - 1 /\ i - 1 <= m /\ p + (i - 1) = p + i - 1
        BY <2>1, <3>2
      <4> QED
        BY <1>0, <2>1, <3>2, <4>1
    <3> QED
      BY <2>1, <3>1, <3>2
  <2>4. p + i \in Nat /\ f <= p + i /\ 1 <= p + i /\ p + i <= n
    BY <2>1
  <2>5. Begins(s, n, f, p + i)
    BY <2>2, <2>3, <2>4 DEF Begins
  <2>6. b + (p + i) \in A
    BY <1>1, <2>4, <2>5 DEF Covers
  <2>7. b + (p + i) = (b + p) + i
    OBVIOUS
  <2> QED
    BY <2>6, <2>7
<1>3. b + p \in Nat /\ Covers(A, b + p, z, m, g)
  BY <1>2 DEF Covers
<1> QED
  BY <1>1, <1>3, Zenon DEF Stretches

\* The first byte begins a stretch, which is done with.
LEMMA StretchesFirst ==
    ASSUME NEW s, NEW n \in Nat, NEW k \in Nat, Stretches(s, n, 1, k), 1 <= n, Junky(s[1])
    PROVE  1 <= k /\ Stretches(s, n, 2, k - 1)
<1>1. PICK b \in Nat, A \in SUBSET Nat :
          IsFiniteSet(A) /\ Cardinality(A) <= k /\ Covers(A, b, s, n, 1)
  BY Zenon DEF Stretches
<1>2. Begins(s, n, 1, 1)
  BY DEF Begins
<1>3. b + 1 \in A
  BY <1>1, <1>2 DEF Covers
<1>4. IsFiniteSet(A \ {b + 1}) /\ Cardinality(A \ {b + 1}) = Cardinality(A) - 1
  BY <1>1, <1>3, FS_RemoveElement
<1>5. Cardinality(A) \in Nat /\ Cardinality(A \ {b + 1}) \in Nat
  BY <1>1, <1>4, FS_CardinalityType
<1>6. ASSUME NEW i \in Nat, Begins(s, n, 2, i) PROVE b + i \in A \ {b + 1}
  <2>1. i >= 2 /\ Begins(s, n, 1, i)
    BY <1>6 DEF Begins
  <2>2. b + i \in A /\ b + i # b + 1
    BY <1>1, <2>1 DEF Covers
  <2> QED
    BY <2>2
<1>7. Covers(A \ {b + 1}, b, s, n, 2) /\ A \ {b + 1} \in SUBSET Nat
  BY <1>6 DEF Covers
<1>8. Cardinality(A \ {b + 1}) <= k - 1 /\ 1 <= k
  BY <1>1, <1>4, <1>5
<1> QED
  BY <1>4, <1>7, <1>8, Zenon DEF Stretches

\* Bytes that are no junk come in.
LEMMA StretchesPage ==
    ASSUME NEW s, NEW n \in Nat, NEW f \in Nat, NEW k \in Nat, Stretches(s, n, f, k),
           NEW e \in Nat, NEW z, \A i \in Nat : 1 <= i /\ i <= n => z[i] = s[i],
           \A i \in Nat : 1 <= i /\ i <= e => ~ Junky(z[n + i])
    PROVE  Stretches(z, n + e, f, k)
<1>1. PICK b \in Nat, A \in SUBSET Nat :
          IsFiniteSet(A) /\ Cardinality(A) <= k /\ Covers(A, b, s, n, f)
  BY Zenon DEF Stretches
<1>2. ASSUME NEW i \in Nat, Begins(z, n + e, f, i) PROVE b + i \in A
  <2>1. 1 <= i /\ i <= n + e /\ f <= i /\ Junky(z[i]) /\ (i > 1 => ~ Junky(z[i - 1]))
    BY <1>2 DEF Begins
  <2>2. i <= n
    <3> SUFFICES ASSUME i > n PROVE FALSE
      BY <2>1
    <3>1. i - n \in Nat /\ 1 <= i - n /\ i - n <= e /\ n + (i - n) = i
      BY <2>1
    <3> QED
      BY <2>1, <3>1
  <2>3. i > 1 => ~ Junky(s[i - 1])
    <3> SUFFICES ASSUME i > 1 PROVE ~ Junky(s[i - 1])
      OBVIOUS
    <3>1. i - 1 \in Nat /\ 1 <= i - 1 /\ i - 1 <= n
      BY <2>2
    <3> QED
      BY <2>1, <3>1
  <2>4. Begins(s, n, f, i)
    BY <2>1, <2>2, <2>3 DEF Begins
  <2> QED
    BY <1>1, <2>4 DEF Covers
<1>3. Covers(A, b, z, n + e, f)
  BY <1>2 DEF Covers
<1> QED
  BY <1>1, <1>3, Zenon DEF Stretches

\* A run of junk comes in.
LEMMA StretchesJunk ==
    ASSUME NEW s, NEW n \in Nat, NEW f \in Nat, NEW k \in Nat, Stretches(s, n, f, k),
           NEW e \in Nat, NEW z, SameBytes(z, s, n), JunkOn(z, n, e)
    PROVE  Stretches(z, n + e, f, k + 1)
<1>0. /\ \A i \in Nat : 1 <= i /\ i <= n => z[i] = s[i]
      /\ \A i \in Nat : 1 <= i /\ i <= e => Junky(z[n + i])
  BY Zenon DEF SameBytes, JunkOn
<1>1. PICK b \in Nat, A \in SUBSET Nat :
          IsFiniteSet(A) /\ Cardinality(A) <= k /\ Covers(A, b, s, n, f)
  BY Zenon DEF Stretches
<1>2. PICK a \in Nat : a = b + n + 1
  OBVIOUS
<1>3. ASSUME NEW i \in Nat, Begins(z, n + e, f, i) PROVE b + i \in A \cup {a}
  <2>1. 1 <= i /\ i <= n + e /\ f <= i /\ Junky(z[i]) /\ (i > 1 => ~ Junky(z[i - 1]))
    BY <1>3 DEF Begins
  <2>2. CASE i <= n
    <3>1. i > 1 => ~ Junky(s[i - 1])
      <4> SUFFICES ASSUME i > 1 PROVE ~ Junky(s[i - 1])
        OBVIOUS
      <4>1. i - 1 \in Nat /\ 1 <= i - 1 /\ i - 1 <= n
        BY <2>2
      <4> QED
        BY <1>0, <2>1, <4>1
    <3>2. Begins(s, n, f, i)
      BY <1>0, <2>1, <2>2, <3>1 DEF Begins
    <3> QED
      BY <1>1, <3>2 DEF Covers
  <2>3. CASE i = n + 1
    BY <1>2, <2>3
  <2>4. CASE i > n + 1
    <3>1. /\ i - (n + 1) \in Nat /\ 1 <= i - (n + 1) /\ i - (n + 1) <= e /\ i > 1
          /\ n + (i - (n + 1)) = i - 1
      BY <2>1, <2>4
    <3> QED
      BY <1>0, <2>1, <3>1
  <2> QED
    BY <2>2, <2>3, <2>4
<1>4. Covers(A \cup {a}, b, z, n + e, f) /\ A \cup {a} \in SUBSET Nat
  BY <1>3 DEF Covers
<1>5. Cardinality(A) \in Nat
  BY <1>1, FS_CardinalityType
<1>6. /\ IsFiniteSet(A \cup {a})
      /\ Cardinality(A \cup {a}) = Cardinality(A) \/ Cardinality(A \cup {a}) = Cardinality(A) + 1
  BY <1>1, FS_AddElement
<1>7. Cardinality(A \cup {a}) <= k + 1
  BY <1>1, <1>5, <1>6
<1> QED
  BY <1>4, <1>6, <1>7, Zenon DEF Stretches

-----------------------------------------------------------------------------
(* What is ahead of the decoder: the bytes in the sync buffer that were not *)
(* returned, and those in the ring behind them                             *)

Ahead(oy, q) ==
    [i \in Nat |-> IF i <= Waiting(oy) THEN oy.data[oy.returned + i] ELSE q[i - Waiting(oy)]]
Far(oy, q) == Waiting(oy) + Len(q)

SyncFields == {"data", "returned", "headerbytes", "bodybytes", "unsynced"}

\* The buffer and the ring.
Buffered(oy, q) ==
    /\ DOMAIN oy = SyncFields
    /\ IsSeq(oy.data) /\ IsSeq(q)
    /\ oy.returned \in Nat /\ oy.returned <= Len(oy.data)
    /\ oy.unsynced \in BOOLEAN

\* A header that was looked at is that of the page at hand.
Looked(oy) ==
    \/ oy.headerbytes = 0 /\ oy.bodybytes = 0
    \/ /\ oy.headerbytes \in Nat /\ oy.bodybytes \in Nat /\ oy.headerbytes # 0
       /\ Waiting(oy) >= HeadLen /\ AtCapture(oy)
       /\ oy.headerbytes + oy.bodybytes = PageLen(CapturedPage(oy))

Sync(oy, q, ps) == Buffered(oy, q) /\ Looked(oy) /\ Framed(Ahead(oy, q), Far(oy, q), ps)

\* s reads the w bytes at hand, and the m bytes in the ring behind them.
Reads(s, w, oy, m, q) ==
    /\ \A i \in Nat : 1 <= i /\ i <= w => s[i] = oy.data[oy.returned + i]
    /\ \A i \in Nat : 1 <= i /\ i <= m => s[w + i] = q[i]

LEMMA BufferedIs ==
    ASSUME NEW oy, NEW q, Buffered(oy, q)
    PROVE  /\ Waiting(oy) \in Nat /\ Len(q) \in Nat /\ Far(oy, q) \in Nat /\ Len(oy.data) \in Nat
           /\ Far(oy, q) = Waiting(oy) + Len(q) /\ oy.returned + Waiting(oy) = Len(oy.data)
           /\ Reads(Ahead(oy, q), Waiting(oy), oy, Len(q), q)
<1>1. PICK l \in Nat, m \in Nat : l = Len(oy.data) /\ m = Len(q)
  BY IsSeqLen, Zenon DEF Buffered
<1>2. PICK r \in Nat : r = oy.returned /\ r <= l
  BY <1>1 DEF Buffered
<1>3. PICK w \in Nat : w = l - r /\ w = Waiting(oy)
  BY <1>1, <1>2 DEF Waiting
<1>4. Far(oy, q) = w + m
  BY <1>1, <1>3 DEF Far
<1>5. ASSUME NEW i \in Nat, 1 <= i, i <= w PROVE Ahead(oy, q)[i] = oy.data[oy.returned + i]
  BY <1>3, <1>5 DEF Ahead
<1>6. ASSUME NEW i \in Nat, 1 <= i, i <= m PROVE Ahead(oy, q)[w + i] = q[i]
  <2>1. w + i \in Nat /\ ~ (w + i <= w) /\ w + i - w = i
    BY <1>6
  <2> QED
    BY <1>3, <2>1 DEF Ahead
<1>7. Reads(Ahead(oy, q), w, oy, m, q)
  BY <1>5, <1>6, Zenon DEF Reads
<1> QED
  BY <1>1, <1>2, <1>3, <1>4, <1>7

\* The first byte ahead is the one at hand.
LEMMA AtHand ==
    ASSUME NEW oy, NEW q, Buffered(oy, q), Waiting(oy) >= 1
    PROVE  Ahead(oy, q)[1] = oy.data[oy.returned + 1] /\ Far(oy, q) >= 1
<1>1. 1 \in Nat /\ 1 <= 1 /\ 1 <= Waiting(oy)
  OBVIOUS
<1>2. Reads(Ahead(oy, q), Waiting(oy), oy, Len(q), q)
  BY BufferedIs, Zenon
<1>3. Far(oy, q) >= 1
  BY BufferedIs
<1> QED
  BY <1>1, <1>2, <1>3, Zenon DEF Reads

\* k bytes go from the ring q, of which m stay, into the buffer oy with w at hand.
Refilled(oz, y, oy, q, w, m, k) ==
    /\ oz.returned = 0 /\ IsPart(y, m, q, k)
    /\ \E p, r : /\ IsPart(p, w, oy.data, oy.returned) /\ IsPart(r, k, q, 0)
                 /\ IsJoin(oz.data, p, w, r, k)

LEMMA SameAhead ==
    ASSUME NEW s, NEW w \in Nat, NEW oy, NEW q, NEW m \in Nat, NEW k \in Nat,
           Reads(s, w, oy, m + k, q),
           NEW z, NEW oz, NEW y, Reads(z, w + k, oz, m, y),
           Refilled(oz, y, oy, q, w, m, k)
    PROVE  SameBytes(z, s, w + (m + k))
<1>0. PICK p, r : /\ IsPart(p, w, oy.data, oy.returned) /\ IsPart(r, k, q, 0)
                  /\ IsJoin(oz.data, p, w, r, k) /\ IsPart(y, m, q, k) /\ oz.returned = 0
  BY Zenon DEF Refilled
<1> SUFFICES ASSUME NEW i \in Nat, 1 <= i, i <= w + (m + k) PROVE z[i] = s[i]
  BY Zenon DEF SameBytes
<1>1. CASE i <= w
  <2>1. s[i] = oy.data[oy.returned + i]
    BY <1>1, Zenon DEF Reads
  <2>2. i <= w + k
    BY <1>1
  <2>3. z[i] = oz.data[oz.returned + i] /\ oz.returned + i = i
    BY <1>0, <2>2 DEF Reads
  <2>4. oz.data[i] = p[i]
    BY <1>1, <1>0, Zenon DEF IsJoin
  <2>5. p[i] = oy.data[oy.returned + i]
    BY <1>1, <1>0, Zenon DEF IsPart
  <2> QED
    BY <2>1, <2>3, <2>4, <2>5, Zenon
<1>2. CASE i > w /\ i <= w + k
  <2>1. PICK j \in Nat : i = w + j /\ 1 <= j /\ j <= k
    <3>1. i - w \in Nat /\ 1 <= i - w /\ i - w <= k /\ w + (i - w) = i
      BY <1>2
    <3> QED
      BY <3>1
  <2>2. j <= m + k /\ 0 + j = j
    BY <2>1
  <2>3. s[w + j] = q[j]
    BY <2>1, <2>2, Zenon DEF Reads
  <2>4. z[i] = oz.data[oz.returned + i] /\ oz.returned + i = i
    BY <1>0, <1>2 DEF Reads
  <2>5. oz.data[w + j] = r[j]
    BY <2>1, <1>0, Zenon DEF IsJoin
  <2>6. r[j] = q[0 + j]
    BY <2>1, <1>0, Zenon DEF IsPart
  <2> QED
    BY <2>1, <2>2, <2>3, <2>4, <2>5, <2>6, Zenon
<1>3. CASE i > w + k
  <2>1. PICK j \in Nat : i = w + (k + j) /\ 1 <= j /\ j <= m
    <3>1. /\ i - (w + k) \in Nat /\ 1 <= i - (w + k) /\ i - (w + k) <= m
          /\ w + (k + (i - (w + k))) = i
      BY <1>3
    <3> QED
      BY <3>1
  <2>2. k + j \in Nat /\ 1 <= k + j /\ k + j <= m + k /\ (w + k) + j = w + (k + j)
    BY <2>1
  <2>3. s[w + (k + j)] = q[k + j]
    BY <2>2, Zenon DEF Reads
  <2>4. z[(w + k) + j] = y[j]
    BY <2>1, Zenon DEF Reads
  <2>5. y[j] = q[k + j]
    BY <2>1, <1>0, Zenon DEF IsPart
  <2> QED
    BY <2>1, <2>2, <2>3, <2>4, <2>5, Zenon
<1> QED
  BY <1>1, <1>2, <1>3

LEMMA FramedSame ==
    ASSUME NEW s, NEW n \in Nat, NEW ps, Framed(s, n, ps), NEW z, SameBytes(z, s, n)
    PROVE  Framed(z, n, ps)
<1>1. \A i \in Nat : 1 <= i /\ i <= n => z[i] = s[0 + i]
  BY DEF SameBytes
<1>2. \A j, l \in Nat : 1 <= j /\ j <= 0 /\ Spans(s, n, ps, j, l) => j + l <= 0 + 1
  OBVIOUS
<1>3. n = 0 + n
  OBVIOUS
<1> QED
  BY <1>1, <1>2, <1>3, FramedDrop

LEMMA StretchesSame ==
    ASSUME NEW s, NEW n \in Nat, NEW f \in Nat, NEW k \in Nat, Stretches(s, n, f, k),
           NEW z, SameBytes(z, s, n)
    PROVE  Stretches(z, n, f, k)
<1>1. \A i \in Nat : 1 <= i /\ i <= n => z[i] = s[i]
  BY DEF SameBytes
<1>2. \A i \in Nat : 1 <= i /\ i <= 0 => ~ Junky(z[n + i])
  OBVIOUS
<1>3. Stretches(z, n + 0, f, k)
  BY <1>1, <1>2, StretchesPage
<1> QED
  BY <1>3

LEMMA ShiftedIs ==
    ASSUME NEW oy, DOMAIN oy = SyncFields
    PROVE  /\ DOMAIN Shifted(oy) = SyncFields
           /\ Shifted(oy).data = SubSeq(oy.data, oy.returned + 1, Len(oy.data))
           /\ Shifted(oy).returned = 0 /\ Shifted(oy).unsynced = oy.unsynced
           /\ Shifted(oy).headerbytes = oy.headerbytes /\ Shifted(oy).bodybytes = oy.bodybytes
BY DEF Shifted, SyncFields

LEMMA FilledIs ==
    ASSUME NEW oy, DOMAIN oy = SyncFields, NEW x
    PROVE  /\ DOMAIN Filled(oy, x) = SyncFields
           /\ Filled(oy, x).data = oy.data \o x
           /\ Filled(oy, x).returned = oy.returned /\ Filled(oy, x).unsynced = oy.unsynced
           /\ Filled(oy, x).headerbytes = oy.headerbytes
           /\ Filled(oy, x).bodybytes = oy.bodybytes
BY DEF Filled, SyncFields

LEMMA AfterPageIs ==
    ASSUME NEW oy, DOMAIN HeaderRead(oy) = SyncFields
    PROVE  /\ DOMAIN AfterPage(oy) = SyncFields
           /\ AfterPage(oy).data = HeaderRead(oy).data
           /\ AfterPage(oy).returned = HeaderRead(oy).returned + HeaderRead(oy).headerbytes
                                       + HeaderRead(oy).bodybytes
           /\ AfterPage(oy).headerbytes = 0 /\ AfterPage(oy).bodybytes = 0
           /\ AfterPage(oy).unsynced = FALSE
BY DEF AfterPage, SyncFields

\* Where the seek goes on when there is no page, and the decoder has noticed.
Skipped(oy) == [AfterLost(oy) EXCEPT !.unsynced = TRUE]
Openings(oy) ==
    {i \in oy.returned + 1 .. Len(oy.data) - 1 : oy.data[i + 1].k \in {"page", "O"}}

LEMMA SkippedIs ==
    ASSUME NEW oy, DOMAIN oy = SyncFields
    PROVE  /\ DOMAIN Skipped(oy) = SyncFields
           /\ Skipped(oy).data = oy.data
           /\ Skipped(oy).returned =
                 IF Openings(oy) = {} THEN Len(oy.data) ELSE Min(Openings(oy))
           /\ Skipped(oy).headerbytes = 0 /\ Skipped(oy).bodybytes = 0
           /\ Skipped(oy).unsynced = TRUE
BY DEF AfterLost, SyncFields, Skipped, Openings

\* A page at hand is the one ahead.
LEMMA PageAtHand ==
    ASSUME NEW oy, NEW q, NEW ps, Sync(oy, q, ps), Waiting(oy) >= HeadLen, AtCapture(oy)
    PROVE  \E l \in Nat : /\ Spans(Ahead(oy, q), Far(oy, q), ps, 1, l)
                          /\ l = PageLen(CapturedPage(oy)) /\ l >= HeadLen
                          /\ Len(CapturedPage(oy).segs) \in Nat
                          /\ Len(CapturedPage(oy).body) \in Nat
<1>1. PICK s : s = Ahead(oy, q)
  OBVIOUS
<1>2. PICK n \in Nat : n = Far(oy, q)
  BY BufferedIs, Zenon DEF Sync
<1>3. s[1] = oy.data[oy.returned + 1] /\ n >= 1
  <2>1. Waiting(oy) >= 1
    <3>1. HeadLen \in Nat /\ HeadLen >= 1 /\ Waiting(oy) \in Nat
      BY SyncAssumption, BufferedIs DEF Sync
    <3> QED
      BY <3>1
  <2> QED
    BY <1>1, <1>2, <2>1, AtHand DEF Sync
<1>4. s[1].k = "page" /\ s[1].pg = CapturedPage(oy)
  BY <1>3 DEF AtCapture, CapturedPage
<1>5. Framed(s, n, ps) /\ ~ Junky(s[1])
  BY <1>1, <1>2, <1>4 DEF Sync, Junky
<1>6. PICK l \in Nat : Spans(s, n, ps, 1, l)
  BY <1>3, <1>5, FirstAhead
<1>7. l = PageLen(s[1].pg) /\ Len(s[1].pg.segs) \in Nat /\ Len(s[1].pg.body) \in Nat
  BY <1>6 DEF Spans
<1>8. l >= HeadLen
  <2>1. PICK c \in Nat, b \in Nat : c = Len(s[1].pg.segs) /\ b = Len(s[1].pg.body)
    BY <1>7
  <2>2. l = HeadLen + c + b
    BY <1>7, <2>1, Zenon DEF PageLen
  <2> QED
    BY <2>2, SyncAssumption
<1> QED
  BY <1>1, <1>2, <1>4, <1>6, <1>7, <1>8, Zenon

\* What a look at the header finds.
LEMMA HeaderReadIs ==
    ASSUME NEW oy, NEW q, NEW ps, Sync(oy, q, ps)
    PROVE  /\ DOMAIN HeaderRead(oy) = SyncFields
           /\ HeaderRead(oy).data = oy.data
           /\ HeaderRead(oy).returned = oy.returned /\ HeaderRead(oy).unsynced = oy.unsynced
           /\ Looked(HeaderRead(oy))
<1>1. DOMAIN oy = SyncFields
  BY DEF Sync, Buffered
<1>2. /\ DOMAIN HeaderRead(oy) = SyncFields
      /\ HeaderRead(oy).data = oy.data
      /\ HeaderRead(oy).returned = oy.returned /\ HeaderRead(oy).unsynced = oy.unsynced
  BY <1>1 DEF HeaderRead, SyncFields
<1>3. CASE HeaderRead(oy) = oy
  BY <1>2, <1>3 DEF Sync
<1>4. CASE HeaderRead(oy) # oy
  <2> DEFINE r == HeaderRead(oy)
  <2>1. /\ oy.headerbytes = 0
        /\ Waiting(oy) >= HeadLen /\ AtCapture(oy)
        /\ r = [oy EXCEPT !.bodybytes = @ + Len(CapturedPage(oy).body),
                          !.headerbytes = HeadLen + Len(CapturedPage(oy).segs)]
    BY <1>4, Zenon DEF HeaderRead
  <2>2. PICK c \in Nat, b \in Nat : c = Len(CapturedPage(oy).segs) /\ b = Len(CapturedPage(oy).body)
    BY <2>1, PageAtHand
  <2>3. oy.bodybytes = 0
    BY <2>1 DEF Sync, Looked
  <2>4. r.headerbytes = HeadLen + c /\ r.bodybytes = 0 + b
    BY <1>1, <2>1, <2>2, <2>3 DEF SyncFields
  <2>5. Waiting(r) = Waiting(oy) /\ AtCapture(r) /\ CapturedPage(r) = CapturedPage(oy)
    BY <1>2, <2>1, Zenon DEF Waiting, AtCapture, CapturedPage
  <2>6. PageLen(CapturedPage(r)) = HeadLen + c + b
    BY <2>2, <2>5, Zenon DEF PageLen
  <2>7. /\ r.headerbytes \in Nat /\ r.bodybytes \in Nat /\ r.headerbytes # 0
        /\ r.headerbytes + r.bodybytes = HeadLen + c + b
    BY <2>4, SyncAssumption
  <2>8. Looked(r)
    BY <2>1, <2>5, <2>6, <2>7, Zenon DEF Looked
  <2> QED
    BY <1>2, <2>8
<1> QED
  BY <1>3, <1>4

\* Bytes at hand are returned.
LEMMA MovedOn ==
    ASSUME NEW oy, NEW q, Buffered(oy, q), NEW k \in Nat, k <= Waiting(oy),
           NEW o, DOMAIN o = SyncFields, o.data = oy.data, o.returned = oy.returned + k,
           o.unsynced \in BOOLEAN
    PROVE  /\ Buffered(o, q) /\ Waiting(oy) = Waiting(o) + k /\ Far(oy, q) = k + Far(o, q)
           /\ Rest(Ahead(o, q), Far(o, q), Ahead(oy, q), k)
<1>1. PICK r \in Nat, w \in Nat, m \in Nat, l \in Nat :
          /\ r = oy.returned /\ w = Waiting(oy) /\ m = Len(q) /\ l = Len(oy.data)
          /\ r + w = l /\ Far(oy, q) = w + m
  BY BufferedIs, SMTT(30) DEF Buffered
<1>2. Buffered(o, q)
  BY <1>1 DEF Buffered
<1>3. PICK v \in Nat : v = w - k /\ v = Waiting(o) /\ w = v + k
  <2>1. w - k \in Nat /\ w = (w - k) + k
    BY <1>1, SMTT(30)
  <2>2. Waiting(o) = l - (r + k)
    BY <1>1 DEF Waiting
  <2>3. w - k = l - (r + k)
    BY <1>1
  <2> QED
    BY <2>1, <2>2, <2>3
<1>4. Far(o, q) = v + m
  BY <1>1, <1>3 DEF Far
<1>5. Far(oy, q) = k + Far(o, q)
  BY <1>1, <1>3, <1>4
<1>6. Reads(Ahead(oy, q), v + k, oy, m, q) /\ Reads(Ahead(o, q), v, o, m, q)
  BY <1>1, <1>2, <1>3, BufferedIs, Zenon
<1>7. ASSUME NEW i \in Nat, 1 <= i, i <= v + m PROVE Ahead(o, q)[i] = Ahead(oy, q)[k + i]
  <2>1. CASE i <= v
    <3>1. k + i \in Nat /\ 1 <= k + i /\ k + i <= v + k
      BY <2>1, <1>7
    <3>2. Ahead(oy, q)[k + i] = oy.data[oy.returned + (k + i)]
      BY <1>6, <3>1, Zenon DEF Reads
    <3>3. Ahead(o, q)[i] = o.data[o.returned + i]
      BY <1>6, <1>7, <2>1, Zenon DEF Reads
    <3>4. o.returned + i = oy.returned + (k + i)
      BY <1>1
    <3> QED
      BY <3>2, <3>3, <3>4
  <2>2. CASE i > v
    <3>1. PICK j \in Nat : i = v + j /\ 1 <= j /\ j <= m
      <4>1. i - v \in Nat /\ 1 <= i - v /\ i - v <= m /\ v + (i - v) = i
        BY <1>7, <2>2
      <4> QED
        BY <4>1
    <3>2. Ahead(o, q)[v + j] = q[j]
      BY <1>6, <3>1, Zenon DEF Reads
    <3>3. Ahead(oy, q)[(v + k) + j] = q[j]
      BY <1>6, <3>1, Zenon DEF Reads
    <3>4. (v + k) + j = k + i
      BY <3>1
    <3> QED
      BY <3>1, <3>2, <3>3, <3>4
  <2> QED
    BY <2>1, <2>2
<1>8. Rest(Ahead(o, q), Far(o, q), Ahead(oy, q), k)
  BY <1>4, <1>7, Zenon DEF Rest
<1> QED
  BY <1>1, <1>2, <1>3, <1>5, <1>8

-----------------------------------------------------------------------------
(* The steps of ogg_sync_pageseek                                          *)

\* More bytes are needed: less than a header is at hand, or less than a page.
LEMMA MoreIsNeeded ==
    ASSUME NEW oy, NEW q, NEW ps, Sync(oy, q, ps), NeedsMore(oy)
    PROVE  /\ Sync(HeaderRead(oy), q, ps)
           /\ Ahead(HeaderRead(oy), q) = Ahead(oy, q)
           /\ Waiting(HeaderRead(oy)) = Waiting(oy) /\ Far(HeaderRead(oy), q) = Far(oy, q)
           /\ \/ Waiting(oy) < HeadLen
              \/ \E p \in 1 .. Len(ps) : ps[p].len \in Nat /\ Waiting(oy) < ps[p].len
<1> DEFINE r == HeaderRead(oy)
<1>1. /\ DOMAIN r = SyncFields /\ r.data = oy.data
      /\ r.returned = oy.returned /\ r.unsynced = oy.unsynced /\ Looked(r)
  BY HeaderReadIs, Zenon
<1> HIDE DEF r
<1>2. Waiting(r) = Waiting(oy)
  BY <1>1, Zenon DEF Waiting
<1>3. Ahead(r, q) = Ahead(oy, q) /\ Far(r, q) = Far(oy, q)
  BY <1>1, <1>2, Zenon DEF Ahead, Far
<1>4. Buffered(r, q)
  BY <1>1, Zenon DEF Sync, Buffered
<1>5. Sync(r, q, ps)
  BY <1>1, <1>3, <1>4, Zenon DEF Sync
<1>6. ASSUME ~ (Waiting(oy) < HeadLen)
      PROVE  \E p \in 1 .. Len(ps) : ps[p].len \in Nat /\ Waiting(oy) < ps[p].len
  <2>1. PICK w \in Nat : w = Waiting(oy)
    BY BufferedIs, Zenon DEF Sync
  <2>2. Waiting(oy) >= HeadLen
    BY <1>6, <2>1, SyncAssumption
  <2>3. AtCapture(oy)
    <3>1. CASE oy.headerbytes = 0
      BY <2>2, <3>1 DEF NeedsMore, Lost
    <3>2. CASE oy.headerbytes # 0
      BY <3>2 DEF Sync, Looked
    <3> QED
      BY <3>1, <3>2
  <2>4. PICK l \in Nat : /\ Spans(Ahead(oy, q), Far(oy, q), ps, 1, l)
                         /\ l = PageLen(CapturedPage(oy)) /\ l >= HeadLen
                         /\ Len(CapturedPage(oy).segs) \in Nat
                         /\ Len(CapturedPage(oy).body) \in Nat
    BY <2>2, <2>3, PageAtHand, Zenon
  <2>5. PICK p \in 1 .. Len(ps) : ps[p].len = l
    BY <2>4, Zenon DEF Spans
  <2>6. w < l
    <3> SUFFICES ASSUME ~ (w < l) PROVE FALSE
      OBVIOUS
    <3>1. CASE r.headerbytes = 0
      <4>1. oy.headerbytes = 0 /\ r = oy
        BY <3>1, SyncAssumption DEF r, HeaderRead, Sync, Buffered, SyncFields
      <4>2. PICK c \in Nat, b \in Nat : c = Len(CapturedPage(oy).segs)
                                        /\ b = Len(CapturedPage(oy).body)
        BY <2>4
      <4>3. l = HeadLen + c + b
        BY <2>4, <4>2, Zenon DEF PageLen
      <4>4. w >= HeadLen + c
        BY <4>3, SyncAssumption
      <4>5. Waiting(oy) >= HeadLen + Len(CapturedPage(oy).segs)
        BY <2>1, <4>2, <4>4
      <4>6. r = [oy EXCEPT !.bodybytes = @ + Len(CapturedPage(oy).body),
                           !.headerbytes = HeadLen + Len(CapturedPage(oy).segs)]
        BY <2>2, <2>3, <4>1, <4>5, Zenon DEF r, HeaderRead
      <4>7. r.headerbytes = HeadLen + c
        BY <4>2, <4>6 DEF Sync, Buffered, SyncFields
      <4> QED
        BY <3>1, <4>7, SyncAssumption
    <3>2. CASE r.headerbytes # 0
      <4>1. /\ r.headerbytes \in Nat /\ r.bodybytes \in Nat
            /\ r.headerbytes + r.bodybytes = PageLen(CapturedPage(r))
        BY <1>1, <3>2 DEF Looked
      <4>2. CapturedPage(r) = CapturedPage(oy)
        BY <1>1, Zenon DEF CapturedPage
      <4>3. r.bodybytes + r.headerbytes <= Waiting(oy)
        BY <2>1, <2>4, <4>1, <4>2
      <4>4. Whole(oy)
        BY <3>2, <4>3, Zenon DEF Whole, r
      <4> QED
        BY <4>4 DEF NeedsMore
    <3> QED
      BY <3>1, <3>2
  <2> QED
    BY <2>1, <2>5, <2>6
<1>7. \/ Waiting(oy) < HeadLen
      \/ \E p \in 1 .. Len(ps) : ps[p].len \in Nat /\ Waiting(oy) < ps[p].len
  BY <1>6
<1> QED
  BY <1>2, <1>3, <1>5, <1>7, Zenon DEF r

\* A whole page is taken.
LEMMA PageIsTaken ==
    ASSUME NEW oy, NEW q, NEW ps, Sync(oy, q, ps), Whole(oy)
    PROVE  \E l \in Nat :
              /\ 1 <= l /\ Waiting(oy) = Waiting(AfterPage(oy)) + l
              /\ Far(oy, q) = l + Far(AfterPage(oy), q)
              /\ Sync(AfterPage(oy), q, ps)
              /\ AfterPage(oy).data = oy.data /\ AfterPage(oy).unsynced = FALSE
              /\ Rest(Ahead(AfterPage(oy), q), Far(AfterPage(oy), q), Ahead(oy, q), l)
              /\ ~ Junky(Ahead(oy, q)[l])
              /\ \E p \in 1 .. Len(ps) : ps[p].len = l
<1> DEFINE r == HeaderRead(oy)
           o == AfterPage(oy)
<1>1. /\ DOMAIN r = SyncFields /\ r.data = oy.data
      /\ r.returned = oy.returned /\ r.unsynced = oy.unsynced /\ Looked(r)
  BY HeaderReadIs, Zenon
<1>2. r.headerbytes # 0 /\ r.bodybytes + r.headerbytes <= Waiting(oy)
  BY DEF Whole
<1>3. /\ DOMAIN o = SyncFields /\ o.data = r.data
      /\ o.returned = r.returned + r.headerbytes + r.bodybytes
      /\ o.headerbytes = 0 /\ o.bodybytes = 0 /\ o.unsynced = FALSE
  BY <1>1, AfterPageIs, Zenon
<1> HIDE DEF r, o
<1>4. /\ r.headerbytes \in Nat /\ r.bodybytes \in Nat /\ AtCapture(r) /\ Waiting(r) >= HeadLen
      /\ r.headerbytes + r.bodybytes = PageLen(CapturedPage(r))
  BY <1>1, <1>2 DEF Looked
<1>5. AtCapture(oy) /\ CapturedPage(r) = CapturedPage(oy) /\ Waiting(oy) >= HeadLen
  BY <1>1, <1>4, Zenon DEF AtCapture, CapturedPage, Waiting
<1>6. PICK l \in Nat : /\ Spans(Ahead(oy, q), Far(oy, q), ps, 1, l)
                       /\ l = PageLen(CapturedPage(oy)) /\ l >= HeadLen
                       /\ Len(CapturedPage(oy).segs) \in Nat
                       /\ Len(CapturedPage(oy).body) \in Nat
  BY <1>5, PageAtHand, Zenon
<1>7. r.headerbytes + r.bodybytes = l
  BY <1>4, <1>5, <1>6, Zenon
<1>8. 1 <= l /\ l <= Waiting(oy) /\ o.returned = oy.returned + l
  <2>1. oy.returned \in Nat
    BY DEF Sync, Buffered
  <2> QED
    BY <1>1, <1>2, <1>3, <1>4, <1>6, <1>7, <2>1, SyncAssumption
<1>9. /\ Buffered(o, q) /\ Waiting(oy) = Waiting(o) + l /\ Far(oy, q) = l + Far(o, q)
      /\ Rest(Ahead(o, q), Far(o, q), Ahead(oy, q), l)
  <2>1. o.data = oy.data /\ o.unsynced \in BOOLEAN /\ Buffered(oy, q)
    BY <1>1, <1>3 DEF Sync
  <2> QED
    BY <1>3, <1>8, <2>1, MovedOn, Zenon
<1>10. Far(o, q) \in Nat /\ Far(oy, q) \in Nat /\ Framed(Ahead(oy, q), Far(oy, q), ps)
  BY <1>9, BufferedIs, Zenon DEF Sync
<1>11. Framed(Ahead(o, q), Far(o, q), ps)
  BY <1>6, <1>9, <1>10, FramedPast
<1>12. Looked(o)
  BY <1>3 DEF Looked
<1>13. ~ Junky(Ahead(oy, q)[l])
  <2>1. CASE l = 1
    BY <1>6, <2>1 DEF Spans, Junky
  <2>2. CASE l > 1
    <3>1. 1 < l /\ l < 1 + l
      BY <2>2
    <3>2. InPage(Ahead(oy, q)[l])
      BY <1>6, <3>1, Zenon DEF Spans
    <3> QED
      BY <3>2 DEF InPage, Junky
  <2> QED
    BY <1>8, <2>1, <2>2
<1>14. \E p \in 1 .. Len(ps) : ps[p].len = l
  BY <1>6, Zenon DEF Spans
<1>15. Sync(o, q, ps) /\ o.data = oy.data
  BY <1>1, <1>3, <1>9, <1>11, <1>12, Zenon DEF Sync
<1> QED
  BY <1>3, <1>8, <1>9, <1>13, <1>14, <1>15, Zenon DEF o

\* What is no page is skipped, up to where one may begin.
LEMMA LostIsSkipped ==
    ASSUME NEW oy, NEW q, NEW ps, Sync(oy, q, ps), Lost(oy)
    PROVE  \E k \in Nat :
              /\ 1 <= k /\ Waiting(oy) = Waiting(Skipped(oy)) + k
              /\ Far(oy, q) = k + Far(Skipped(oy), q)
              /\ Sync(Skipped(oy), q, ps)
              /\ Skipped(oy).data = oy.data /\ Skipped(oy).unsynced = TRUE
              /\ Rest(Ahead(Skipped(oy), q), Far(Skipped(oy), q), Ahead(oy, q), k)
              /\ Junky(Ahead(oy, q)[1]) /\ 1 <= Far(oy, q)
<1>1. PICK r \in Nat, w \in Nat, l \in Nat :
          /\ r = oy.returned /\ w = Waiting(oy) /\ l = Len(oy.data) /\ r + w = l
  BY BufferedIs DEF Sync, Buffered
<1>2. w >= 1 /\ ~ AtCapture(oy) /\ oy.headerbytes = 0
  BY <1>1, SyncAssumption DEF Lost
<1> DEFINE o == Skipped(oy)
           os == Openings(oy)
<1>4. DOMAIN oy = SyncFields
  BY DEF Sync, Buffered
<1>5. /\ DOMAIN o = SyncFields
      /\ o.data = oy.data
      /\ o.returned = IF os = {} THEN Len(oy.data) ELSE Min(os)
      /\ o.headerbytes = 0 /\ o.bodybytes = 0
      /\ o.unsynced = TRUE
  BY <1>4, SkippedIs, Zenon
<1>6. os \in SUBSET Nat /\ \A i \in os : r + 1 <= i /\ i <= l - 1
  BY <1>1 DEF Openings
<1>7. \A i \in Nat : r + 1 <= i /\ i <= l - 1 /\ oy.data[i + 1].k = "page" => i \in os
  BY <1>1 DEF Openings
<1> HIDE DEF o, os
<1>8. PICK k \in Nat : /\ o.returned = r + k /\ 1 <= k /\ k <= w
                       /\ \A i \in Nat : r + 1 <= i /\ i < r + k => i \notin os
  <2>1. CASE os = {}
    <3>1. o.returned = r + w
      BY <1>1, <1>5, <2>1
    <3> QED
      BY <1>2, <2>1, <3>1
  <2>2. CASE os # {}
    <3>1. Min(os) \in os /\ \A y \in os : Min(os) <= y
      BY <1>6, <2>2, MinIs
    <3>2. PICK m \in Nat : m = Min(os)
      BY <1>6, <3>1
    <3>3. r + 1 <= m /\ m <= l - 1 /\ o.returned = m
      BY <1>5, <1>6, <2>2, <3>1, <3>2
    <3>4. m - r \in Nat /\ r + (m - r) = m /\ 1 <= m - r /\ m - r <= w
      BY <1>1, <3>3
    <3>5. \A i \in Nat : r + 1 <= i /\ i < r + (m - r) => i \notin os
      BY <3>1, <3>2, <3>4
    <3> QED
      BY <3>3, <3>4, <3>5
  <2> QED
    BY <2>1, <2>2
<1>9. /\ Buffered(o, q) /\ Waiting(oy) = Waiting(o) + k /\ Far(oy, q) = k + Far(o, q)
      /\ Rest(Ahead(o, q), Far(o, q), Ahead(oy, q), k)
  <2>1. o.unsynced \in BOOLEAN /\ Buffered(oy, q) /\ o.returned = oy.returned + k /\ k <= Waiting(oy)
    BY <1>1, <1>5, <1>8 DEF Sync
  <2> QED
    BY <1>5, <2>1, MovedOn, Zenon
<1>10. ASSUME NEW i \in Nat, 1 <= i, i <= k PROVE Ahead(oy, q)[i].k # "page"
  <2>1. Ahead(oy, q)[i] = oy.data[oy.returned + i]
    <3>1. Reads(Ahead(oy, q), Waiting(oy), oy, Len(q), q)
      BY BufferedIs, Zenon DEF Sync
    <3>2. i <= Waiting(oy)
      BY <1>1, <1>8, <1>10
    <3> QED
      BY <1>10, <3>1, <3>2, Zenon DEF Reads
  <2>2. CASE i = 1
    BY <1>2, <2>1, <2>2 DEF AtCapture
  <2>3. CASE i > 1
    <3>1. PICK j \in Nat : j = r + i - 1 /\ r + 1 <= j /\ j < r + k /\ j <= l - 1 /\ j + 1 = r + i
      <4>1. /\ r + i - 1 \in Nat /\ r + 1 <= r + i - 1 /\ (r + i - 1) + 1 = r + i
            /\ r + i - 1 < r + k
        BY <1>10, <2>3
      <4>2. r + i - 1 <= l - 1
        BY <1>1, <1>8, <1>10
      <4> QED
        BY <4>1, <4>2
    <3>2. j \notin os
      BY <1>8, <3>1
    <3>3. oy.data[j + 1].k # "page"
      BY <1>7, <3>1, <3>2
    <3>4. oy.data[j + 1] = Ahead(oy, q)[i]
      BY <1>1, <2>1, <3>1
    <3> QED
      BY <3>3, <3>4
  <2> QED
    BY <1>10, <2>2, <2>3
<1>11. Far(o, q) \in Nat /\ Far(oy, q) \in Nat /\ Framed(Ahead(oy, q), Far(oy, q), ps)
  BY <1>9, BufferedIs, Zenon DEF Sync
<1>12. Framed(Ahead(o, q), Far(o, q), ps)
  BY <1>9, <1>10, <1>11, FramedOn
<1>13. Looked(o)
  BY <1>5 DEF Looked
<1>14. Sync(o, q, ps)
  BY <1>9, <1>12, <1>13, Zenon DEF Sync
<1>15. 1 <= Far(oy, q) /\ k <= Far(oy, q)
  BY <1>8, <1>9, <1>11
<1>16. Junky(Ahead(oy, q)[1])
  <2>1. 1 \in Nat /\ 1 <= 1 /\ 1 <= k
    BY <1>8
  <2> QED
    BY <1>10, <1>11, <1>15, <2>1, JunkBefore
<1> QED
  BY <1>5, <1>8, <1>9, <1>14, <1>15, <1>16, Zenon DEF o

\* A look goes on to be one when bytes come in.
LEMMA LookedOn ==
    ASSUME NEW oy, NEW q, Buffered(oy, q), Looked(oy), NEW o, NEW y, Buffered(o, y),
           Waiting(oy) <= Waiting(o), Far(oy, q) = Far(o, y),
           SameBytes(Ahead(o, y), Ahead(oy, q), Far(oy, q)),
           o.headerbytes = oy.headerbytes, o.bodybytes = oy.bodybytes
    PROVE  Looked(o)
<1>1. CASE oy.headerbytes = 0 /\ oy.bodybytes = 0
  BY <1>1 DEF Looked
<1>2. CASE /\ oy.headerbytes \in Nat /\ oy.bodybytes \in Nat /\ oy.headerbytes # 0
           /\ Waiting(oy) >= HeadLen /\ AtCapture(oy)
           /\ oy.headerbytes + oy.bodybytes = PageLen(CapturedPage(oy))
  <2>1. PICK v \in Nat, w \in Nat : v = Waiting(oy) /\ w = Waiting(o)
    BY BufferedIs, Zenon
  <2>2. 1 <= Waiting(oy) /\ 1 <= Waiting(o) /\ Waiting(o) >= HeadLen
    BY <1>2, <2>1, SyncAssumption
  <2>3. Ahead(oy, q)[1] = oy.data[oy.returned + 1] /\ Far(oy, q) >= 1
    BY <2>2, AtHand
  <2>4. Ahead(o, y)[1] = o.data[o.returned + 1]
    BY <2>2, AtHand
  <2>5. Ahead(o, y)[1] = Ahead(oy, q)[1]
    <3>1. 1 \in Nat /\ 1 <= 1 /\ 1 <= Far(oy, q)
      BY <2>3, BufferedIs
    <3> QED
      BY <3>1, Zenon DEF SameBytes
  <2>6. o.data[o.returned + 1] = oy.data[oy.returned + 1]
    BY <2>3, <2>4, <2>5, Zenon
  <2>7. AtCapture(o) /\ CapturedPage(o) = CapturedPage(oy)
    BY <1>2, <2>6, Zenon DEF AtCapture, CapturedPage
  <2> QED
    BY <1>2, <2>2, <2>7, Zenon DEF Looked
<1> QED
  BY <1>1, <1>2, Zenon DEF Looked

\* ogg_sync_buffer makes room, and n bytes go from the ring into it.
ReadIn(oy, q, n) == Filled(Shifted(oy), SubSeq(q, 1, n))
RingAfter(q, n) == SubSeq(q, n + 1, Len(q))

LEMMA ReadInIs ==
    ASSUME NEW oy, DOMAIN oy = SyncFields, NEW q, NEW n
    PROVE  /\ DOMAIN ReadIn(oy, q, n) = SyncFields
           /\ ReadIn(oy, q, n).data
                = SubSeq(oy.data, oy.returned + 1, Len(oy.data)) \o SubSeq(q, 1, n)
           /\ ReadIn(oy, q, n).returned = 0 /\ ReadIn(oy, q, n).unsynced = oy.unsynced
           /\ ReadIn(oy, q, n).headerbytes = oy.headerbytes
           /\ ReadIn(oy, q, n).bodybytes = oy.bodybytes
<1>1. PICK s : s = Shifted(oy)
  OBVIOUS
<1>2. /\ DOMAIN s = SyncFields /\ s.data = SubSeq(oy.data, oy.returned + 1, Len(oy.data))
      /\ s.returned = 0 /\ s.unsynced = oy.unsynced
      /\ s.headerbytes = oy.headerbytes /\ s.bodybytes = oy.bodybytes
  BY <1>1, ShiftedIs, Zenon
<1>3. PICK x : x = SubSeq(q, 1, n)
  OBVIOUS
<1>4. /\ DOMAIN Filled(s, x) = SyncFields /\ Filled(s, x).data = s.data \o x
      /\ Filled(s, x).returned = s.returned /\ Filled(s, x).unsynced = s.unsynced
      /\ Filled(s, x).headerbytes = s.headerbytes
      /\ Filled(s, x).bodybytes = s.bodybytes
  BY <1>2, FilledIs, Zenon
<1>5. ReadIn(oy, q, n) = Filled(s, x)
  BY <1>1, <1>3, Zenon DEF ReadIn
<1> QED
  BY <1>2, <1>3, <1>4, <1>5, Zenon

LEMMA ChunkIsRead ==
    ASSUME NEW oy, NEW q, NEW ps, Sync(oy, q, ps), NEW n \in Nat, n <= Len(q)
    PROVE  /\ Sync(ReadIn(oy, q, n), RingAfter(q, n), ps)
           /\ ReadIn(oy, q, n).unsynced = oy.unsynced
           /\ Waiting(ReadIn(oy, q, n)) = Waiting(oy) + n
           /\ Len(ReadIn(oy, q, n).data) = Waiting(oy) + n
           /\ Far(ReadIn(oy, q, n), RingAfter(q, n)) = Far(oy, q)
           /\ SameBytes(Ahead(ReadIn(oy, q, n), RingAfter(q, n)), Ahead(oy, q), Far(oy, q))
<1> DEFINE o == ReadIn(oy, q, n)
           y == RingAfter(q, n)
<1>1. PICK w \in Nat, m \in Nat : w = Waiting(oy) /\ Len(q) = n + m
  <2>1. PICK a \in Nat : a = Len(q)
    BY BufferedIs, Zenon DEF Sync
  <2>2. a - n \in Nat /\ a = n + (a - n)
    BY <2>1
  <2> QED
    BY <2>1, <2>2, BufferedIs DEF Sync
<1>2. PICK p : p = SubSeq(oy.data, oy.returned + 1, Len(oy.data))
  OBVIOUS
<1>3. PICK r : r = SubSeq(q, 1, n)
  OBVIOUS
<1>4. IsSeq(oy.data) /\ IsSeq(q) /\ oy.returned \in Nat /\ oy.returned + w = Len(oy.data)
  BY <1>1, BufferedIs DEF Sync, Buffered
<1>5. IsSeq(p) /\ IsPart(p, w, oy.data, oy.returned)
  BY <1>1, <1>2, <1>4, PartIs
<1>6. IsSeq(r) /\ IsPart(r, n, q, 0)
  BY <1>1, <1>3, <1>4, FrontIs
<1>7. IsSeq(y) /\ IsPart(y, m, q, n)
  BY <1>1, <1>4, PartIs DEF RingAfter
<1>8. DOMAIN oy = SyncFields
  BY DEF Sync, Buffered
<1>9. /\ DOMAIN o = SyncFields /\ o.data = p \o r
      /\ o.returned = 0 /\ o.unsynced = oy.unsynced
      /\ o.headerbytes = oy.headerbytes /\ o.bodybytes = oy.bodybytes
  <2>1. /\ DOMAIN o = SyncFields
        /\ o.data = SubSeq(oy.data, oy.returned + 1, Len(oy.data)) \o SubSeq(q, 1, n)
        /\ o.returned = 0 /\ o.unsynced = oy.unsynced
        /\ o.headerbytes = oy.headerbytes /\ o.bodybytes = oy.bodybytes
    BY <1>8, ReadInIs, Zenon
  <2>2. o.data = p \o r
    BY <1>2, <1>3, <2>1, Zenon
  <2> QED
    BY <2>1, <2>2, Zenon
<1> HIDE DEF o, y
<1>10. IsSeq(o.data) /\ IsJoin(o.data, p, w, r, n)
  <2>1. Len(p) = w /\ Len(r) = n
    BY <1>5, <1>6 DEF IsPart
  <2>2. IsSeq(p \o r) /\ IsJoin(p \o r, p, Len(p), r, Len(r))
    BY <1>5, <1>6, JoinIs, Zenon
  <2> QED
    BY <1>9, <2>1, <2>2, Zenon
<1>11. Len(o.data) = w + n /\ Waiting(o) = w + n /\ Len(y) = m
  <2>1. Len(o.data) = w + n
    BY <1>10 DEF IsJoin
  <2>2. Waiting(o) = w + n
    BY <1>9, <2>1 DEF Waiting
  <2> QED
    BY <1>7, <2>1, <2>2 DEF IsPart
<1>12. Buffered(o, y)
  BY <1>7, <1>9, <1>10, <1>11 DEF Buffered, Sync
<1>13. Far(oy, q) = w + (m + n) /\ Far(o, y) = w + (m + n)
  BY <1>1, <1>11 DEF Far
<1>14. Reads(Ahead(oy, q), w, oy, m + n, q) /\ Reads(Ahead(o, y), w + n, o, m, y)
  <2>1. Len(q) = m + n
    BY <1>1
  <2> QED
    BY <1>1, <1>11, <1>12, <2>1, BufferedIs, Zenon DEF Sync
<1>15. SameBytes(Ahead(o, y), Ahead(oy, q), Far(oy, q))
  <2>1. o.returned = 0
    BY <1>9
  <2>2. SameBytes(Ahead(o, y), Ahead(oy, q), w + (m + n))
    <3>1. Refilled(o, y, oy, q, w, m, n)
      BY <1>5, <1>6, <1>7, <1>10, <2>1, Zenon DEF Refilled
    <3> QED
      BY <1>14, <3>1, SameAhead, Zenon
  <2> QED
    BY <1>13, <2>2, Zenon
<1>16. Framed(Ahead(o, y), Far(o, y), ps)
  <2>1. Far(oy, q) \in Nat /\ Framed(Ahead(oy, q), Far(oy, q), ps)
    BY <1>13 DEF Sync
  <2>2. Framed(Ahead(o, y), Far(oy, q), ps)
    BY <1>15, <2>1, FramedSame
  <2> QED
    BY <1>13, <2>2, Zenon
<1>17. Looked(o)
  <2>1. Waiting(oy) <= Waiting(o) /\ Far(oy, q) = Far(o, y)
    BY <1>1, <1>11, <1>13
  <2> QED
    BY <1>9, <1>12, <1>15, <2>1, LookedOn, Zenon DEF Sync
<1>18. Waiting(o) = Waiting(oy) + n /\ Len(o.data) = Waiting(oy) + n /\ Far(o, y) = Far(oy, q)
  BY <1>1, <1>11, <1>13
<1> QED
  BY <1>9, <1>12, <1>15, <1>16, <1>17, <1>18, Zenon DEF Sync, o, y

\* Nothing is read: what was returned makes room.
LEMMA RoomIsMade ==
    ASSUME NEW oy, NEW q, NEW ps, Sync(oy, q, ps)
    PROVE  /\ Sync(Shifted(oy), q, ps)
           /\ Shifted(oy).unsynced = oy.unsynced
           /\ Waiting(Shifted(oy)) = Waiting(oy)
           /\ Len(Shifted(oy).data) = Waiting(oy)
           /\ Far(Shifted(oy), q) = Far(oy, q)
           /\ SameBytes(Ahead(Shifted(oy), q), Ahead(oy, q), Far(oy, q))
<1> DEFINE o == Shifted(oy)
<1>1. PICK w \in Nat, m \in Nat : w = Waiting(oy) /\ m = Len(q)
  BY BufferedIs, Zenon DEF Sync
<1>2. PICK p : p = SubSeq(oy.data, oy.returned + 1, Len(oy.data))
  OBVIOUS
<1>3. IsSeq(oy.data) /\ IsSeq(q) /\ oy.returned \in Nat /\ oy.returned + w = Len(oy.data)
  BY <1>1, BufferedIs DEF Sync, Buffered
<1>4. IsSeq(p) /\ IsPart(p, w, oy.data, oy.returned)
  BY <1>2, <1>3, PartIs
<1>5. DOMAIN oy = SyncFields
  BY DEF Sync, Buffered
<1>6. /\ DOMAIN o = SyncFields /\ o.data = p
      /\ o.returned = 0 /\ o.unsynced = oy.unsynced
      /\ o.headerbytes = oy.headerbytes /\ o.bodybytes = oy.bodybytes
  BY <1>2, <1>5, ShiftedIs
<1> HIDE DEF o
<1>7. Len(o.data) = w /\ Waiting(o) = w
  BY <1>4, <1>6 DEF Waiting, IsPart
<1>8. Buffered(o, q)
  BY <1>3, <1>4, <1>6, <1>7 DEF Buffered, Sync
<1>9. Far(oy, q) = w + (m + 0) /\ Far(o, q) = w + (m + 0)
  BY <1>1, <1>7 DEF Far
<1>10. Reads(Ahead(oy, q), w, oy, m + 0, q) /\ Reads(Ahead(o, q), w + 0, o, m, q)
  <2>1. m + 0 = m /\ w + 0 = w
    OBVIOUS
  <2> QED
    BY <1>1, <1>7, <1>8, <2>1, BufferedIs, Zenon DEF Sync
<1>11. SameBytes(Ahead(o, q), Ahead(oy, q), Far(oy, q))
  <2>1. IsPart(q, m, q, 0)
    BY <1>1 DEF IsPart
  <2>2. IsPart(<<>>, 0, q, 0)
    BY DEF IsPart
  <2>3. IsJoin(o.data, p, w, <<>>, 0)
    BY <1>6, <1>7 DEF IsJoin
  <2>4. Refilled(o, q, oy, q, w, m, 0)
    BY <1>4, <1>6, <2>1, <2>2, <2>3, Zenon DEF Refilled
  <2>5. SameBytes(Ahead(o, q), Ahead(oy, q), w + (m + 0))
    <3>1. 0 \in Nat
      OBVIOUS
    <3> QED
      BY <1>10, <2>4, <3>1, SameAhead, Zenon
  <2> QED
    BY <1>9, <2>5, Zenon
<1>12. Framed(Ahead(o, q), Far(o, q), ps)
  <2>1. Far(oy, q) \in Nat /\ Framed(Ahead(oy, q), Far(oy, q), ps)
    BY <1>9 DEF Sync
  <2>2. Framed(Ahead(o, q), Far(oy, q), ps)
    BY <1>11, <2>1, FramedSame
  <2> QED
    BY <1>9, <2>2, Zenon
<1>13. Looked(o)
  <2>1. Waiting(oy) <= Waiting(o) /\ Far(oy, q) = Far(o, q)
    BY <1>1, <1>7, <1>9
  <2> QED
    BY <1>6, <1>8, <1>11, <2>1, LookedOn, Zenon DEF Sync
<1>14. Waiting(o) = Waiting(oy) /\ Len(o.data) = Waiting(oy) /\ Far(o, q) = Far(oy, q)
  BY <1>1, <1>7, <1>9
<1> QED
  BY <1>6, <1>8, <1>11, <1>12, <1>13, <1>14, Zenon DEF Sync, o

\* Bytes arrive behind those in the ring.
LEMMA BytesArrive ==
    ASSUME NEW oy, NEW q, NEW ps, Sync(oy, q, ps),
           NEW x, IsSeq(x), Framed(x, Len(x), ps)
    PROVE  /\ Sync(oy, q \o x, ps) /\ Far(oy, q \o x) = Far(oy, q) + Len(x)
           /\ SameBytes(Ahead(oy, q \o x), Ahead(oy, q), Far(oy, q))
           /\ Rest(x, Len(x), Ahead(oy, q \o x), Far(oy, q))
<1>1. PICK w \in Nat, m \in Nat, e \in Nat : w = Waiting(oy) /\ m = Len(q) /\ e = Len(x)
  BY BufferedIs, IsSeqLen, Zenon DEF Sync
<1>2. PICK y : y = q \o x
  OBVIOUS
<1>3. IsSeq(y) /\ IsJoin(y, q, m, x, e)
  BY <1>1, <1>2, JoinIs, Zenon DEF Sync, Buffered
<1>4. Buffered(oy, y) /\ Len(y) = m + e
  BY <1>3 DEF Buffered, Sync, IsJoin
<1>5. Far(oy, q) = w + m /\ Far(oy, y) = (w + m) + e
  BY <1>1, <1>4, SMTT(30) DEF Far
<1>6. Reads(Ahead(oy, q), w, oy, m, q) /\ Reads(Ahead(oy, y), w, oy, m + e, y)
  BY <1>1, <1>4, BufferedIs, Zenon DEF Sync
<1>7. ASSUME NEW i \in Nat, 1 <= i, i <= w + m PROVE Ahead(oy, y)[i] = Ahead(oy, q)[i]
  <2>1. CASE i <= w
    BY <1>6, <1>7, <2>1, Zenon DEF Reads
  <2>2. CASE i > w
    <3>1. PICK j \in Nat : i = w + j /\ 1 <= j /\ j <= m /\ j <= m + e
      <4>1. i - w \in Nat /\ 1 <= i - w /\ i - w <= m /\ i - w <= m + e /\ w + (i - w) = i
        BY <1>7, <2>2
      <4> QED
        BY <4>1
    <3>2. Ahead(oy, y)[w + j] = y[j] /\ Ahead(oy, q)[w + j] = q[j]
      BY <1>6, <3>1, Zenon DEF Reads
    <3>3. y[j] = q[j]
      BY <1>3, <3>1, Zenon DEF IsJoin
    <3> QED
      BY <3>1, <3>2, <3>3, Zenon
  <2> QED
    BY <2>1, <2>2
<1>8. ASSUME NEW i \in Nat, 1 <= i, i <= e PROVE x[i] = Ahead(oy, y)[(w + m) + i]
  <2>1. m + i \in Nat /\ 1 <= m + i /\ m + i <= m + e /\ w + (m + i) = (w + m) + i
    BY <1>8
  <2>2. Ahead(oy, y)[w + (m + i)] = y[m + i]
    BY <1>6, <2>1, Zenon DEF Reads
  <2>3. y[m + i] = x[i]
    BY <1>3, <1>8, Zenon DEF IsJoin
  <2> QED
    BY <2>1, <2>2, <2>3, Zenon
<1>9. SameBytes(Ahead(oy, y), Ahead(oy, q), w + m)
  BY <1>7, Zenon DEF SameBytes
<1>10. Rest(x, e, Ahead(oy, y), w + m)
  BY <1>8, Zenon DEF Rest
<1>11. Framed(Ahead(oy, y), (w + m) + e, ps)
  <2>1. PICK n \in Nat : n = w + m
    OBVIOUS
  <2>2. Framed(Ahead(oy, q), n, ps) /\ Framed(x, e, ps)
    BY <1>1, <1>5, <2>1, Zenon DEF Sync
  <2>3. \A i \in Nat : 1 <= i /\ i <= n => Ahead(oy, y)[i] = Ahead(oy, q)[i]
    BY <1>7, <2>1
  <2>4. \A i \in Nat : 1 <= i /\ i <= e => Ahead(oy, y)[n + i] = x[i]
    BY <1>8, <2>1
  <2>5. Framed(Ahead(oy, y), n + e, ps)
    BY <2>2, <2>3, <2>4, FramedJoin
  <2> QED
    BY <2>1, <2>5, Zenon
<1>12. Sync(oy, y, ps)
  BY <1>4, <1>5, <1>11, Zenon DEF Sync
<1> QED
  BY <1>1, <1>2, <1>5, <1>9, <1>10, <1>12, Zenon

\* More pages are made.
LEMMA MorePages ==
    ASSUME NEW oy, NEW q, NEW ps, NEW rs, Sync(oy, q, ps),
           \A p \in 1 .. Len(ps) : \E r \in 1 .. Len(rs) : rs[r].len = ps[p].len
    PROVE  Sync(oy, q, rs)
<1>1. Framed(Ahead(oy, q), Far(oy, q), rs)
  BY FramedMore DEF Sync
<1> QED
  BY <1>1 DEF Sync

\* A page of the length of one made is framed, and so is junk.
LEMMA PageIsFramed ==
    ASSUME NEW page, Len(page.segs) \in Nat, Len(page.body) \in Nat,
           NEW ps, \E p \in 1 .. Len(ps) : ps[p].len = PageLen(page)
    PROVE  /\ IsSeq(PageBytes(page)) /\ Framed(PageBytes(page), Len(PageBytes(page)), ps)
           /\ \A i \in Nat : 1 <= i /\ i <= Len(PageBytes(page)) => ~ Junky(PageBytes(page)[i])
<1>1. PICK x : x = PageBytes(page)
  OBVIOUS
<1>2. PICK l \in Nat : l = PageLen(page) /\ l >= HeadLen /\ Len(x) = l
  BY <1>1, PageBytesAre
<1>3. IsSeq(x) /\ x[1] = [k |-> "page", pg |-> page]
  BY <1>1, PageBytesAre
<1>4. \A i \in Nat : 1 < i /\ i <= l => InPage(x[i])
  BY <1>1, <1>2, PageBytesAre
<1>5. l >= 1
  BY <1>2, SyncAssumption
<1>6. Spans(x, l, ps, 1, l)
  <2>1. x[1].k = "page" /\ x[1].pg = page
    BY <1>3
  <2>2. 1 + l - 1 <= l
    OBVIOUS
  <2>3. \A i \in Nat : 1 < i /\ i < 1 + l => InPage(x[i])
    BY <1>4
  <2>4. l = PageLen(x[1].pg) /\ Len(x[1].pg.segs) \in Nat /\ Len(x[1].pg.body) \in Nat
    BY <1>2, <2>1, Zenon
  <2>5. \E p \in 1 .. Len(ps) : ps[p].len = l
    BY <1>2, Zenon
  <2> QED
    BY <2>1, <2>2, <2>3, <2>4, <2>5, Zenon DEF Spans
<1>7. Framed(x, l, ps)
  <2>1. \A i \in Nat : 1 <= i /\ i <= l => 1 \in Nat /\ 1 <= 1 /\ 1 <= i /\ i < 1 + l
    OBVIOUS
  <2> QED
    BY <1>6, <2>1, Zenon DEF Framed
<1>8. ASSUME NEW i \in Nat, 1 <= i, i <= l PROVE ~ Junky(x[i])
  <2>1. CASE i = 1
    BY <1>3, <2>1 DEF Junky
  <2>2. CASE i > 1
    BY <1>4, <1>8, <2>2 DEF Junky, InPage
  <2> QED
    BY <1>8, <2>1, <2>2
<1> QED
  BY <1>1, <1>2, <1>3, <1>7, <1>8, Zenon

LEMMA ElementIs ==
    ASSUME NEW S, NEW x \in Seq(S), NEW i \in 1 .. Len(x)
    PROVE  x[i] \in S
OBVIOUS

LEMMA JunkIsFramed ==
    ASSUME NEW x, x \in Seq([k : {"junk", "O"}]), NEW ps
    PROVE  /\ IsSeq(x) /\ Framed(x, Len(x), ps)
           /\ \A i \in Nat : 1 <= i /\ i <= Len(x) => Junky(x[i])
<1>1. IsSeq(x)
  BY Zenon DEF IsSeq
<1>2. ASSUME NEW i \in Nat, 1 <= i, i <= Len(x) PROVE Junky(x[i])
  <2>1. x[i] \in [k : {"junk", "O"}]
    <3>1. PICK S : S = [k : {"junk", "O"}] /\ x \in Seq(S)
      BY Zenon
    <3>2. PICK l \in Nat : l = Len(x)
      BY <1>1, IsSeqLen, Zenon
    <3>3. i \in 1 .. l
      BY <1>2, <3>2
    <3>4. x[i] \in S
      BY <3>1, <3>2, <3>3, ElementIs, Zenon
    <3> QED
      BY <3>1, <3>4, Zenon
  <2> QED
    BY <2>1 DEF Junky
<1>3. Framed(x, Len(x), ps)
  BY <1>2, Zenon DEF Framed
<1> QED
  BY <1>1, <1>2, <1>3

-----------------------------------------------------------------------------
(* How much the sync buffer may hold                                       *)

\* One byte less than the longest page made
Top(ps) == Max({0} \cup {ps[n].len - 1 : n \in 1 .. Len(ps)})

\* The pages made are at least a header long, and there is a longest one.
Pages(ps) ==
    /\ IsSeq(ps)
    /\ \E N \in Nat : \A n \in 1 .. Len(ps) :
          ps[n].len \in Nat /\ ps[n].len >= HeadLen /\ ps[n].len - 1 <= N

LEMMA TopIs ==
    ASSUME NEW ps, Pages(ps)
    PROVE  /\ Top(ps) \in Nat /\ \A n \in 1 .. Len(ps) : ps[n].len - 1 <= Top(ps)
           /\ Top(ps) = 0 \/ \E n \in 1 .. Len(ps) : Top(ps) = ps[n].len - 1
<1> DEFINE T == {0} \cup {ps[n].len - 1 : n \in 1 .. Len(ps)}
<1>1. PICK N \in Nat : \A n \in 1 .. Len(ps) :
          ps[n].len \in Nat /\ ps[n].len >= HeadLen /\ ps[n].len - 1 <= N
  BY DEF Pages
<1>2. \A n \in 1 .. Len(ps) : ps[n].len - 1 \in Nat
  BY <1>1, SyncAssumption
<1>3. T \in SUBSET Nat /\ T # {} /\ \A y \in T : y <= N
  BY <1>1, <1>2
<1>4. \A n \in 1 .. Len(ps) : ps[n].len - 1 \in T
  OBVIOUS
<1>5. \A y \in T : y = 0 \/ \E n \in 1 .. Len(ps) : y = ps[n].len - 1
  OBVIOUS
<1>6. Top(ps) = Max(T)
  BY Zenon DEF Top
<1> HIDE DEF T
<1>7. Max(T) \in T /\ \A y \in T : y <= Max(T)
  BY <1>3, MaxIs
<1> QED
  BY <1>3, <1>4, <1>5, <1>6, <1>7

LEMMA TopGrows ==
    ASSUME NEW ps, NEW rs, Pages(ps), Pages(rs),
           \A p \in 1 .. Len(ps) : \E r \in 1 .. Len(rs) : rs[r].len = ps[p].len
    PROVE  Top(ps) <= Top(rs)
<1>1. Top(ps) \in Nat /\ Top(rs) \in Nat
  BY TopIs
<1>2. CASE Top(ps) = 0
  BY <1>1, <1>2
<1>3. CASE \E n \in 1 .. Len(ps) : Top(ps) = ps[n].len - 1
  <2>1. PICK n \in 1 .. Len(ps) : Top(ps) = ps[n].len - 1
    BY <1>3
  <2>2. PICK r \in 1 .. Len(rs) : rs[r].len = ps[n].len
    OBVIOUS
  <2>3. rs[r].len - 1 <= Top(rs)
    BY TopIs
  <2> QED
    BY <2>1, <2>2, <2>3
<1> QED
  BY <1>2, <1>3, TopIs

\* One more page.
LEMMA PageAdded ==
    ASSUME NEW ps, Pages(ps), NEW page, page.len \in Nat, page.len >= HeadLen
    PROVE  /\ Pages(Append(ps, page))
           /\ \A p \in 1 .. Len(ps) : \E r \in 1 .. Len(Append(ps, page)) :
                 Append(ps, page)[r].len = ps[p].len
           /\ \E r \in 1 .. Len(Append(ps, page)) : Append(ps, page)[r].len = page.len
<1>1. PICK S : ps \in Seq(S)
  BY DEF Pages, IsSeq
<1>2. PICK l \in Nat : l = Len(ps)
  BY <1>1
<1>3. PICK rs : rs = Append(ps, page)
  OBVIOUS
<1>4. rs \in Seq(S \cup {page}) /\ Len(rs) = l + 1 /\ rs[l + 1] = page
      /\ \A i \in 1 .. l : rs[i] = ps[i]
  BY <1>1, <1>2, <1>3
<1>5. PICK N \in Nat : \A n \in 1 .. Len(ps) :
          ps[n].len \in Nat /\ ps[n].len >= HeadLen /\ ps[n].len - 1 <= N
  BY DEF Pages
<1>6. PICK M \in Nat : N <= M /\ page.len - 1 <= M
  <2>1. N + page.len \in Nat /\ N <= N + page.len /\ page.len - 1 <= N + page.len
    OBVIOUS
  <2> QED
    BY <2>1
<1>7. ASSUME NEW n \in 1 .. l + 1
      PROVE  rs[n].len \in Nat /\ rs[n].len >= HeadLen /\ rs[n].len - 1 <= M
  <2>1. CASE n = l + 1
    BY <1>4, <1>6, <2>1
  <2>2. CASE n # l + 1
    <3>1. n \in 1 .. l
      BY <1>2, <2>2
    <3>2. rs[n] = ps[n] /\ ps[n].len \in Nat /\ ps[n].len >= HeadLen /\ ps[n].len - 1 <= N
      BY <1>2, <1>4, <1>5, <3>1
    <3> QED
      BY <1>6, <3>2
  <2> QED
    BY <2>1, <2>2
<1>8. Pages(rs)
  <2>1. IsSeq(rs)
    BY <1>4, Zenon DEF IsSeq
  <2> QED
    BY <1>4, <1>7, <2>1, Zenon DEF Pages
<1>9. ASSUME NEW p \in 1 .. Len(ps) PROVE \E r \in 1 .. Len(rs) : rs[r].len = ps[p].len
  <2>1. p \in 1 .. l /\ p \in 1 .. Len(rs)
    BY <1>2, <1>4
  <2> QED
    BY <1>4, <2>1
<1>10. \E r \in 1 .. Len(rs) : rs[r].len = page.len
  <2>1. l + 1 \in 1 .. Len(rs)
    BY <1>4
  <2> QED
    BY <1>4, <2>1
<1> QED
  BY <1>3, <1>8, <1>9, <1>10, Zenon

\* What fits when c chunks were read for stretches of junk and failures.
Room(c, ps) == Chunk * c + Top(ps)

LEMMA RoomIs ==
    ASSUME NEW c \in Nat, NEW ps, Pages(ps)
    PROVE  Room(c, ps) \in Nat /\ Room(c + 1, ps) = Room(c, ps) + Chunk /\ Top(ps) <= Room(c, ps)
<1>1. Top(ps) \in Nat /\ Chunk \in Nat
  BY TopIs, SyncAssumption
<1>2. Chunk * c \in Nat /\ Chunk * (c + 1) = Chunk * c + Chunk
  BY <1>1
<1> QED
  BY <1>1, <1>2 DEF Room

LEMMA RoomGrows ==
    ASSUME NEW c \in Nat, NEW d \in Nat, c <= d, NEW ps, NEW rs, Pages(ps), Pages(rs),
           Top(ps) <= Top(rs)
    PROVE  Room(c, ps) <= Room(d, rs)
<1>1. Top(ps) \in Nat /\ Top(rs) \in Nat /\ Chunk \in Nat
  BY TopIs, SyncAssumption
<1>2. PICK e \in Nat : d = c + e
  <2>1. d - c \in Nat /\ d = c + (d - c)
    OBVIOUS
  <2> QED
    BY <2>1
<1>3. Chunk * c \in Nat /\ Chunk * e \in Nat /\ Chunk * (c + e) = Chunk * c + Chunk * e
  BY <1>1
<1> QED
  BY <1>1, <1>2, <1>3 DEF Room

LEMMA RoomHeads ==
    ASSUME NEW c \in Nat, c >= 1, NEW ps, Pages(ps)
    PROVE  HeadLen <= Room(c, ps)
<1>1. Top(ps) \in Nat /\ Chunk \in Nat /\ HeadLen \in Nat /\ HeadLen <= Chunk
  BY TopIs, SyncAssumption
<1>2. PICK e \in Nat : c = 1 + e
  <2>1. c - 1 \in Nat /\ c = 1 + (c - 1)
    OBVIOUS
  <2> QED
    BY <2>1
<1>3. Chunk * e \in Nat /\ Chunk * (1 + e) = Chunk + Chunk * e
  BY <1>1
<1> QED
  BY <1>1, <1>2, <1>3 DEF Room

-----------------------------------------------------------------------------
(* The invariant of a task                                                 *)

DecFields ==
    {"pc", "state", "oy", "os", "stream_init", "has_opus_stream", "has_tags_packet",
     "packet_count", "header", "st", "w_ctrl"}

\* The next thing the decoder does with its buffer is to read a chunk.
Reading(d) == d.pc = "read" \/ (d.pc = "out" /\ d.state # "SYNC_PACKET")

\* The stretch the decoder is in, if it lost the pages, was counted.
From(oy) == IF oy.unsynced THEN 2 ELSE 1

\* Of the J chunks for junk and failures c were read, and those left are enough for
\* the stretches ahead.
Spent(d, q, ps, J, c) ==
    /\ c <= J
    /\ Stretches(Ahead(d.oy, q), Far(d.oy, q), From(d.oy), J - c)
    /\ d.oy.unsynced => c >= 1
    /\ Len(d.oy.data) <= Room(c + 1, ps)
    /\ Reading(d) => Waiting(d.oy) <= Room(c, ps)

\* Before there is a page, nothing waits but what a seek has yet to look at.
Fresh(d, ps) ==
    \/ Len(ps) # 0
    \/ d.oy.unsynced
    \/ Waiting(d.oy) = 0
    \/ d.pc = "seek" /\ Waiting(d.oy) >= HeadLen

\* On x86 nothing gets into the buffer.
Dry(oy) ==
    DOMAIN oy = SyncFields /\ oy.data = <<>> /\ oy.returned = 0 /\ oy.headerbytes = 0

Supplied(d, q, ps, J) ==
    /\ Sync(d.oy, q, ps) /\ Fresh(d, ps)
    /\ \E c \in Nat : Spent(d, q, ps, J, c)

TaskInv(d, q, ps, J) ==
    /\ DOMAIN d = DecFields /\ Pages(ps)
    /\ Build = "x86" => Dry(d.oy)
    /\ Build # "x86" => Supplied(d, q, ps, J)

\* What follows is the bound.
LEMMA TaskBounded ==
    ASSUME NEW d, NEW q, NEW ps, NEW J \in Nat, TaskInv(d, q, ps, J)
    PROVE  Len(d.oy.data) <= Chunk * (1 + J) + Top(ps)
<1>1. Pages(ps)
  BY DEF TaskInv
<1>2. Room(J + 1, ps) = Chunk * (1 + J) + Top(ps) /\ Room(J + 1, ps) \in Nat
  <2>1. Room(J + 1, ps) = Chunk * (J + 1) + Top(ps)
    BY DEF Room
  <2>2. J + 1 = 1 + J
    OBVIOUS
  <2>3. Room(J + 1, ps) \in Nat
    <3>1. J + 1 \in Nat
      OBVIOUS
    <3> QED
      BY <1>1, <3>1, RoomIs, Zenon
  <2> QED
    BY <2>1, <2>2, <2>3, Zenon
<1>3. CASE Build = "x86"
  <2>1. d.oy.data = <<>>
    BY <1>3 DEF TaskInv, Dry
  <2>2. Len(d.oy.data) = 0
    BY <2>1
  <2> QED
    BY <1>2, <2>2
<1>4. CASE Build # "x86"
  <2>1. PICK c \in Nat : Spent(d, q, ps, J, c)
    BY <1>4, Zenon DEF TaskInv, Supplied
  <2>2. c <= J /\ Len(d.oy.data) <= Room(c + 1, ps)
    BY <2>1 DEF Spent
  <2>3. c + 1 \in Nat /\ J + 1 \in Nat /\ c + 1 <= J + 1
    BY <2>2
  <2>4. Top(ps) \in Nat
    BY <1>1, TopIs
  <2>5. Room(c + 1, ps) <= Room(J + 1, ps) /\ Room(c + 1, ps) \in Nat
    BY <1>1, <2>3, <2>4, RoomGrows, RoomIs
  <2>6. Len(d.oy.data) \in Nat
    <3>1. Buffered(d.oy, q)
      BY <1>4, Zenon DEF TaskInv, Supplied, Sync
    <3> QED
      BY <3>1, BufferedIs
  <2> QED
    BY <1>2, <2>2, <2>5, <2>6
<1> QED
  BY <1>3, <1>4

\* Junk and failures elsewhere.
LEMMA SpentMore ==
    ASSUME NEW d, NEW q, NEW ps, NEW J \in Nat, NEW K \in Nat, J <= K, NEW c \in Nat,
           Spent(d, q, ps, J, c)
    PROVE  Spent(d, q, ps, K, c)
<1>1. c <= J /\ Stretches(Ahead(d.oy, q), Far(d.oy, q), From(d.oy), J - c)
  BY DEF Spent
<1>2. J - c \in Nat /\ K - c \in Nat /\ J - c <= K - c /\ c <= K
  BY <1>1
<1>3. Stretches(Ahead(d.oy, q), Far(d.oy, q), From(d.oy), K - c)
  BY <1>1, <1>2, StretchesMore
<1> QED
  BY <1>2, <1>3, Zenon DEF Spent

LEMMA TaskMore ==
    ASSUME NEW d, NEW q, NEW ps, NEW J \in Nat, NEW K \in Nat, J <= K, TaskInv(d, q, ps, J)
    PROVE  TaskInv(d, q, ps, K)
<1>1. \A c \in Nat : Spent(d, q, ps, J, c) => Spent(d, q, ps, K, c)
  BY SpentMore, Zenon
<1> QED
  BY <1>1, Zenon DEF TaskInv, Supplied

-----------------------------------------------------------------------------
(* Steps that leave the sync buffer alone                                  *)

NoNewRead(d, e) == Reading(e) => Reading(d)

LEMMA BufferKept ==
    ASSUME NEW d, NEW q, NEW ps, NEW J \in Nat, TaskInv(d, q, ps, J),
           NEW e, DOMAIN e = DecFields, e.oy = d.oy, d.pc # "seek",
           NoNewRead(d, e)
    PROVE  TaskInv(e, q, ps, J)
<1>1. \A c \in Nat : Spent(d, q, ps, J, c) => Spent(e, q, ps, J, c)
  BY Zenon DEF Spent, NoNewRead
<1>2. Fresh(d, ps) => Fresh(e, ps)
  BY Zenon DEF Fresh
<1> QED
  BY <1>1, <1>2, Zenon DEF TaskInv, Supplied

\* A decoder could not be made: a chunk for the failure.
LEMMA BufferStays ==
    ASSUME NEW d, NEW q, NEW ps, NEW J \in Nat, TaskInv(d, q, ps, J),
           NEW e, DOMAIN e = DecFields, e.oy = d.oy, d.pc # "seek"
    PROVE  TaskInv(e, q, ps, J + 1)
<1>1. ASSUME Build # "x86" PROVE Supplied(e, q, ps, J + 1)
  <2>1. PICK c \in Nat : Spent(d, q, ps, J, c)
    BY <1>1, Zenon DEF TaskInv, Supplied
  <2>2. /\ c <= J /\ Stretches(Ahead(e.oy, q), Far(e.oy, q), From(e.oy), J - c)
        /\ Len(e.oy.data) <= Room(c + 1, ps)
    BY <2>1, Zenon DEF Spent
  <2>3. PICK g \in Nat : g = c + 1 /\ g <= J + 1 /\ g >= 1 /\ (J + 1) - g = J - c
    BY <2>2
  <2>4. Buffered(e.oy, q) /\ Pages(ps)
    BY <1>1, Zenon DEF TaskInv, Supplied, Sync
  <2>5. PICK r \in Nat : r = Room(g, ps) /\ Room(g + 1, ps) = r + Chunk
    BY <2>4, RoomIs
  <2>6. /\ Len(e.oy.data) \in Nat /\ Waiting(e.oy) \in Nat /\ e.oy.returned \in Nat
        /\ e.oy.returned + Waiting(e.oy) = Len(e.oy.data)
    BY <2>4, BufferedIs DEF Buffered
  <2>7. Len(e.oy.data) <= r
    BY <2>2, <2>3, <2>5
  <2>8. Len(e.oy.data) <= Room(g + 1, ps) /\ Waiting(e.oy) <= Room(g, ps)
    BY <2>5, <2>6, <2>7, SyncAssumption, SMTT(30)
  <2>9. Stretches(Ahead(e.oy, q), Far(e.oy, q), From(e.oy), (J + 1) - g)
    BY <2>2, <2>3, Zenon
  <2>10. Spent(e, q, ps, J + 1, g)
    BY <2>3, <2>8, <2>9, Zenon DEF Spent
  <2>11. Sync(e.oy, q, ps) /\ Fresh(e, ps)
    BY <1>1, Zenon DEF TaskInv, Supplied, Fresh
  <2> QED
    BY <2>10, <2>11, Zenon DEF Supplied
<1> QED
  BY <1>1, Zenon DEF TaskInv

-----------------------------------------------------------------------------
(* Steps of the sync buffer                                                *)

LEMMA FromIs ==
    ASSUME NEW oy
    PROVE  From(oy) \in Nat /\ From(oy) <= 2 /\ (oy.unsynced = FALSE => From(oy) = 1)
           /\ (oy.unsynced = TRUE => From(oy) = 2)
BY DEF From

\* On x86 ogg_sync_buffer fails, and the bytes of the ring are gone.
LEMMA DryStep ==
    ASSUME Build = "x86", NEW d, NEW q, NEW ps, NEW J, TaskInv(d, q, ps, J),
           NEW e, DOMAIN e = DecFields, e.oy = Shifted(d.oy) \/ e.oy = HeaderRead(d.oy) \/ e.oy = d.oy,
           NEW y
    PROVE  TaskInv(e, y, ps, J)
<1>1. Dry(d.oy) /\ Pages(ps)
  BY DEF TaskInv
<1>2. PICK oy : oy = d.oy
  OBVIOUS
<1>3. Dry(oy)
  BY <1>1, <1>2
<1>4. DOMAIN oy = SyncFields /\ oy.data = <<>> /\ oy.returned = 0 /\ oy.headerbytes = 0
  BY <1>3 DEF Dry
<1>5. Dry(Shifted(oy))
  <2>1. /\ DOMAIN Shifted(oy) = SyncFields /\ Shifted(oy).returned = 0
        /\ Shifted(oy).data = SubSeq(oy.data, oy.returned + 1, Len(oy.data))
        /\ Shifted(oy).headerbytes = oy.headerbytes
    BY <1>4, ShiftedIs
  <2>2. SubSeq(oy.data, oy.returned + 1, Len(oy.data)) = <<>>
    <3>1. SubSeq(<<>>, 0 + 1, Len(<<>>)) = <<>>
      OBVIOUS
    <3> QED
      BY <1>4, <3>1, Zenon
  <2> QED
    BY <1>4, <2>1, <2>2, Zenon DEF Dry
<1>6. HeaderRead(oy) = oy
  <2>1. Waiting(oy) = 0
    <3>1. Len(oy.data) = 0
      BY <1>4
    <3> QED
      BY <1>4, <3>1 DEF Waiting
  <2>2. ~ (Waiting(oy) >= HeadLen)
    BY <2>1, SyncAssumption
  <2> QED
    BY <2>2, Zenon DEF HeaderRead
<1>7. Dry(e.oy)
  BY <1>2, <1>3, <1>5, <1>6, Zenon
<1> QED
  BY <1>1, <1>7, Zenon DEF TaskInv

LEMMA DryStays ==
    ASSUME Build = "x86", NEW d, NEW q, NEW ps, NEW J, TaskInv(d, q, ps, J)
    PROVE  ~ Lost(d.oy) /\ ~ Whole(d.oy)
<1>1. PICK oy : oy = d.oy
  OBVIOUS
<1>2. DOMAIN oy = SyncFields /\ oy.data = <<>> /\ oy.returned = 0 /\ oy.headerbytes = 0
  BY <1>1 DEF TaskInv, Dry
<1>3. Waiting(oy) = 0
  <2>1. Len(oy.data) = 0
    BY <1>2
  <2> QED
    BY <1>2, <2>1 DEF Waiting
<1>4. ~ (Waiting(oy) >= HeadLen)
  BY <1>3, SyncAssumption
<1>5. HeaderRead(oy) = oy
  BY <1>4, Zenon DEF HeaderRead
<1>6. ~ Lost(oy)
  BY <1>4, Zenon DEF Lost
<1>7. ~ Whole(oy)
  BY <1>2, <1>5, Zenon DEF Whole
<1> QED
  BY <1>1, <1>6, <1>7, Zenon

\* The stretches ahead are the same when the bytes are.
LEMMA StretchesKept ==
    ASSUME NEW oy, NEW q, NEW o, NEW y, Far(oy, q) \in Nat, NEW k \in Nat,
           Stretches(Ahead(oy, q), Far(oy, q), From(oy), k),
           Far(o, y) = Far(oy, q), o.unsynced = oy.unsynced,
           SameBytes(Ahead(o, y), Ahead(oy, q), Far(oy, q))
    PROVE  Stretches(Ahead(o, y), Far(o, y), From(o), k)
<1>1. Stretches(Ahead(o, y), Far(oy, q), From(oy), k)
  BY FromIs, StretchesSame
<1>2. From(o) = From(oy)
  BY DEF From
<1> QED
  BY <1>1, <1>2, Zenon

\* A chunk is read.
LEMMA ReadStep ==
    ASSUME Build # "x86", NEW d, NEW q, NEW ps, NEW J \in Nat, TaskInv(d, q, ps, J),
           d.pc = "read", Chunk <= Len(q),
           NEW e, DOMAIN e = DecFields, e.oy = ReadIn(d.oy, q, Chunk), e.pc = "seek"
    PROVE  TaskInv(e, RingAfter(q, Chunk), ps, J)
<1> DEFINE y == RingAfter(q, Chunk)
<1>1. PICK oy, o : oy = d.oy /\ o = e.oy /\ o = ReadIn(oy, q, Chunk)
  BY Zenon
<1>2. Sync(oy, q, ps) /\ Fresh(d, ps) /\ Pages(ps)
  BY <1>1, Zenon DEF TaskInv, Supplied
<1>3. PICK c \in Nat : Spent(d, q, ps, J, c)
  BY Zenon DEF TaskInv, Supplied
<1>4. Chunk \in Nat
  BY SyncAssumption
<1>5. /\ Sync(o, y, ps) /\ o.unsynced = oy.unsynced
      /\ Waiting(o) = Waiting(oy) + Chunk /\ Len(o.data) = Waiting(oy) + Chunk
      /\ Far(o, y) = Far(oy, q) /\ SameBytes(Ahead(o, y), Ahead(oy, q), Far(oy, q))
  <2>1. /\ Sync(ReadIn(oy, q, Chunk), y, ps) /\ ReadIn(oy, q, Chunk).unsynced = oy.unsynced
        /\ Waiting(ReadIn(oy, q, Chunk)) = Waiting(oy) + Chunk
        /\ Len(ReadIn(oy, q, Chunk).data) = Waiting(oy) + Chunk
        /\ Far(ReadIn(oy, q, Chunk), y) = Far(oy, q)
        /\ SameBytes(Ahead(ReadIn(oy, q, Chunk), y), Ahead(oy, q), Far(oy, q))
    BY <1>2, <1>4, ChunkIsRead, Zenon
  <2> QED
    BY <1>1, <2>1, Zenon
<1> HIDE DEF y
<1>6. Waiting(oy) \in Nat /\ Far(oy, q) \in Nat
  BY <1>2, BufferedIs, Zenon DEF Sync
<1>7. /\ c <= J /\ Stretches(Ahead(oy, q), Far(oy, q), From(oy), J - c)
      /\ oy.unsynced => c >= 1
      /\ Waiting(oy) <= Room(c, ps)
  BY <1>1, <1>3, Zenon DEF Spent, Reading
<1>8. Stretches(Ahead(o, y), Far(o, y), From(o), J - c)
  <2>1. J - c \in Nat
    BY <1>7
  <2> QED
    BY <1>5, <1>6, <1>7, <2>1, StretchesKept, Zenon
<1>9. Len(o.data) <= Room(c + 1, ps)
  <2>1. PICK r \in Nat : r = Room(c, ps) /\ Room(c + 1, ps) = r + Chunk
    BY <1>2, RoomIs
  <2> QED
    BY <1>4, <1>5, <1>6, <1>7, <2>1
<1>10. ~ Reading(e)
  BY DEF Reading
<1>11. Spent(e, y, ps, J, c)
  BY <1>1, <1>5, <1>7, <1>8, <1>9, <1>10, Zenon DEF Spent
<1>12. Waiting(o) >= HeadLen
  BY <1>5, <1>6, SyncAssumption
<1>13. Fresh(e, ps)
  BY <1>1, <1>12, Zenon DEF Fresh
<1>14. Supplied(e, y, ps, J)
  BY <1>1, <1>5, <1>11, <1>13, Zenon DEF Supplied
<1> QED
  BY <1>2, <1>14, Zenon DEF TaskInv, y

\* There is no chunk yet.
LEMMA ShortStep ==
    ASSUME Build # "x86", NEW d, NEW q, NEW ps, NEW J \in Nat, TaskInv(d, q, ps, J),
           d.pc = "read",
           NEW e, DOMAIN e = DecFields, e.oy = Shifted(d.oy), e.pc = "out"
    PROVE  TaskInv(e, q, ps, J)
<1>1. PICK oy, o : oy = d.oy /\ o = e.oy /\ o = Shifted(oy)
  BY Zenon
<1>2. Sync(oy, q, ps) /\ Fresh(d, ps) /\ Pages(ps)
  BY <1>1, Zenon DEF TaskInv, Supplied
<1>3. PICK c \in Nat : Spent(d, q, ps, J, c)
  BY Zenon DEF TaskInv, Supplied
<1>5. /\ Sync(o, q, ps) /\ o.unsynced = oy.unsynced
      /\ Waiting(o) = Waiting(oy) /\ Len(o.data) = Waiting(oy)
      /\ Far(o, q) = Far(oy, q) /\ SameBytes(Ahead(o, q), Ahead(oy, q), Far(oy, q))
  BY <1>1, <1>2, RoomIsMade, Zenon
<1>6. Waiting(oy) \in Nat /\ Far(oy, q) \in Nat
  BY <1>2, BufferedIs, Zenon DEF Sync
<1>7. /\ c <= J /\ Stretches(Ahead(oy, q), Far(oy, q), From(oy), J - c)
      /\ oy.unsynced => c >= 1
      /\ Waiting(oy) <= Room(c, ps)
  BY <1>1, <1>3, Zenon DEF Spent, Reading
<1>8. Stretches(Ahead(o, q), Far(o, q), From(o), J - c)
  <2>1. J - c \in Nat
    BY <1>7
  <2> QED
    BY <1>5, <1>6, <1>7, <2>1, StretchesKept, Zenon
<1>9. Len(o.data) <= Room(c + 1, ps) /\ Waiting(o) <= Room(c, ps)
  <2>1. PICK r \in Nat : r = Room(c, ps) /\ Room(c + 1, ps) = r + Chunk
    BY <1>2, RoomIs
  <2> QED
    BY <1>5, <1>6, <1>7, <2>1, SyncAssumption
<1>11. Spent(e, q, ps, J, c)
  BY <1>1, <1>5, <1>7, <1>8, <1>9, Zenon DEF Spent
<1>13. Fresh(e, ps)
  <2>1. "read" # "seek"
    OBVIOUS
  <2> QED
    BY <1>1, <1>2, <1>5, <2>1, Zenon DEF Fresh
<1>14. Supplied(e, q, ps, J)
  BY <1>1, <1>5, <1>11, <1>13, Zenon DEF Supplied
<1> QED
  BY <1>2, <1>14, Zenon DEF TaskInv

\* More bytes are needed.
LEMMA MoreStep ==
    ASSUME Build # "x86", NEW d, NEW q, NEW ps, NEW J \in Nat, TaskInv(d, q, ps, J),
           d.pc = "seek", NeedsMore(d.oy),
           NEW e, DOMAIN e = DecFields, e.oy = HeaderRead(d.oy), e.pc = "read"
    PROVE  TaskInv(e, q, ps, J)
<1>1. PICK oy, o : oy = d.oy /\ o = e.oy /\ o = HeaderRead(oy)
  BY Zenon
<1>2. Sync(oy, q, ps) /\ Fresh(d, ps) /\ Pages(ps) /\ NeedsMore(oy)
  BY <1>1, Zenon DEF TaskInv, Supplied
<1>3. PICK c \in Nat : Spent(d, q, ps, J, c)
  BY Zenon DEF TaskInv, Supplied
<1>4. /\ Sync(o, q, ps) /\ Ahead(o, q) = Ahead(oy, q)
      /\ Waiting(o) = Waiting(oy) /\ Far(o, q) = Far(oy, q)
      /\ \/ Waiting(oy) < HeadLen
         \/ \E p \in 1 .. Len(ps) : ps[p].len \in Nat /\ Waiting(oy) < ps[p].len
  BY <1>1, <1>2, MoreIsNeeded
<1>5. o.data = oy.data /\ o.unsynced = oy.unsynced
  BY <1>1, <1>2, HeaderReadIs
<1>6. PICK w \in Nat : w = Waiting(oy)
  BY <1>2, BufferedIs, Zenon DEF Sync
<1>7. /\ c <= J /\ Stretches(Ahead(oy, q), Far(oy, q), From(oy), J - c)
      /\ oy.unsynced => c >= 1
      /\ Len(oy.data) <= Room(c + 1, ps)
  BY <1>1, <1>3, Zenon DEF Spent
<1>8. PICK r \in Nat : r = Room(c, ps) /\ Top(ps) <= r
  BY <1>2, RoomIs
<1>9. Top(ps) \in Nat /\ \A n \in 1 .. Len(ps) : ps[n].len - 1 <= Top(ps)
  BY <1>2, TopIs
<1>10. ASSUME \E p \in 1 .. Len(ps) : ps[p].len \in Nat /\ w < ps[p].len
       PROVE  w <= r /\ (Len(ps) # 0 \/ oy.unsynced \/ w = 0)
  <2>1. w <= r
    BY <1>8, <1>9, <1>10
  <2>2. Len(ps) # 0
    BY <1>10
  <2> QED
    BY <2>1, <2>2
<1>11. ASSUME w < HeadLen PROVE w <= r /\ (Len(ps) # 0 \/ oy.unsynced \/ w = 0)
  <2>1. CASE Len(ps) # 0
    <3>1. Len(ps) \in Nat
      BY <1>2, IsSeqLen DEF Pages
    <3>2. 1 \in 1 .. Len(ps)
      BY <2>1, <3>1
    <3>3. ps[1].len \in Nat /\ ps[1].len >= HeadLen
      BY <1>2, <3>2 DEF Pages
    <3>4. w < ps[1].len
      BY <1>11, <3>3, SyncAssumption
    <3>5. w <= r
      BY <1>8, <1>9, <3>2, <3>3, <3>4
    <3> QED
      BY <2>1, <3>5
  <2>2. CASE Len(ps) = 0 /\ oy.unsynced
    <3>1. HeadLen <= r
      BY <1>2, <1>7, <1>8, <2>2, RoomHeads
    <3> QED
      BY <1>11, <2>2, <3>1, SyncAssumption
  <2>3. CASE Len(ps) = 0 /\ ~ oy.unsynced
    <3>1. w = 0
      <4>1. ~ (w >= HeadLen)
        BY <1>11, SyncAssumption
      <4> QED
        BY <1>1, <1>2, <1>6, <2>3, <4>1, Zenon DEF Fresh
    <3> QED
      BY <1>8, <3>1
  <2> QED
    BY <2>1, <2>2, <2>3
<1>12. w <= r /\ (Len(ps) # 0 \/ oy.unsynced \/ w = 0)
  <2>1. CASE \E p \in 1 .. Len(ps) : ps[p].len \in Nat /\ w < ps[p].len
    BY <1>10, <2>1
  <2>2. CASE w < HeadLen
    BY <1>11, <2>2
  <2> QED
    BY <1>4, <1>6, <2>1, <2>2
<1>13. Fresh(e, ps)
  BY <1>1, <1>4, <1>5, <1>6, <1>12, Zenon DEF Fresh
<1>14. Stretches(Ahead(o, q), Far(o, q), From(o), J - c)
  <2>1. From(o) = From(oy)
    BY <1>5 DEF From
  <2> QED
    BY <1>4, <1>7, <2>1, Zenon
<1>15. Waiting(o) <= Room(c, ps)
  BY <1>4, <1>6, <1>8, <1>12
<1>16. Spent(e, q, ps, J, c)
  BY <1>1, <1>5, <1>7, <1>14, <1>15, Zenon DEF Spent
<1>17. Supplied(e, q, ps, J)
  BY <1>1, <1>4, <1>13, <1>16, Zenon DEF Supplied
<1> QED
  BY <1>2, <1>17, Zenon DEF TaskInv

\* Junk is skipped.
LEMMA LostStep ==
    ASSUME Build # "x86", NEW d, NEW q, NEW ps, NEW J \in Nat, TaskInv(d, q, ps, J),
           d.pc = "seek", Lost(d.oy),
           NEW e, DOMAIN e = DecFields, e.oy = Skipped(d.oy),
           d.oy.unsynced = TRUE => e.pc = "seek"
    PROVE  TaskInv(e, q, ps, J)
<1>1. PICK oy, o : oy = d.oy /\ o = e.oy /\ o = Skipped(oy)
  BY Zenon
<1>2. Sync(oy, q, ps) /\ Pages(ps) /\ Lost(oy)
  BY <1>1, Zenon DEF TaskInv, Supplied
<1>3. PICK c \in Nat : Spent(d, q, ps, J, c)
  BY Zenon DEF TaskInv, Supplied
<1>4. PICK k \in Nat :
          /\ 1 <= k /\ Waiting(oy) = Waiting(o) + k /\ Far(oy, q) = k + Far(o, q)
          /\ Sync(o, q, ps) /\ o.data = oy.data /\ o.unsynced = TRUE
          /\ Rest(Ahead(o, q), Far(o, q), Ahead(oy, q), k)
          /\ Junky(Ahead(oy, q)[1]) /\ 1 <= Far(oy, q)
  <2>1. \E k \in Nat :
              /\ 1 <= k /\ Waiting(oy) = Waiting(Skipped(oy)) + k
              /\ Far(oy, q) = k + Far(Skipped(oy), q)
              /\ Sync(Skipped(oy), q, ps)
              /\ Skipped(oy).data = oy.data /\ Skipped(oy).unsynced = TRUE
              /\ Rest(Ahead(Skipped(oy), q), Far(Skipped(oy), q), Ahead(oy, q), k)
              /\ Junky(Ahead(oy, q)[1]) /\ 1 <= Far(oy, q)
    BY <1>2, LostIsSkipped, Zenon
  <2> QED
    BY <1>1, <2>1, Zenon
<1>5. Far(oy, q) \in Nat /\ Far(o, q) \in Nat
  BY <1>2, <1>4, BufferedIs, Zenon DEF Sync
<1>6. /\ c <= J /\ Stretches(Ahead(oy, q), Far(oy, q), From(oy), J - c)
      /\ oy.unsynced => c >= 1
      /\ Len(oy.data) <= Room(c + 1, ps)
  BY <1>1, <1>3, Zenon DEF Spent
<1>7. From(o) = 2 /\ oy.unsynced \in BOOLEAN
  BY <1>2, <1>4, FromIs DEF Sync, Buffered
<1>8. Fresh(e, ps)
  BY <1>1, <1>4, Zenon DEF Fresh
<1>9. Sync(e.oy, q, ps)
  BY <1>1, <1>4, Zenon
<1>10. CASE oy.unsynced = TRUE
  <2>1. Stretches(Ahead(o, q), Far(o, q), From(o), J - c)
    <3>1. J - c \in Nat /\ ~ (2 <= 1) /\ 2 \in Nat /\ 2 <= 2
      BY <1>6
    <3>2. From(oy) = 2
      BY <1>10, FromIs
    <3>3. Stretches(Ahead(oy, q), Far(oy, q), 2, J - c)
      BY <1>6, <3>2, Zenon
    <3>4. Stretches(Ahead(o, q), Far(o, q), 2, J - c)
      BY <1>4, <1>5, <3>1, <3>3, StretchesPast
    <3> QED
      BY <1>7, <3>4, Zenon
  <2>2. ~ Reading(e)
    BY <1>1, <1>10 DEF Reading
  <2>3. Spent(e, q, ps, J, c)
    BY <1>1, <1>4, <1>6, <1>10, <2>1, <2>2, Zenon DEF Spent
  <2> QED
    BY <1>2, <1>8, <1>9, <2>3, Zenon DEF TaskInv, Supplied
<1>11. CASE oy.unsynced = FALSE
  <2>1. From(oy) = 1
    BY <1>11, FromIs
  <2>2. J - c \in Nat
    BY <1>6
  <2>3. 1 <= J - c /\ Stretches(Ahead(oy, q), Far(oy, q), 2, (J - c) - 1)
    BY <1>4, <1>5, <1>6, <2>1, <2>2, StretchesFirst
  <2>4. PICK g \in Nat : g = c + 1 /\ g <= J /\ g >= 1 /\ J - g = (J - c) - 1 /\ J - g \in Nat
    BY <1>6, <2>3
  <2>5. Stretches(Ahead(oy, q), Far(oy, q), 2, J - g)
    BY <2>3, <2>4, Zenon
  <2>6. Stretches(Ahead(o, q), Far(o, q), From(o), J - g)
    <3>1. From(o) \in Nat /\ ~ (From(o) <= 1) /\ 2 \in Nat /\ 2 <= 2
      BY <1>7
    <3> QED
      BY <1>4, <1>5, <2>4, <2>5, <3>1, StretchesPast
  <2>7. PICK r \in Nat : r = Room(g, ps) /\ Room(g + 1, ps) = r + Chunk
    BY <1>2, RoomIs
  <2>8. Buffered(oy, q) /\ Buffered(o, q)
    BY <1>2, <1>4, Zenon DEF Sync
  <2>9. /\ Len(oy.data) \in Nat /\ Waiting(o) \in Nat /\ o.returned \in Nat
        /\ o.returned + Waiting(o) = Len(o.data)
    BY <2>8, BufferedIs DEF Buffered
  <2>10. Len(oy.data) <= r
    BY <1>6, <2>4, <2>7
  <2>11. Len(o.data) <= Room(g + 1, ps) /\ Waiting(o) <= Room(g, ps)
    <3>1. Len(o.data) = Len(oy.data)
      BY <1>4
    <3> QED
      BY <2>7, <2>9, <2>10, <3>1, SyncAssumption, SMTT(30)
  <2>12. Spent(e, q, ps, J, g)
    BY <1>1, <2>4, <2>6, <2>11, Zenon DEF Spent
  <2> QED
    BY <1>2, <1>8, <1>9, <2>12, Zenon DEF TaskInv, Supplied
<1> QED
  BY <1>7, <1>10, <1>11

\* A page is taken.
LEMMA PageStep ==
    ASSUME Build # "x86", NEW d, NEW q, NEW ps, NEW J \in Nat, TaskInv(d, q, ps, J),
           Whole(d.oy),
           NEW e, DOMAIN e = DecFields, e.oy = AfterPage(d.oy), e.pc = "packet"
    PROVE  TaskInv(e, q, ps, J)
<1>1. PICK oy, o : oy = d.oy /\ o = e.oy /\ o = AfterPage(oy)
  BY Zenon
<1>2. Sync(oy, q, ps) /\ Pages(ps) /\ Whole(oy)
  BY <1>1, Zenon DEF TaskInv, Supplied
<1>3. PICK c \in Nat : Spent(d, q, ps, J, c)
  BY Zenon DEF TaskInv, Supplied
<1>4. PICK l \in Nat :
          /\ 1 <= l /\ Waiting(oy) = Waiting(o) + l /\ Far(oy, q) = l + Far(o, q)
          /\ Sync(o, q, ps) /\ o.data = oy.data /\ o.unsynced = FALSE
          /\ Rest(Ahead(o, q), Far(o, q), Ahead(oy, q), l)
          /\ ~ Junky(Ahead(oy, q)[l])
          /\ \E p \in 1 .. Len(ps) : ps[p].len = l
  <2>1. \E l \in Nat :
          /\ 1 <= l /\ Waiting(oy) = Waiting(AfterPage(oy)) + l
          /\ Far(oy, q) = l + Far(AfterPage(oy), q)
          /\ Sync(AfterPage(oy), q, ps)
          /\ AfterPage(oy).data = oy.data /\ AfterPage(oy).unsynced = FALSE
          /\ Rest(Ahead(AfterPage(oy), q), Far(AfterPage(oy), q), Ahead(oy, q), l)
          /\ ~ Junky(Ahead(oy, q)[l])
          /\ \E p \in 1 .. Len(ps) : ps[p].len = l
    BY <1>2, PageIsTaken, Zenon
  <2> QED
    BY <1>1, <2>1, Zenon
<1>5. Far(oy, q) \in Nat /\ Far(o, q) \in Nat
  BY <1>2, <1>4, BufferedIs, Zenon DEF Sync
<1>6. /\ c <= J /\ Stretches(Ahead(oy, q), Far(oy, q), From(oy), J - c)
      /\ Len(oy.data) <= Room(c + 1, ps)
  BY <1>1, <1>3, Zenon DEF Spent
<1>7. Stretches(Ahead(o, q), Far(o, q), From(o), J - c)
  <2>1. J - c \in Nat
    BY <1>6
  <2>2. PICK f \in Nat : f = From(oy) /\ f <= 2
    BY FromIs
  <2>3. PICK g \in Nat : g = From(o)
    BY FromIs
  <2>4. Stretches(Ahead(oy, q), Far(oy, q), f, J - c)
    BY <1>6, <2>2, Zenon
  <2>5. Stretches(Ahead(o, q), Far(o, q), g, J - c)
    BY <1>4, <1>5, <2>1, <2>2, <2>4, StretchesPast
  <2> QED
    BY <2>3, <2>5, Zenon
<1>8. Fresh(e, ps)
  <2>1. Len(ps) # 0
    BY <1>4
  <2> QED
    BY <2>1, Zenon DEF Fresh
<1>9. ~ Reading(e)
  BY DEF Reading
<1>10. Spent(e, q, ps, J, c)
  BY <1>1, <1>4, <1>6, <1>7, <1>9, Zenon DEF Spent
<1>11. Sync(e.oy, q, ps)
  BY <1>1, <1>4, Zenon
<1> QED
  BY <1>2, <1>8, <1>10, <1>11, Zenon DEF TaskInv, Supplied

-----------------------------------------------------------------------------
(* Steps of the host                                                       *)

\* A page is made.
LEMMA PageMade ==
    ASSUME NEW d, NEW q, NEW ps, NEW J \in Nat, TaskInv(d, q, ps, J),
           NEW rec, rec.len \in Nat, rec.len >= HeadLen
    PROVE  TaskInv(d, q, Append(ps, rec), J)
<1>1. PICK rs : rs = Append(ps, rec)
  OBVIOUS
<1>2. Pages(ps)
  BY DEF TaskInv
<1>3. /\ Pages(rs)
      /\ \A p \in 1 .. Len(ps) : \E r \in 1 .. Len(rs) : rs[r].len = ps[p].len
      /\ \E r \in 1 .. Len(rs) : rs[r].len = rec.len
  <2>1. /\ Pages(Append(ps, rec))
        /\ \A p \in 1 .. Len(ps) : \E r \in 1 .. Len(Append(ps, rec)) :
              Append(ps, rec)[r].len = ps[p].len
        /\ \E r \in 1 .. Len(Append(ps, rec)) : Append(ps, rec)[r].len = rec.len
    BY <1>2, PageAdded, SMTT(30)
  <2> QED
    BY <1>1, <2>1, Zenon
<1>4. Len(rs) # 0
  BY <1>3
<1>5. Top(ps) <= Top(rs)
  BY <1>2, <1>3, TopGrows
<1>6. ASSUME Build # "x86" PROVE Supplied(d, q, rs, J)
  <2>1. Sync(d.oy, q, ps) /\ Buffered(d.oy, q)
    BY <1>6, Zenon DEF TaskInv, Supplied, Sync
  <2>2. Sync(d.oy, q, rs)
    BY <1>3, <2>1, MorePages
  <2>3. Fresh(d, rs)
    BY <1>4, Zenon DEF Fresh
  <2>4. PICK c \in Nat : Spent(d, q, ps, J, c)
    BY <1>6, Zenon DEF TaskInv, Supplied
  <2>5. Len(d.oy.data) \in Nat /\ Waiting(d.oy) \in Nat
    BY <2>1, BufferedIs
  <2>6. PICK r \in Nat, s \in Nat : r = Room(c, ps) /\ s = Room(c, rs)
    BY <1>2, <1>3, RoomIs
  <2>7. r <= s /\ Room(c + 1, ps) = r + Chunk /\ Room(c + 1, rs) = s + Chunk
    BY <1>2, <1>3, <1>5, <2>6, RoomIs, RoomGrows
  <2>8. Len(d.oy.data) <= Room(c + 1, ps)
    BY <2>4 DEF Spent
  <2>9. Len(d.oy.data) <= Room(c + 1, rs)
    BY <2>5, <2>7, <2>8, SyncAssumption
  <2>10. ASSUME Reading(d) PROVE Waiting(d.oy) <= Room(c, rs)
    <3>1. Waiting(d.oy) <= Room(c, ps)
      BY <2>4, <2>10 DEF Spent
    <3> QED
      BY <2>5, <2>6, <2>7, <3>1
  <2>11. Spent(d, q, rs, J, c)
    BY <2>4, <2>9, <2>10, Zenon DEF Spent
  <2> QED
    BY <2>2, <2>3, <2>11, Zenon DEF Supplied
<1> QED
  BY <1>1, <1>3, <1>6, Zenon DEF TaskInv

\* Its bytes arrive.
LEMMA PageArrives ==
    ASSUME NEW d, NEW q, NEW ps, NEW J \in Nat, TaskInv(d, q, ps, J),
           NEW page, Len(page.segs) \in Nat, Len(page.body) \in Nat,
           \E p \in 1 .. Len(ps) : ps[p].len = PageLen(page)
    PROVE  TaskInv(d, q \o PageBytes(page), ps, J)
<1>1. PICK x : x = PageBytes(page)
  OBVIOUS
<1>2. /\ IsSeq(x) /\ Framed(x, Len(x), ps)
      /\ \A i \in Nat : 1 <= i /\ i <= Len(x) => ~ Junky(x[i])
  BY <1>1, PageIsFramed
<1>3. ASSUME Build # "x86" PROVE Supplied(d, q \o x, ps, J)
  <2>1. PICK oy : oy = d.oy /\ Sync(oy, q, ps)
    BY <1>3, Zenon DEF TaskInv, Supplied
  <2>2. PICK y : y = q \o x
    OBVIOUS
  <2>3. /\ Sync(oy, y, ps) /\ Far(oy, y) = Far(oy, q) + Len(x)
        /\ SameBytes(Ahead(oy, y), Ahead(oy, q), Far(oy, q))
        /\ Rest(x, Len(x), Ahead(oy, y), Far(oy, q))
    BY <1>2, <2>1, <2>2, BytesArrive
  <2>4. PICK n \in Nat, e \in Nat : n = Far(oy, q) /\ e = Len(x)
    BY <1>2, <2>1, BufferedIs, IsSeqLen, Zenon DEF Sync
  <2>5. PICK c \in Nat : Spent(d, q, ps, J, c)
    BY <1>3, Zenon DEF TaskInv, Supplied
  <2>6. c <= J /\ Stretches(Ahead(oy, q), n, From(oy), J - c)
    BY <2>1, <2>4, <2>5, Zenon DEF Spent
  <2>7. Stretches(Ahead(oy, y), n + e, From(oy), J - c)
    <3>1. J - c \in Nat
      BY <2>6
    <3>5. PICK f \in Nat : f = From(oy)
      BY FromIs, Zenon
    <3>6. Stretches(Ahead(oy, q), n, f, J - c)
      BY <2>6, <3>5, Zenon
    <3>2. \A i \in Nat : 1 <= i /\ i <= n => Ahead(oy, y)[i] = Ahead(oy, q)[i]
      BY <2>3, <2>4 DEF SameBytes
    <3>3. \A i \in Nat : 1 <= i /\ i <= e => ~ Junky(Ahead(oy, y)[n + i])
      <4> SUFFICES ASSUME NEW i \in Nat, 1 <= i, i <= e PROVE ~ Junky(Ahead(oy, y)[n + i])
        OBVIOUS
      <4>1. x[i] = Ahead(oy, y)[n + i]
        BY <2>3, <2>4, Zenon DEF Rest
      <4>2. ~ Junky(x[i])
        BY <1>2, <2>4
      <4> QED
        BY <4>1, <4>2, Zenon
    <3>4. Stretches(Ahead(oy, y), n + e, f, J - c)
      BY <3>1, <3>6, <3>2, <3>3, StretchesPage
    <3> QED
      BY <3>5, <3>4, Zenon
  <2>8. Stretches(Ahead(oy, y), Far(oy, y), From(oy), J - c)
    BY <2>3, <2>4, <2>7, Zenon
  <2>9. Spent(d, y, ps, J, c)
    BY <2>1, <2>5, <2>8, Zenon DEF Spent
  <2>10. Fresh(d, ps)
    BY <1>3, Zenon DEF TaskInv, Supplied
  <2> QED
    BY <2>1, <2>2, <2>3, <2>9, <2>10, Zenon DEF Supplied
<1> QED
  BY <1>1, <1>3, Zenon DEF TaskInv

LEMMA JunkBehind ==
    ASSUME NEW x, NEW e, NEW z, NEW n, Rest(x, e, z, n),
           \A i \in Nat : 1 <= i /\ i <= e => Junky(x[i])
    PROVE  JunkOn(z, n, e)
BY Zenon DEF Rest, JunkOn

\* Junk arrives.
LEMMA JunkArrives ==
    ASSUME NEW d, NEW q, NEW ps, NEW J \in Nat, TaskInv(d, q, ps, J),
           NEW x, x \in Seq([k : {"junk", "O"}])
    PROVE  TaskInv(d, q \o x, ps, J + 1)
<1>2. /\ IsSeq(x) /\ Framed(x, Len(x), ps)
      /\ \A i \in Nat : 1 <= i /\ i <= Len(x) => Junky(x[i])
  BY JunkIsFramed
<1>3. ASSUME Build # "x86" PROVE Supplied(d, q \o x, ps, J + 1)
  <2>1. PICK oy : oy = d.oy /\ Sync(oy, q, ps)
    BY <1>3, Zenon DEF TaskInv, Supplied
  <2>2. PICK y : y = q \o x
    OBVIOUS
  <2>3. /\ Sync(oy, y, ps) /\ Far(oy, y) = Far(oy, q) + Len(x)
        /\ SameBytes(Ahead(oy, y), Ahead(oy, q), Far(oy, q))
        /\ Rest(x, Len(x), Ahead(oy, y), Far(oy, q))
    BY <1>2, <2>1, <2>2, BytesArrive
  <2>4. PICK n \in Nat, e \in Nat : n = Far(oy, q) /\ e = Len(x)
    BY <1>2, <2>1, BufferedIs, IsSeqLen, Zenon DEF Sync
  <2>5. PICK c \in Nat : Spent(d, q, ps, J, c)
    BY <1>3, Zenon DEF TaskInv, Supplied
  <2>6. c <= J /\ Stretches(Ahead(oy, q), n, From(oy), J - c)
    BY <2>1, <2>4, <2>5, Zenon DEF Spent
  <2>7. Stretches(Ahead(oy, y), n + e, From(oy), (J - c) + 1)
    <3>1. PICK j \in Nat : j = J - c
      <4>1. J - c \in Nat
        BY <2>6
      <4> QED
        BY <4>1
    <3>5. PICK f \in Nat : f = From(oy)
      BY FromIs, Zenon
    <3>6. Stretches(Ahead(oy, q), n, f, j)
      BY <2>6, <3>1, <3>5, Zenon
    <3>2. JunkOn(Ahead(oy, y), n, e) /\ SameBytes(Ahead(oy, y), Ahead(oy, q), n)
      BY <1>2, <2>3, <2>4, JunkBehind, Zenon
    <3>4. Stretches(Ahead(oy, y), n + e, f, j + 1)
      BY <3>6, <3>2, StretchesJunk, Zenon
    <3> QED
      BY <3>1, <3>5, <3>4, Zenon
  <2>8. c <= J + 1 /\ (J - c) + 1 = (J + 1) - c
    BY <2>6
  <2>9. Stretches(Ahead(oy, y), Far(oy, y), From(oy), (J + 1) - c)
    BY <2>3, <2>4, <2>7, <2>8, Zenon
  <2>10. Spent(d, y, ps, J + 1, c)
    BY <2>1, <2>5, <2>8, <2>9, Zenon DEF Spent
  <2>11. Fresh(d, ps)
    BY <1>3, Zenon DEF TaskInv, Supplied
  <2> QED
    BY <2>1, <2>2, <2>3, <2>10, <2>11, Zenon DEF Supplied
<1> QED
  BY <1>3, Zenon DEF TaskInv

-----------------------------------------------------------------------------
(* The host's stream and table                                             *)

MuxFields == {"os", "lv", "own", "next"}
StreamFields ==
    {"body", "body_returned", "lacing_fill", "lacing_packet", "lacing_returned",
     "e_o_s", "b_o_s", "pageno", "serialno", "ok"}

\* The lengths in a table
Lengths(lv) == \A i \in Ogg!Slots : lv[i].val \in Nat

MuxInv(m) ==
    /\ DOMAIN m = MuxFields /\ DOMAIN m.os = StreamFields
    /\ m.os.ok = TRUE
    /\ m.os.lacing_fill \in Nat /\ m.os.lacing_fill <= LacingStorage
    /\ Lengths(m.lv)
    /\ m.next \in Nat /\ m.next >= 1

LEMMA SlotsAre ==
    /\ LacingStorage \in Nat /\ LacingStorage >= 1
    /\ \A i : i \in Ogg!Slots <=> i \in Nat /\ i <= LacingStorage - 1
BY DecAssumption DEF Ogg!Slots

LEMMA ZeroLengths == Lengths(Ogg!ZeroTable)
BY DEF Lengths, Ogg!ZeroTable, Ogg!Segment

\* A host that begins a stream.
LEMMA NewMuxIs ==
    ASSUME NEW stream, NEW n \in Nat, n >= 1
    PROVE  /\ MuxInv([NewMux(stream) EXCEPT !.next = n]) /\ MuxInv(NewMux(stream))
           /\ [NewMux(stream) EXCEPT !.next = n].os.lacing_fill = 0
           /\ [NewMux(stream) EXCEPT !.next = n].next = n
<1>1. PICK m : m = NewMux(stream)
  OBVIOUS
<1>2. /\ DOMAIN m = MuxFields /\ DOMAIN m.os = StreamFields /\ m.os.ok = TRUE
      /\ m.os.lacing_fill = 0 /\ m.lv = Ogg!ZeroTable /\ m.next = 1
  BY <1>1 DEF NewMux, Ogg!NewStream, MuxFields, StreamFields
<1>3. PICK k : k = [m EXCEPT !.next = n]
  OBVIOUS
<1>4. DOMAIN k = MuxFields /\ k.os = m.os /\ k.lv = m.lv /\ k.next = n
  BY <1>2, <1>3 DEF MuxFields
<1>5. Lengths(m.lv) /\ Lengths(k.lv)
  BY <1>2, <1>4, ZeroLengths, Zenon
<1>6. 0 \in Nat /\ 0 <= LacingStorage /\ 1 \in Nat /\ 1 >= 1
  BY SlotsAre
<1> QED
  BY <1>1, <1>2, <1>3, <1>4, <1>5, <1>6, Zenon DEF MuxInv

\* The instance's own copies of library operators
LEMMA OggMin == ASSUME NEW T PROVE Ogg!Min(T) = Min(T)
BY DEF Ogg!Min, Min

LEMMA OggMax == ASSUME NEW T PROVE Ogg!Max(T) = Max(T)
BY DEF Ogg!Max, Max

LEMMA OggSum ==
    ASSUME NEW f, NEW S PROVE Ogg!SumFunctionOnSet(f, S) = SumFunctionOnSet(f, S)
BY DEF Ogg!SumFunctionOnSet, Ogg!FoldFunctionOnSet, Ogg!MapThenFoldSet,
       SumFunctionOnSet, FoldFunctionOnSet, MapThenFoldSet

\* The sum of the lengths of the first v entries.
LEMMA BytesAre ==
    ASSUME NEW lv, Lengths(lv), NEW v \in Nat, v <= LacingStorage
    PROVE  Ogg!Bytes(lv, 0, v) \in Nat
<1> DEFINE f == [i \in Ogg!Slots |-> lv[i].val]
<1>1. IsFiniteSet(0 .. v - 1)
  BY FS_Interval
<1>2. ASSUME NEW x \in 0 .. v - 1 PROVE f[x] \in Nat
  <2>1. x \in Ogg!Slots
    BY SlotsAre
  <2> QED
    BY <2>1 DEF Lengths
<1>3. SumFunctionOnSet(f, 0 .. v - 1) \in Nat
  <2> HIDE DEF f
  <2> QED
    BY <1>1, <1>2, SumOfNumbers
<1> QED
  <2>1. Ogg!Bytes(lv, 0, v) = Ogg!SumFunctionOnSet(f, 0 .. v - 1)
    BY Zenon DEF Ogg!Bytes
  <2> QED
    BY <1>3, <2>1, OggSum

\* A page takes some of the entries.
LEMMA PageValsAre ==
    ASSUME NEW os, NEW lv, os.lacing_fill \in Nat, os.lacing_fill >= 1
    PROVE  Ogg!PageVals(os, lv) \in Nat /\ Ogg!PageVals(os, lv) <= os.lacing_fill
<1>1. PICK m : m = Min({os.lacing_fill, MaxVals})
  OBVIOUS
<1>2. m \in Nat /\ m >= 1 /\ m <= os.lacing_fill
  <2>1. {os.lacing_fill, MaxVals} \in SUBSET Nat /\ {os.lacing_fill, MaxVals} # {}
        /\ MaxVals >= 1
    BY DecAssumption
  <2>2. m \in {os.lacing_fill, MaxVals} /\ \A y \in {os.lacing_fill, MaxVals} : m <= y
    BY <1>1, <2>1, MinIs
  <2> QED
    BY <2>1, <2>2
<1> DEFINE A == {v \in 1 .. m : v = m \/ lv[v - 1].val < MaxSeg}
           B == {v \in 0 .. m : v = m \/ Ogg!Bytes(lv, 0, v) > Nominal}
<1>3. A \in SUBSET (1 .. m) /\ m \in A /\ B \in SUBSET (0 .. m) /\ m \in B
  BY <1>2
<1>4. Ogg!PageVals(os, lv) = IF ~ os.b_o_s THEN Min(A) ELSE Min(B)
  <2>1. Ogg!PageVals(os, lv) = IF ~ os.b_o_s THEN Ogg!Min(A) ELSE Ogg!Min(B)
    BY <1>1, OggMin, Zenon DEF Ogg!PageVals
  <2> QED
    BY <2>1, OggMin, Zenon
<1> HIDE DEF A, B
<1>5. A \in SUBSET Nat /\ A # {} /\ B \in SUBSET Nat /\ B # {}
  BY <1>2, <1>3
<1>6. Min(A) \in A /\ Min(B) \in B
  BY <1>5, MinIs
<1>7. Min(A) \in Nat /\ Min(A) <= m /\ Min(B) \in Nat /\ Min(B) <= m
  <2>1. \A x \in A : x \in Nat /\ x <= m
    BY <1>2, <1>3
  <2>2. \A x \in B : x \in Nat /\ x <= m
    BY <1>2, <1>3
  <2> QED
    BY <1>6, <2>1, <2>2, Zenon
<1>8. CASE os.b_o_s
  <2>1. PICK b : b = Min(B)
    OBVIOUS
  <2>2. b \in Nat /\ b <= m /\ Ogg!PageVals(os, lv) = b
    BY <1>4, <1>7, <1>8, <2>1, Zenon
  <2> QED
    BY <1>2, <2>2
<1>9. CASE ~ os.b_o_s
  <2>1. PICK a : a = Min(A)
    OBVIOUS
  <2>2. a \in Nat /\ a <= m /\ Ogg!PageVals(os, lv) = a
    BY <1>4, <1>7, <1>9, <2>1, Zenon
  <2> QED
    BY <1>2, <2>2
<1> QED
  BY <1>8, <1>9

\* The page made has a segment table and a body.
LEMMA FlushedPageIs ==
    ASSUME NEW m, MuxInv(m), Ogg!CanFlush(m.os)
    PROVE  /\ Len(Ogg!FlushedPage(m.os, m.lv).segs) \in Nat
           /\ Len(Ogg!FlushedPage(m.os, m.lv).body) \in Nat
           /\ Ogg!PageVals(m.os, m.lv) \in Nat
           /\ Ogg!PageVals(m.os, m.lv) <= m.os.lacing_fill
<1>1. PICK os, lv : os = m.os /\ lv = m.lv
  OBVIOUS
<1>2. os.lacing_fill \in Nat /\ os.lacing_fill >= 1 /\ os.lacing_fill <= LacingStorage
      /\ Lengths(lv)
  BY <1>1 DEF MuxInv, Ogg!CanFlush
<1>3. PICK v \in Nat : v = Ogg!PageVals(os, lv) /\ v <= os.lacing_fill
  BY <1>2, PageValsAre
<1>4. PICK n \in Nat : n = Ogg!Bytes(lv, 0, v)
  <2>1. v <= LacingStorage
    BY <1>2, <1>3, SlotsAre
  <2> QED
    BY <1>2, <2>1, BytesAre
<1>5. Ogg!FlushedPage(os, lv).segs = [i \in 1 .. v |-> lv[i - 1].val]
  BY <1>3 DEF Ogg!FlushedPage
<1>6. Ogg!FlushedPage(os, lv).body = Ogg!Slice(os.body, os.body_returned, n)
  BY <1>3, <1>4 DEF Ogg!FlushedPage
<1>7. Len([i \in 1 .. v |-> lv[i - 1].val]) = v
  OBVIOUS
<1>8. Len(Ogg!Slice(os.body, os.body_returned, n)) = n
  BY DEF Ogg!Slice
<1> QED
  BY <1>1, <1>3, <1>5, <1>6, <1>7, <1>8, Zenon

\* The host's part of a page made.
LEMMA MuxFlushed ==
    ASSUME NEW m, MuxInv(m), Ogg!CanFlush(m.os), NEW o
    PROVE  MuxInv([m EXCEPT !.os = Ogg!Flushed(m.os, m.lv),
                            !.lv = Ogg!FlushedTable(m.os, m.lv),
                            !.own = o])
<1>1. PICK os, lv : os = m.os /\ lv = m.lv
  OBVIOUS
<1>2. /\ DOMAIN m = MuxFields /\ DOMAIN os = StreamFields /\ os.ok = TRUE
      /\ os.lacing_fill \in Nat /\ os.lacing_fill >= 1 /\ os.lacing_fill <= LacingStorage
      /\ Lengths(lv) /\ m.next \in Nat /\ m.next >= 1
  BY <1>1 DEF MuxInv, Ogg!CanFlush
<1>3. PICK v \in Nat : v = Ogg!PageVals(os, lv) /\ v <= os.lacing_fill
  BY <1>2, PageValsAre
<1>4. PICK s, w : s = Ogg!Flushed(os, lv) /\ w = Ogg!FlushedTable(os, lv)
  OBVIOUS
<1>5. DOMAIN s = StreamFields /\ s.ok = os.ok /\ s.lacing_fill = os.lacing_fill - v
  BY <1>2, <1>3, <1>4 DEF Ogg!Flushed, StreamFields
<1>6. Lengths(w)
  <2>1. w = [i \in Ogg!Slots |-> IF i < os.lacing_fill - v THEN lv[i + v] ELSE lv[i]]
    BY <1>3, <1>4 DEF Ogg!FlushedTable, Ogg!MovedDown
  <2>2. ASSUME NEW i \in Ogg!Slots PROVE w[i].val \in Nat
    <3>1. CASE i < os.lacing_fill - v
      <4>1. i + v \in Ogg!Slots
        BY <1>2, <3>1, SlotsAre
      <4>2. w[i] = lv[i + v]
        BY <2>1, <3>1
      <4> QED
        BY <1>2, <4>1, <4>2, Zenon DEF Lengths
    <3>2. CASE ~ (i < os.lacing_fill - v)
      <4>1. w[i] = lv[i]
        BY <2>1, <3>2
      <4> QED
        BY <1>2, <4>1, Zenon DEF Lengths
    <3> QED
      BY <3>1, <3>2
  <2> QED
    BY <2>2, Zenon DEF Lengths
<1>7. PICK k : k = [m EXCEPT !.os = s, !.lv = w, !.own = o]
  OBVIOUS
<1>8. DOMAIN k = MuxFields /\ k.os = s /\ k.lv = w /\ k.next = m.next
  BY <1>2, <1>7 DEF MuxFields
<1>9. s.lacing_fill \in Nat /\ s.lacing_fill <= LacingStorage
  BY <1>2, <1>3, <1>5, SlotsAre
<1>10. MuxInv(k)
  BY <1>2, <1>5, <1>6, <1>8, <1>9, Zenon DEF MuxInv
<1> QED
  BY <1>1, <1>4, <1>7, <1>10, Zenon

\* The size of a packet.
LEMMA PacketSize ==
    ASSUME NEW t, prog[t] \in Programs, NEW id \in 1 .. Len(prog[t])
    PROVE  /\ PacketAt(t, id).size \in Nat
           /\ PacketAt(t, id).size \div MaxSeg \in Nat
           /\ PacketAt(t, id).size % MaxSeg \in Nat
           /\ PacketAt(t, id).size \div MaxSeg + MaxVals <= LacingStorage
<1>1. PICK p : p = prog[t] /\ p \in Programs
  OBVIOUS
<1>2. /\ p \in Seq([stream : Nat \ {None}, kind : {"head", "tags", "audio"}, size : Nat])
      /\ p[id].size \div MaxSeg + MaxVals <= LacingStorage
  BY <1>1, HostAssumption
<1>3. p[id].size \in Nat
  <2>1. PICK S : S = [stream : Nat \ {None}, kind : {"head", "tags", "audio"}, size : Nat]
    OBVIOUS
  <2>2. p \in Seq(S) /\ id \in 1 .. Len(p)
    BY <1>1, <1>2, <2>1, Zenon
  <2>3. p[id] \in S
    BY <2>2, ElementIs, Zenon
  <2> QED
    BY <2>1, <2>3
<1>4. MaxSeg \in Nat /\ MaxSeg >= 1
  BY DecAssumption
<1>5. p[id].size \div MaxSeg \in Nat /\ p[id].size % MaxSeg \in Nat
  <2>1. PICK n \in Nat : n = p[id].size
    BY <1>3
  <2>2. n \div MaxSeg \in Nat /\ n % MaxSeg \in Nat
    BY <1>4
  <2> QED
    BY <2>1, <2>2
<1> QED
  BY <1>1, <1>2, <1>3, <1>5, Zenon DEF PacketAt

\* The segments of a packet
Segs(n, r) == [i \in 1 .. n |-> MaxSeg] \o <<r>>

LEMMA SegsAre ==
    ASSUME NEW n \in Nat, NEW r \in Nat
    PROVE  Len(Segs(n, r)) = n + 1 /\ \A i \in 1 .. n + 1 : Segs(n, r)[i] \in Nat
<1>1. MaxSeg \in Nat
  BY DecAssumption
<1>2. [i \in 1 .. n |-> MaxSeg] \in Seq(Nat) /\ Len([i \in 1 .. n |-> MaxSeg]) = n
  BY <1>1
<1>3. PICK s \in Seq(Nat) : s = [i \in 1 .. n |-> MaxSeg] /\ Len(s) = n
  BY <1>2
<1>4. s \o <<r>> \in Seq(Nat) /\ Len(s \o <<r>>) = n + 1
  BY <1>3
<1>5. PICK w \in Seq(Nat) : w = s \o <<r>> /\ Len(w) = n + 1
  BY <1>4
<1>6. \A i \in 1 .. n + 1 : w[i] \in Nat
  BY <1>5
<1> QED
  BY <1>3, <1>5, <1>6, Zenon DEF Segs

\* Behind the f entries of m there are the n + 1 of a packet.
Packed(k, m, n, r, f) ==
    /\ DOMAIN k = MuxFields /\ DOMAIN k.os = StreamFields
    /\ k.os.ok = TRUE /\ k.os.lacing_fill = f + (n + 1) /\ k.next = m.next + 1
    /\ \A i \in Ogg!Slots :
          \/ k.lv[i].val = m.lv[i].val
          \/ f <= i /\ i <= f + n /\ k.lv[i].val = Segs(n, r)[(i - f) + 1]

\* What ogg_stream_packetin does to the table.
LEMMA PackedInIs ==
    ASSUME NEW m, MuxInv(m), NEW t, NEW id, NEW n \in Nat, NEW r \in Nat,
           n = PacketAt(t, id).size \div MaxSeg, r = PacketAt(t, id).size % MaxSeg,
           NEW f \in Nat, f = m.os.lacing_fill
    PROVE  Packed(PackedIn(m, t, id), m, n, r, f)
<1>1. PICK k : k = PackedIn(m, t, id)
  OBVIOUS
<1>2. PICK s : s = Segs(n, r) /\ Len(s) = n + 1
  BY SegsAre, Zenon
<1>3. DOMAIN m = MuxFields /\ DOMAIN m.os = StreamFields /\ m.os.ok = TRUE
  BY DEF MuxInv
<1>4. PICK b, o, e, lv :
          /\ k = [m EXCEPT !.os.body = b, !.os.body_returned = 0,
                           !.os.lacing_fill = @ + (n + 1), !.os.e_o_s = e,
                           !.lv = lv, !.own = o, !.next = @ + 1]
          /\ lv = [i \in Ogg!Slots |->
                     IF i \in f .. f + (n + 1) - 1
                     THEN [Ogg!Segment(s[i - f + 1]) EXCEPT !.first = i = f]
                     ELSE m.lv[i]]
  BY <1>1, <1>2, Zenon DEF PackedIn, Segs
<1>5. /\ DOMAIN k = MuxFields /\ DOMAIN k.os = StreamFields
      /\ k.os.ok = TRUE /\ k.os.lacing_fill = f + (n + 1)
      /\ k.lv = lv /\ k.next = m.next + 1
  BY <1>3, <1>4 DEF MuxFields, StreamFields
<1>6. ASSUME NEW i \in Ogg!Slots
      PROVE  \/ lv[i].val = m.lv[i].val
             \/ f <= i /\ i <= f + n /\ lv[i].val = s[(i - f) + 1]
  <2>1. i \in Nat
    BY SlotsAre
  <2>2. CASE i \in f .. f + (n + 1) - 1
    <3>1. lv[i] = [Ogg!Segment(s[i - f + 1]) EXCEPT !.first = i = f]
      BY <1>4, <2>2
    <3>2. lv[i].val = s[i - f + 1]
      BY <3>1 DEF Ogg!Segment
    <3> QED
      BY <2>1, <2>2, <3>2
  <2>3. CASE ~ (i \in f .. f + (n + 1) - 1)
    <3>1. lv[i] = m.lv[i]
      BY <1>4, <2>3
    <3> QED
      BY <3>1
  <2> QED
    BY <2>2, <2>3
<1> QED
  BY <1>1, <1>2, <1>5, <1>6, Zenon DEF Packed

\* Another packet for the host's stream.
LEMMA MuxPacked ==
    ASSUME NEW m, MuxInv(m), m.os.lacing_fill <= MaxVals - 1,
           NEW t, prog[t] \in Programs, NEW id \in 1 .. Len(prog[t])
    PROVE  MuxInv(PackedIn(m, t, id))
<1>1. PICK n \in Nat, r \in Nat :
          /\ n = PacketAt(t, id).size \div MaxSeg /\ r = PacketAt(t, id).size % MaxSeg
          /\ n + MaxVals <= LacingStorage
  BY PacketSize, Zenon
<1>2. PICK f \in Nat : f = m.os.lacing_fill /\ f <= MaxVals - 1
  BY DEF MuxInv
<1>3. PICK k : k = PackedIn(m, t, id)
  OBVIOUS
<1>4. /\ DOMAIN k = MuxFields /\ DOMAIN k.os = StreamFields
      /\ k.os.ok = TRUE /\ k.os.lacing_fill = f + (n + 1) /\ k.next = m.next + 1
      /\ \A i \in Ogg!Slots :
            \/ k.lv[i].val = m.lv[i].val
            \/ f <= i /\ i <= f + n /\ k.lv[i].val = Segs(n, r)[(i - f) + 1]
  <2>1. Packed(PackedIn(m, t, id), m, n, r, f)
    BY <1>1, <1>2, PackedInIs, Zenon
  <2> QED
    BY <1>3, <2>1, Zenon DEF Packed
<1>5. f + (n + 1) \in Nat /\ f + (n + 1) <= LacingStorage
  <2>1. MaxVals \in Nat /\ LacingStorage \in Nat
    BY DecAssumption
  <2> QED
    BY <1>1, <1>2, <2>1, SMTT(30)
<1>6. Lengths(k.lv)
  <2>1. ASSUME NEW i \in Ogg!Slots PROVE k.lv[i].val \in Nat
    <3>1. m.lv[i].val \in Nat
      BY DEF MuxInv, Lengths
    <3>2. i \in Nat
      BY SlotsAre
    <3>3. CASE f <= i /\ i <= f + n /\ k.lv[i].val = Segs(n, r)[(i - f) + 1]
      <4>1. (i - f) + 1 \in 1 .. n + 1
        BY <3>2, <3>3
      <4> QED
        BY <3>3, <4>1, SegsAre
    <3> QED
      BY <1>4, <3>1, <3>3, Zenon
  <2> QED
    BY <2>1, Zenon DEF Lengths
<1>7. m.next + 1 \in Nat /\ m.next + 1 >= 1
  BY DEF MuxInv
<1> QED
  BY <1>3, <1>4, <1>5, <1>6, <1>7, Zenon DEF MuxInv

-----------------------------------------------------------------------------
(* The invariant of the specification                                      *)

TaskOK(t) == TaskInv(dec[t], wire[t], pages[t], junk + failures) /\ MuxInv(mux[t])

SupplyInv ==
    /\ prog \in [Tasks -> Programs]
    /\ DOMAIN mux = Tasks /\ DOMAIN pages = Tasks /\ DOMAIN wire = Tasks /\ DOMAIN dec = Tasks
    /\ junk \in Nat /\ failures \in Nat
    /\ \A t \in Tasks : TaskOK(t)

\* g is f but for v at t.
Only(f, g, t, v) ==
    DOMAIN g = DOMAIN f /\ g[t] = v /\ \A u \in DOMAIN f : u # t => g[u] = f[u]

LEMMA OnlyExcept ==
    ASSUME NEW f, NEW t \in DOMAIN f, NEW v PROVE Only(f, [f EXCEPT ![t] = v], t, v)
BY DEF Only

LEMMA OnlySame ==
    ASSUME NEW f, NEW t PROVE Only(f, f, t, f[t])
BY Zenon DEF Only

LEMMA SupplyTask ==
    ASSUME SupplyInv, NEW t \in Tasks
    PROVE  /\ TaskInv(dec[t], wire[t], pages[t], junk + failures) /\ MuxInv(mux[t])
           /\ DOMAIN dec[t] = DecFields /\ prog[t] \in Programs
           /\ junk \in Nat /\ failures \in Nat /\ junk + failures \in Nat
<1>1. TaskOK(t) /\ prog \in [Tasks -> Programs] /\ junk \in Nat /\ failures \in Nat
  BY Zenon DEF SupplyInv
<1>2. DOMAIN dec[t] = DecFields
  BY <1>1, Zenon DEF TaskOK, TaskInv
<1>3. prog[t] \in Programs /\ junk + failures \in Nat
  BY <1>1
<1> QED
  BY <1>1, <1>2, <1>3, Zenon DEF TaskOK

LEMMA FaultsGrow ==
    ASSUME NEW j \in Nat, NEW f \in Nat, NEW k \in Nat, NEW g \in Nat, j <= k, f <= g
    PROVE  j + f \in Nat /\ k + g \in Nat /\ j + f <= k + g /\ j + f <= j + g /\ j + g \in Nat
OBVIOUS

\* A step of one task.
LEMMA TaskSteps ==
    ASSUME SupplyInv, NEW t \in Tasks, NEW e, NEW y, NEW ps, NEW m,
           Only(dec, dec', t, e), Only(wire, wire', t, y),
           Only(pages, pages', t, ps), Only(mux, mux', t, m), prog' = prog,
           junk' \in Nat, failures' \in Nat, junk <= junk', failures <= failures',
           TaskInv(e, y, ps, junk' + failures'), MuxInv(m)
    PROVE  SupplyInv'
<1>1. /\ DOMAIN mux = Tasks /\ DOMAIN pages = Tasks /\ DOMAIN wire = Tasks
      /\ DOMAIN dec = Tasks /\ prog \in [Tasks -> Programs]
  BY Zenon DEF SupplyInv
<1>2. ASSUME NEW u \in Tasks PROVE TaskOK(u)'
  <2>1. CASE u = t
    <3>1. dec'[u] = e /\ wire'[u] = y /\ pages'[u] = ps /\ mux'[u] = m
      BY <2>1, Zenon DEF Only
    <3> QED
      BY <3>1, Zenon DEF TaskOK
  <2>2. CASE u # t
    <3>1. dec'[u] = dec[u] /\ wire'[u] = wire[u] /\ pages'[u] = pages[u] /\ mux'[u] = mux[u]
      BY <1>1, <2>2, Zenon DEF Only
    <3>2. TaskInv(dec[u], wire[u], pages[u], junk + failures) /\ MuxInv(mux[u])
      BY SupplyTask, Zenon
    <3>3. junk + failures \in Nat /\ junk' + failures' \in Nat
          /\ junk + failures <= junk' + failures'
      <4>1. junk \in Nat /\ failures \in Nat
        BY Zenon DEF SupplyInv
      <4> QED
        BY <4>1, FaultsGrow, Zenon
    <3>4. TaskInv(dec[u], wire[u], pages[u], junk' + failures')
      BY <3>2, <3>3, TaskMore, Zenon
    <3> QED
      BY <3>1, <3>2, <3>4, Zenon DEF TaskOK
  <2> QED
    BY <2>1, <2>2
<1>3. DOMAIN mux' = Tasks /\ DOMAIN pages' = Tasks /\ DOMAIN wire' = Tasks /\ DOMAIN dec' = Tasks
  BY <1>1, Zenon DEF Only
<1> QED
  BY <1>1, <1>2, <1>3, Zenon DEF SupplyInv

\* A step of the decoder.
LEMMA DecoderSteps ==
    ASSUME SupplyInv, NEW t \in Tasks, NEW e, NEW y,
           Put(t, e), Only(wire, wire', t, y), UNCHANGED hostVars,
           failures' \in Nat, failures <= failures',
           TaskInv(e, y, pages[t], junk + failures')
    PROVE  SupplyInv'
<1>1. t \in DOMAIN dec /\ dec' = [dec EXCEPT ![t] = e]
  BY DEF Put, SupplyInv
<1>2. Only(dec, dec', t, e)
  BY <1>1, OnlyExcept
<1>3. pages' = pages /\ mux' = mux /\ prog' = prog /\ junk' = junk
  BY DEF hostVars
<1>4. Only(pages, pages', t, pages[t]) /\ Only(mux, mux', t, mux[t])
  BY <1>3, OnlySame, Zenon
<1>5. junk' \in Nat /\ junk <= junk' /\ MuxInv(mux[t])
  <2>1. MuxInv(mux[t]) /\ junk \in Nat
    BY SupplyTask, Zenon
  <2> QED
    BY <1>3, <2>1
<1>6. TaskInv(e, y, pages[t], junk' + failures')
  BY <1>3, Zenon
<1> QED
  BY <1>2, <1>3, <1>4, <1>5, <1>6, TaskSteps, Zenon

\* The ring is not touched.
LEMMA QuietSteps ==
    ASSUME SupplyInv, NEW t \in Tasks, NEW e,
           Put(t, e), wire' = wire, UNCHANGED hostVars, failures' = failures,
           TaskInv(e, wire[t], pages[t], junk + failures)
    PROVE  SupplyInv'
<1>1. Only(wire, wire', t, wire[t])
  BY OnlySame, Zenon
<1>2. failures' \in Nat /\ failures <= failures'
  BY DEF SupplyInv
<1>3. TaskInv(e, wire[t], pages[t], junk + failures')
  BY Zenon
<1> QED
  BY <1>1, <1>2, <1>3, DecoderSteps, Zenon

-----------------------------------------------------------------------------
(* Steps of the decoder                                                    *)

LEMMA DecodeKeeps ==
    ASSUME SupplyInv, NEW t \in Tasks, Decode(t) PROVE SupplyInv'
<1>1. PICK d : d = dec[t]
  OBVIOUS
<1>2. /\ TaskInv(d, wire[t], pages[t], junk + failures) /\ junk + failures \in Nat
      /\ DOMAIN d = DecFields
  BY <1>1, SupplyTask, Zenon
<1>3. /\ wire' = wire /\ UNCHANGED hostVars /\ failures' = failures /\ d.pc = "out"
  BY <1>1 DEF Decode, Idle
<1>4. ASSUME NEW e, DOMAIN e = DecFields, e.oy = d.oy, NoNewRead(d, e), Put(t, e)
      PROVE  SupplyInv'
  <2>1. TaskInv(e, wire[t], pages[t], junk + failures)
    <3>1. d.pc # "seek"
      BY <1>3
    <3> QED
      BY <1>2, <1>4, <3>1, BufferKept, Zenon
  <2> QED
    BY <1>3, <1>4, <2>1, QuietSteps, Zenon
<1>5. CASE d.state = "SYNC_PACKET"
  <2>1. PICK e : e = [d EXCEPT !.pc = "packet", !.packet_count = @ + 1] /\ Put(t, e)
    BY <1>1, <1>5 DEF Decode
  <2>2. DOMAIN e = DecFields /\ e.oy = d.oy /\ e.pc = "packet"
    BY <1>2, <2>1 DEF DecFields
  <2>3. NoNewRead(d, e)
    BY <2>2 DEF NoNewRead, Reading
  <2> QED
    BY <1>4, <2>1, <2>2, <2>3
<1>6. CASE d.state # "SYNC_PACKET"
  <2>1. PICK e : e = [d EXCEPT !.pc = "read"] /\ Put(t, e)
    BY <1>1, <1>6 DEF Decode
  <2>2. DOMAIN e = DecFields /\ e.oy = d.oy
    BY <1>2, <2>1 DEF DecFields
  <2>3. NoNewRead(d, e)
    BY <1>3, <1>6 DEF NoNewRead, Reading
  <2> QED
    BY <1>4, <2>1, <2>2, <2>3
<1> QED
  BY <1>5, <1>6

LEMMA ReadKeeps ==
    ASSUME SupplyInv, NEW t \in Tasks, Read(t) PROVE SupplyInv'
<1>1. PICK d, n, s : d = dec[t] /\ n = Min({Chunk, Len(wire[t])}) /\ s = Shifted(d.oy)
  OBVIOUS
<1>2. /\ TaskInv(d, wire[t], pages[t], junk + failures) /\ junk + failures \in Nat
      /\ DOMAIN d = DecFields /\ failures \in Nat
  BY <1>1, SupplyTask, Zenon
<1>3. /\ UNCHANGED hostVars /\ failures' = failures /\ d.pc = "read"
  BY <1>1 DEF Read, At
<1>4. t \in DOMAIN wire
  BY DEF SupplyInv
<1>5. CASE Build = "x86"
  <2>1. PICK e, y : /\ e = [d EXCEPT !.oy = s, !.pc = "seek"] /\ Put(t, e)
                    /\ wire' = [wire EXCEPT ![t] = y]
    BY <1>1, <1>5 DEF Read
  <2>2. DOMAIN e = DecFields /\ e.oy = Shifted(d.oy)
    BY <1>1, <1>2, <2>1 DEF DecFields
  <2>3. TaskInv(e, y, pages[t], junk + failures)
    BY <1>2, <1>5, <2>2, DryStep, Zenon
  <2>4. Only(wire, wire', t, y)
    BY <1>4, <2>1, OnlyExcept
  <2>5. failures' \in Nat /\ failures <= failures' /\ TaskInv(e, y, pages[t], junk + failures')
    BY <1>2, <1>3, <2>3
  <2> QED
    BY <1>3, <2>1, <2>4, <2>5, DecoderSteps, Zenon
<1>6. CASE Build # "x86" /\ n < Chunk
  <2>1. PICK e : /\ e = [d EXCEPT !.oy = s, !.state = "READ_DATA", !.pc = "out"] /\ Put(t, e)
                 /\ wire' = wire
    BY <1>1, <1>6 DEF Read
  <2>2. DOMAIN e = DecFields /\ e.oy = Shifted(d.oy) /\ e.pc = "out"
    BY <1>1, <1>2, <2>1 DEF DecFields
  <2>3. TaskInv(e, wire[t], pages[t], junk + failures)
    BY <1>2, <1>3, <1>6, <2>2, ShortStep, Zenon
  <2> QED
    BY <1>3, <2>1, <2>3, QuietSteps, Zenon
<1>7. CASE Build # "x86" /\ ~ (n < Chunk)
  <2>1. PICK e : /\ e = [d EXCEPT !.oy = Filled(s, SubSeq(wire[t], 1, n)), !.pc = "seek"]
                 /\ Put(t, e)
                 /\ wire' = [wire EXCEPT ![t] = SubSeq(@, n + 1, Len(@))]
    BY <1>1, <1>7 DEF Read
  <2>2. n = Chunk /\ Chunk <= Len(wire[t])
    <3>1. PICK c \in Nat, l \in Nat : c = Chunk /\ l = Len(wire[t])
      <4>1. Sync(d.oy, wire[t], pages[t])
        BY <1>2, <1>7, Zenon DEF TaskInv, Supplied
      <4>2. IsSeq(wire[t])
        BY <4>1 DEF Sync, Buffered
      <4> QED
        BY <4>2, IsSeqLen, SyncAssumption
    <3>2. {c, l} \in SUBSET Nat /\ {c, l} # {}
      OBVIOUS
    <3>3. n = Min({c, l}) /\ ~ (n < c)
      BY <1>1, <1>7, <3>1, Zenon
    <3>4. n \in {c, l} /\ \A y \in {c, l} : n <= y
      BY <3>2, <3>3, MinIs
    <3>5. n = c /\ c <= l
      BY <3>3, <3>4
    <3> QED
      BY <3>1, <3>5
  <2>3. PICK y : y = RingAfter(wire[t], Chunk) /\ wire' = [wire EXCEPT ![t] = y]
    BY <1>4, <2>1, <2>2 DEF RingAfter
  <2>4. DOMAIN e = DecFields /\ e.oy = ReadIn(d.oy, wire[t], Chunk) /\ e.pc = "seek"
    BY <1>1, <1>2, <2>1, <2>2 DEF DecFields, ReadIn
  <2>5. TaskInv(e, RingAfter(wire[t], Chunk), pages[t], junk + failures)
    BY <1>2, <1>3, <1>7, <2>2, <2>4, ReadStep, Zenon
  <2>6. Only(wire, wire', t, y)
    BY <1>4, <2>3, OnlyExcept
  <2>7. failures' \in Nat /\ failures <= failures' /\ TaskInv(e, y, pages[t], junk + failures')
    BY <1>2, <1>3, <2>3, <2>5
  <2> QED
    BY <1>3, <2>1, <2>6, <2>7, DecoderSteps, Zenon
<1> QED
  BY <1>5, <1>6, <1>7

LEMMA SeekMoreKeeps ==
    ASSUME SupplyInv, NEW t \in Tasks, SeekMore(t) PROVE SupplyInv'
<1>1. PICK d : d = dec[t]
  OBVIOUS
<1>2. /\ TaskInv(d, wire[t], pages[t], junk + failures) /\ junk + failures \in Nat
      /\ DOMAIN d = DecFields
  BY <1>1, SupplyTask, Zenon
<1>3. PICK e : /\ e = [d EXCEPT !.oy = HeaderRead(@), !.pc = "read"] /\ Put(t, e)
               /\ wire' = wire /\ UNCHANGED hostVars /\ failures' = failures
               /\ d.pc = "seek" /\ NeedsMore(d.oy)
  BY <1>1 DEF SeekMore, At
<1>4. DOMAIN e = DecFields /\ e.oy = HeaderRead(d.oy) /\ e.pc = "read"
  BY <1>2, <1>3 DEF DecFields
<1>5. TaskInv(e, wire[t], pages[t], junk + failures)
  <2>1. CASE Build = "x86"
    BY <1>2, <1>4, <2>1, DryStep, Zenon
  <2>2. CASE Build # "x86"
    BY <1>2, <1>3, <1>4, <2>2, MoreStep, Zenon
  <2> QED
    BY <2>1, <2>2
<1> QED
  BY <1>3, <1>5, QuietSteps, Zenon

LEMMA SeekLostKeeps ==
    ASSUME SupplyInv, NEW t \in Tasks, SeekLost(t) PROVE SupplyInv'
<1>1. PICK d : d = dec[t]
  OBVIOUS
<1>2. /\ TaskInv(d, wire[t], pages[t], junk + failures) /\ junk + failures \in Nat
      /\ DOMAIN d = DecFields
  BY <1>1, SupplyTask, Zenon
<1>3. PICK e : /\ e = [d EXCEPT !.oy = [AfterLost(@) EXCEPT !.unsynced = TRUE],
                                !.pc = IF d.oy.unsynced THEN "seek" ELSE "read"]
               /\ Put(t, e)
               /\ wire' = wire /\ UNCHANGED hostVars /\ failures' = failures
               /\ d.pc = "seek" /\ Lost(d.oy)
  BY <1>1 DEF SeekLost, At
<1>4. /\ DOMAIN e = DecFields /\ e.oy = Skipped(d.oy)
      /\ d.oy.unsynced = TRUE => e.pc = "seek"
  BY <1>2, <1>3 DEF DecFields, Skipped
<1>5. Build # "x86"
  BY <1>2, <1>3, DryStays, Zenon
<1>6. TaskInv(e, wire[t], pages[t], junk + failures)
  BY <1>2, <1>3, <1>4, <1>5, LostStep, Zenon
<1> QED
  BY <1>3, <1>6, QuietSteps, Zenon

LEMMA SeekPageKeeps ==
    ASSUME SupplyInv, NEW t \in Tasks, SeekPage(t) PROVE SupplyInv'
<1>1. PICK d, page : d = dec[t] /\ page = CapturedPage(d.oy)
  OBVIOUS
<1>2. /\ TaskInv(d, wire[t], pages[t], junk + failures) /\ junk + failures \in Nat
      /\ DOMAIN d = DecFields /\ junk \in Nat /\ failures \in Nat
  BY <1>1, SupplyTask, Zenon
<1>3. PICK s, v : /\ Opened(t, page, s, v)
                  /\ Put(t, [d EXCEPT !.oy = AfterPage(@),
                                      !.os = Ogg!PageIn(Switched(s, page), v, page).os,
                                      !.stream_init = TRUE, !.pc = "packet"])
                  /\ wire' = wire /\ UNCHANGED hostVars /\ Whole(d.oy)
  BY <1>1, Zenon DEF SeekPage
<1>4. PICK os : os = Ogg!PageIn(Switched(s, page), v, page).os
  OBVIOUS
<1>5. PICK e : /\ e = [d EXCEPT !.oy = AfterPage(@), !.os = os,
                                !.stream_init = TRUE, !.pc = "packet"]
               /\ Put(t, e)
  BY <1>3, <1>4, Zenon
<1>6. DOMAIN e = DecFields /\ e.oy = AfterPage(d.oy) /\ e.pc = "packet"
  BY <1>2, <1>5 DEF DecFields
<1>7. failures' \in Nat /\ failures <= failures'
  <2>1. failures' = failures \/ failures' = failures + 1
    BY <1>3 DEF Opened
  <2> QED
    BY <1>2, <2>1
<1>8. Build # "x86"
  BY <1>2, <1>3, DryStays, Zenon
<1>9. TaskInv(e, wire[t], pages[t], junk + failures)
  BY <1>2, <1>3, <1>6, <1>8, PageStep, Zenon
<1>10. TaskInv(e, wire[t], pages[t], junk + failures')
  <2>1. junk + failures' \in Nat /\ junk + failures <= junk + failures'
    <3>1. junk <= junk
      BY <1>2
    <3> QED
      BY <1>2, <1>7, <3>1, FaultsGrow, Zenon
  <2> QED
    BY <1>2, <1>9, <2>1, TaskMore, Zenon
<1>11. Only(wire, wire', t, wire[t])
  BY <1>3, OnlySame, Zenon
<1> QED
  BY <1>3, <1>5, <1>7, <1>10, <1>11, DecoderSteps, Zenon

\* After a packet the decoder seeks a page, or goes on with packets.
NoRead(e) == e.pc \in {"seek", "packet"} \/ (e.pc = "out" /\ e.state = "SYNC_PACKET")

\* Steps that look at packets.
LEMMA PacketSteps ==
    ASSUME SupplyInv, NEW t \in Tasks, dec[t].pc = "packet",
           NEW e, DOMAIN e = DecFields, e.oy = dec[t].oy,
           NoRead(e),
           Put(t, e), wire' = wire, UNCHANGED hostVars, failures' = failures
    PROVE  SupplyInv'
<1>1. PICK d : d = dec[t]
  OBVIOUS
<1>2. /\ TaskInv(d, wire[t], pages[t], junk + failures) /\ junk + failures \in Nat
  BY <1>1, SupplyTask, Zenon
<1>3. d.pc # "seek" /\ NoNewRead(d, e)
  BY <1>1 DEF NoNewRead, Reading, NoRead
<1>4. TaskInv(e, wire[t], pages[t], junk + failures)
  BY <1>1, <1>2, <1>3, BufferKept, Zenon
<1> QED
  BY <1>4, QuietSteps, Zenon

LEMMA NoPacketKeeps ==
    ASSUME SupplyInv, NEW t \in Tasks, NoPacket(t) PROVE SupplyInv'
<1>1. PICK d : d = dec[t]
  OBVIOUS
<1>2. DOMAIN d = DecFields
  BY <1>1, SupplyTask, Zenon
<1>3. /\ d.pc = "packet" /\ wire' = wire /\ UNCHANGED hostVars /\ failures' = failures
      /\ \/ Put(t, [d EXCEPT !.pc = "seek"])
         \/ Put(t, [d EXCEPT !.os = Ogg!AfterHole(@), !.pc = "seek"])
  BY <1>1 DEF NoPacket, At
<1>4. PICK e : /\ Put(t, e)
               /\ \/ e = [d EXCEPT !.pc = "seek"]
                  \/ e = [d EXCEPT !.os = Ogg!AfterHole(@), !.pc = "seek"]
  BY <1>3
<1>5. DOMAIN e = DecFields /\ e.oy = d.oy /\ e.pc = "seek" /\ NoRead(e)
  BY <1>2, <1>4 DEF DecFields, NoRead
<1> QED
  BY <1>1, <1>3, <1>4, <1>5, PacketSteps, Zenon

LEMMA TakenIs ==
    ASSUME NEW t, DOMAIN dec[t] = DecFields
    PROVE  /\ DOMAIN Taken(t) = DecFields /\ Taken(t).oy = dec[t].oy
           /\ Taken(t).pc = dec[t].pc
<1>1. PICK d : d = dec[t]
  OBVIOUS
<1>2. PICK e : e = [d EXCEPT !.os = Ogg!AfterPacket(@, lacing)]
  OBVIOUS
<1>3. DOMAIN e = DecFields /\ e.oy = d.oy /\ e.pc = d.pc
  BY <1>1, <1>2 DEF DecFields
<1>4. Taken(t) = e \/ Taken(t) = Restarted(e)
  BY <1>1, <1>2, Zenon DEF Taken
<1>5. /\ DOMAIN Restarted(e) = DecFields /\ Restarted(e).oy = e.oy
      /\ Restarted(e).pc = e.pc
  BY <1>3 DEF Restarted, DecFields
<1> QED
  BY <1>1, <1>3, <1>4, <1>5, Zenon

LEMMA NotStreamKeeps ==
    ASSUME SupplyInv, NEW t \in Tasks, NotStream(t) PROVE SupplyInv'
<1>1. PICK d : d = Taken(t)
  OBVIOUS
<1>2. PICK e : e = [d EXCEPT !.pc = "seek"] /\ Put(t, e)
  BY <1>1 DEF NotStream
<1>3. dec[t].pc = "packet" /\ wire' = wire /\ UNCHANGED hostVars /\ failures' = failures
  BY DEF NotStream, HasOp, At
<1>4. DOMAIN d = DecFields /\ d.oy = dec[t].oy
  BY <1>1, SupplyTask, TakenIs, Zenon
<1>5. DOMAIN e = DecFields /\ e.oy = dec[t].oy /\ e.pc = "seek" /\ NoRead(e)
  BY <1>2, <1>4 DEF DecFields, NoRead
<1> QED
  BY <1>2, <1>3, <1>5, PacketSteps, Zenon

LEMMA TagsKeeps ==
    ASSUME SupplyInv, NEW t \in Tasks, Tags(t) PROVE SupplyInv'
<1>1. PICK d : d = Taken(t)
  OBVIOUS
<1>2. PICK e : e = [d EXCEPT !.has_tags_packet = TRUE, !.packet_count = 2] /\ Put(t, e)
  BY <1>1 DEF Tags
<1>3. dec[t].pc = "packet" /\ wire' = wire /\ UNCHANGED hostVars /\ failures' = failures
  BY DEF Tags, HasOp, At
<1>4. DOMAIN d = DecFields /\ d.oy = dec[t].oy /\ d.pc = dec[t].pc
  BY <1>1, SupplyTask, TakenIs, Zenon
<1>5. DOMAIN e = DecFields /\ e.oy = dec[t].oy /\ e.pc = "packet" /\ NoRead(e)
  BY <1>2, <1>3, <1>4 DEF DecFields, NoRead
<1> QED
  BY <1>2, <1>3, <1>5, PacketSteps, Zenon

LEMMA AudioKeeps ==
    ASSUME SupplyInv, NEW t \in Tasks, Audio(t) PROVE SupplyInv'
<1>1. PICK d : d = Taken(t)
  OBVIOUS
<1>2. PICK e : e = [d EXCEPT !.state = "SYNC_PACKET", !.pc = "out"] /\ Put(t, e)
  BY <1>1 DEF Audio
<1>3. dec[t].pc = "packet" /\ wire' = wire /\ UNCHANGED hostVars /\ failures' = failures
  BY DEF Audio, HasOp, At
<1>4. DOMAIN d = DecFields /\ d.oy = dec[t].oy
  BY <1>1, SupplyTask, TakenIs, Zenon
<1>5. DOMAIN e = DecFields /\ e.oy = dec[t].oy /\ e.pc = "out" /\ NoRead(e)
  BY <1>2, <1>4 DEF DecFields, NoRead
<1> QED
  BY <1>2, <1>3, <1>5, PacketSteps, Zenon

\* A decoder that cannot be made takes the call back to start_up, and the next
\* one reads first.
LEMMA HeaderKeeps ==
    ASSUME SupplyInv, NEW t \in Tasks, Header(t) PROVE SupplyInv'
<1>1. PICK d : d = Taken(t)
  OBVIOUS
<1>2. dec[t].pc = "packet" /\ wire' = wire /\ UNCHANGED hostVars
  BY DEF Header, HasOp, At
<1>3. DOMAIN d = DecFields /\ d.oy = dec[t].oy /\ d.pc = dec[t].pc
  BY <1>1, SupplyTask, TakenIs, Zenon
<1>4. PICK h : \/ /\ Put(t, [d EXCEPT !.header = h, !.st = h, !.packet_count = 1])
                  /\ failures' = failures
               \/ /\ Put(t, [d EXCEPT !.header = h, !.st = None, !.state = "SYNC_PAGEOUT",
                                      !.pc = "out"])
                  /\ failures' = failures + 1
  BY <1>1, Zenon DEF Header
<1>5. CASE /\ Put(t, [d EXCEPT !.header = h, !.st = h, !.packet_count = 1])
           /\ failures' = failures
  <2>1. PICK e : e = [d EXCEPT !.header = h, !.st = h, !.packet_count = 1] /\ Put(t, e)
    BY <1>5
  <2>2. DOMAIN e = DecFields /\ e.oy = dec[t].oy /\ e.pc = "packet" /\ NoRead(e)
    BY <1>2, <1>3, <2>1 DEF DecFields, NoRead
  <2> QED
    BY <1>2, <1>5, <2>1, <2>2, PacketSteps, Zenon
<1>6. CASE /\ Put(t, [d EXCEPT !.header = h, !.st = None, !.state = "SYNC_PAGEOUT",
                               !.pc = "out"])
           /\ failures' = failures + 1
  <2>1. PICK e : /\ e = [d EXCEPT !.header = h, !.st = None, !.state = "SYNC_PAGEOUT",
                                  !.pc = "out"]
                 /\ Put(t, e)
    BY <1>6
  <2>2. DOMAIN e = DecFields /\ e.oy = dec[t].oy
    BY <1>3, <2>1 DEF DecFields
  <2>3. /\ TaskInv(dec[t], wire[t], pages[t], junk + failures)
        /\ junk + failures \in Nat /\ junk \in Nat /\ failures \in Nat
    BY SupplyTask, Zenon
  <2>4. dec[t].pc # "seek"
    BY <1>2
  <2>5. TaskInv(e, wire[t], pages[t], (junk + failures) + 1)
    BY <2>2, <2>3, <2>4, BufferStays, Zenon
  <2>6. failures' \in Nat /\ failures <= failures' /\ (junk + failures) + 1 = junk + failures'
    BY <1>6, <2>3
  <2>7. TaskInv(e, wire[t], pages[t], junk + failures')
    BY <2>5, <2>6, Zenon
  <2>8. Only(wire, wire', t, wire[t])
    BY <1>2, OnlySame, Zenon
  <2> QED
    BY <1>2, <2>1, <2>6, <2>7, <2>8, DecoderSteps, Zenon
<1> QED
  BY <1>4, <1>5, <1>6

-----------------------------------------------------------------------------
(* Steps of the host                                                       *)

LEMMA HostPacketKeeps ==
    ASSUME SupplyInv, NEW t \in Tasks, HostPacket(t) PROVE SupplyInv'
<1>1. PICK m, id : m = mux[t] /\ id = m.next
  OBVIOUS
<1>2. /\ TaskInv(dec[t], wire[t], pages[t], junk + failures) /\ MuxInv(m)
      /\ prog[t] \in Programs /\ junk \in Nat /\ failures \in Nat
  BY <1>1, SupplyTask, Zenon
<1>3. /\ ~ Ogg!CanPageOut(m.os) /\ id <= Len(prog[t])
      /\ prog' = prog /\ pages' = pages /\ wire' = wire /\ dec' = dec
      /\ junk' = junk /\ failures' = failures
  BY <1>1, Zenon DEF HostPacket, DspVars
<1>4. PICK n : /\ n = [NewMux(PacketAt(t, id).stream) EXCEPT !.next = id] \/ n = m
               /\ mux' = [mux EXCEPT ![t] = PackedIn(n, t, id)]
  BY <1>1, Zenon DEF HostPacket
<1>5. id \in 1 .. Len(prog[t]) /\ id \in Nat /\ id >= 1
  <2>1. id \in Nat /\ id >= 1
    BY <1>1, <1>2 DEF MuxInv
  <2>2. Len(prog[t]) \in Nat
    BY <1>2, HostAssumption
  <2> QED
    BY <1>3, <2>1, <2>2
<1>6. MuxInv(n) /\ n.os.lacing_fill <= MaxVals - 1
  <2>1. CASE n = m
    <3>1. PICK f \in Nat : f = m.os.lacing_fill
      BY <1>2 DEF MuxInv
    <3>2. f > 0 => ~ (f >= MaxVals)
      BY <1>2, <1>3, <3>1 DEF MuxInv, Ogg!CanPageOut, Ogg!CanFlush
    <3>3. MaxVals \in Nat /\ MaxVals >= 1
      BY DecAssumption
    <3>4. f <= MaxVals - 1
      BY <3>2, <3>3
    <3> QED
      BY <1>2, <2>1, <3>1, <3>4
  <2>2. CASE n = [NewMux(PacketAt(t, id).stream) EXCEPT !.next = id]
    <3>1. MuxInv(n) /\ n.os.lacing_fill = 0
      BY <1>5, <2>2, NewMuxIs, Zenon
    <3>2. 0 <= MaxVals - 1
      BY DecAssumption
    <3> QED
      BY <3>1, <3>2
  <2> QED
    BY <1>4, <2>1, <2>2
<1>7. MuxInv(PackedIn(n, t, id))
  BY <1>2, <1>5, <1>6, MuxPacked, Zenon
<1>8. Only(mux, mux', t, PackedIn(n, t, id))
  <2>1. t \in DOMAIN mux
    BY DEF SupplyInv
  <2> QED
    BY <1>4, <2>1, OnlyExcept
<1>9. /\ Only(dec, dec', t, dec[t]) /\ Only(wire, wire', t, wire[t])
      /\ Only(pages, pages', t, pages[t])
  BY <1>3, OnlySame, Zenon
<1>10. /\ junk' \in Nat /\ failures' \in Nat /\ junk <= junk' /\ failures <= failures'
       /\ junk' + failures' = junk + failures
  BY <1>2, <1>3
<1>11. TaskInv(dec[t], wire[t], pages[t], junk' + failures')
  BY <1>2, <1>10, Zenon
<1> QED
  BY <1>3, <1>7, <1>8, <1>9, <1>10, <1>11, TaskSteps, Zenon

\* One of the pages ps is l bytes long.
LongAs(ps, l) == \E p \in 1 .. Len(ps) : ps[p].len = l

LEMMA LastPage ==
    ASSUME NEW ps, Pages(ps), NEW rec, rec.len \in Nat, rec.len >= HeadLen
    PROVE  LongAs(Append(ps, rec), rec.len)
<1>1. /\ Pages(Append(ps, rec))
      /\ \A p \in 1 .. Len(ps) : \E r \in 1 .. Len(Append(ps, rec)) :
            Append(ps, rec)[r].len = ps[p].len
      /\ \E r \in 1 .. Len(Append(ps, rec)) : Append(ps, rec)[r].len = rec.len
  BY PageAdded, SMTT(30)
<1> QED
  BY <1>1, Zenon DEF LongAs

LEMMA HostPageKeeps ==
    ASSUME SupplyInv, NEW t \in Tasks, HostPage(t) PROVE SupplyInv'
<1>1. PICK m, page : m = mux[t] /\ page = Ogg!FlushedPage(m.os, m.lv)
  OBVIOUS
<1>2. /\ TaskInv(dec[t], wire[t], pages[t], junk + failures) /\ MuxInv(m)
      /\ junk \in Nat /\ failures \in Nat /\ junk + failures \in Nat
  BY <1>1, SupplyTask, Zenon
<1>3. PICK arrives \in BOOLEAN :
        \E ids, o :
            /\ Ogg!CanFlush(m.os)
            /\ prog' = prog /\ dec' = dec /\ junk' = junk /\ failures' = failures
            /\ wire' = [wire EXCEPT ![t] = IF arrives THEN @ \o PageBytes(page) ELSE @]
            /\ pages' = [pages EXCEPT ![t] =
                  Append(@, [ids |-> ids, arrived |-> arrives, len |-> PageLen(page)])]
            /\ mux' = [mux EXCEPT ![t] =
                  [@ EXCEPT !.os = Ogg!Flushed(m.os, m.lv), !.lv = Ogg!FlushedTable(m.os, m.lv),
                            !.own = o]]
  BY <1>1 DEF HostPage, DspVars
<1>20. PICK ids, o :
        /\ Ogg!CanFlush(m.os)
        /\ prog' = prog /\ dec' = dec /\ junk' = junk /\ failures' = failures
        /\ wire' = [wire EXCEPT ![t] = IF arrives THEN @ \o PageBytes(page) ELSE @]
        /\ pages' = [pages EXCEPT ![t] =
              Append(@, [ids |-> ids, arrived |-> arrives, len |-> PageLen(page)])]
        /\ mux' = [mux EXCEPT ![t] =
              [@ EXCEPT !.os = Ogg!Flushed(m.os, m.lv), !.lv = Ogg!FlushedTable(m.os, m.lv),
                        !.own = o]]
  BY <1>3, Zenon
<1>4. t \in DOMAIN wire /\ t \in DOMAIN pages /\ t \in DOMAIN mux
  BY DEF SupplyInv
<1>5. Len(page.segs) \in Nat /\ Len(page.body) \in Nat
  BY <1>1, <1>2, <1>20, FlushedPageIs, Zenon
<1>6. PageLen(page) \in Nat /\ PageLen(page) >= HeadLen
  BY <1>5, PageBytesAre, Zenon
<1>7. PICK rec : rec = [ids |-> ids, arrived |-> arrives, len |-> PageLen(page)]
  OBVIOUS
<1>8. rec.len = PageLen(page) /\ rec.len \in Nat /\ rec.len >= HeadLen
  BY <1>6, <1>7
<1>9. PICK ps : ps = Append(pages[t], rec)
  OBVIOUS
<1>10. TaskInv(dec[t], wire[t], ps, junk + failures)
  BY <1>2, <1>8, <1>9, PageMade, Zenon
<1>11. \E p \in 1 .. Len(ps) : ps[p].len = PageLen(page)
  <2>1. Pages(pages[t])
    BY <1>2, Zenon DEF TaskInv
  <2>2. rec.len \in Nat /\ rec.len >= HeadLen
    BY <1>8, Zenon
  <2>3. LongAs(Append(pages[t], rec), rec.len)
    BY <2>1, <2>2, LastPage, Zenon
  <2>4. LongAs(ps, PageLen(page))
    BY <1>8, <1>9, <2>3, Zenon
  <2> QED
    BY <2>4, Zenon DEF LongAs
<1>12. PICK y : Only(wire, wire', t, y) /\ TaskInv(dec[t], y, ps, junk + failures)
  <2>1. CASE arrives
    <3>1. wire' = [wire EXCEPT ![t] = wire[t] \o PageBytes(page)]
      BY <1>20, <2>1
    <3>2. Only(wire, wire', t, wire[t] \o PageBytes(page))
      BY <1>4, <3>1, OnlyExcept
    <3>3. TaskInv(dec[t], wire[t] \o PageBytes(page), ps, junk + failures)
      BY <1>2, <1>5, <1>10, <1>11, PageArrives, Zenon
    <3> QED
      BY <3>2, <3>3
  <2>2. CASE ~ arrives
    <3>1. wire' = [wire EXCEPT ![t] = wire[t]]
      BY <1>20, <2>2
    <3>2. Only(wire, wire', t, wire[t])
      BY <1>4, <3>1, OnlyExcept
    <3> QED
      BY <1>10, <3>2
  <2> QED
    BY <2>1, <2>2
<1>13. Only(pages, pages', t, ps)
  <2>1. pages' = [pages EXCEPT ![t] = ps]
    BY <1>20, <1>4, <1>7, <1>9
  <2> QED
    BY <1>4, <2>1, OnlyExcept
<1>14. PICK k : /\ k = [m EXCEPT !.os = Ogg!Flushed(m.os, m.lv),
                                 !.lv = Ogg!FlushedTable(m.os, m.lv), !.own = o]
                /\ mux' = [mux EXCEPT ![t] = k]
  BY <1>1, <1>20, <1>4
<1>15. Only(mux, mux', t, k)
  BY <1>4, <1>14, OnlyExcept
<1>16. MuxInv(k)
  BY <1>2, <1>20, <1>14, MuxFlushed, Zenon
<1>17. Only(dec, dec', t, dec[t])
  BY <1>20, OnlySame, Zenon
<1>18. /\ junk' \in Nat /\ failures' \in Nat /\ junk <= junk' /\ failures <= failures'
       /\ junk' + failures' = junk + failures
  BY <1>2, <1>20
<1>19. TaskInv(dec[t], y, ps, junk' + failures')
  BY <1>12, <1>18, Zenon
<1> QED
  BY <1>20, <1>12, <1>13, <1>15, <1>16, <1>17, <1>18, <1>19, TaskSteps, Zenon

LEMMA HostJunkKeeps ==
    ASSUME SupplyInv, NEW t \in Tasks, HostJunk(t) PROVE SupplyInv'
<1>1. /\ TaskInv(dec[t], wire[t], pages[t], junk + failures) /\ MuxInv(mux[t])
      /\ junk \in Nat /\ failures \in Nat /\ junk + failures \in Nat
  BY SupplyTask, Zenon
<1>2. PICK j \in JunkRuns : wire' = [wire EXCEPT ![t] = @ \o j]
  BY DEF HostJunk
<1>3. /\ prog' = prog /\ dec' = dec /\ junk' = junk + 1 /\ failures' = failures
      /\ pages' = pages /\ mux' = mux
  BY DEF HostJunk, DspVars
<1>4. t \in DOMAIN wire
  BY DEF SupplyInv
<1>5. j \in Seq([k : {"junk", "O"}])
  BY HostAssumption
<1>6. PICK y : y = wire[t] \o j /\ wire' = [wire EXCEPT ![t] = y]
  BY <1>2, <1>4
<1>7. Only(wire, wire', t, y)
  BY <1>4, <1>6, OnlyExcept
<1>8. TaskInv(dec[t], y, pages[t], (junk + failures) + 1)
  <2>1. TaskInv(dec[t], wire[t] \o j, pages[t], (junk + failures) + 1)
    BY <1>1, <1>5, JunkArrives, Zenon
  <2> QED
    BY <1>6, <2>1, Zenon
<1>9. /\ junk' \in Nat /\ failures' \in Nat /\ junk <= junk' /\ failures <= failures'
      /\ junk' + failures' = (junk + failures) + 1
  BY <1>1, <1>3
<1>10. TaskInv(dec[t], y, pages[t], junk' + failures')
  BY <1>8, <1>9, Zenon
<1>11. /\ Only(dec, dec', t, dec[t]) /\ Only(mux, mux', t, mux[t])
       /\ Only(pages, pages', t, pages[t])
  BY <1>3, OnlySame, Zenon
<1> QED
  BY <1>1, <1>3, <1>7, <1>9, <1>10, <1>11, TaskSteps, Zenon

-----------------------------------------------------------------------------
(* The theorem about the sync buffer                                       *)

\* An empty buffer and an empty ring.
LEMMA FirstTask == TaskInv(NewDec, <<>>, <<>>, 0)
<1>1. PICK d, oy : d = NewDec /\ oy = d.oy
  OBVIOUS
<1>2. DOMAIN d = DecFields /\ oy = NewSync /\ d.pc = "out" /\ d.state = "READ_DATA"
  BY <1>1 DEF NewDec, DecFields
<1>3. /\ DOMAIN oy = SyncFields /\ oy.data = <<>> /\ oy.returned = 0
      /\ oy.headerbytes = 0 /\ oy.bodybytes = 0 /\ oy.unsynced = FALSE
  BY <1>2 DEF NewSync, SyncFields
<1>4. IsSeq(<<>>) /\ Len(<<>>) = 0
  <2>1. <<>> \in Seq({})
    OBVIOUS
  <2> QED
    BY <2>1 DEF IsSeq
<1>5. Waiting(oy) = 0 /\ Far(oy, <<>>) = 0 /\ Len(oy.data) = 0
  BY <1>3, <1>4 DEF Waiting, Far
<1>6. Buffered(oy, <<>>)
  <2>1. IsSeq(oy.data)
    BY <1>3, <1>4, Zenon
  <2>2. oy.returned \in Nat /\ oy.returned <= Len(oy.data) /\ oy.unsynced \in BOOLEAN
    <3>1. 0 \in Nat /\ 0 <= 0 /\ FALSE \in BOOLEAN
      OBVIOUS
    <3> QED
      BY <1>3, <1>5, <3>1, Zenon
  <2> QED
    BY <1>3, <1>4, <2>1, <2>2, Zenon DEF Buffered
<1>7. Framed(Ahead(oy, <<>>), 0, <<>>)
  BY DEF Framed
<1>8. Pages(<<>>)
  <2>1. \A n \in 1 .. Len(<<>>) : FALSE
    OBVIOUS
  <2>2. 0 \in Nat
    OBVIOUS
  <2> QED
    BY <1>4, <2>1, <2>2, Zenon DEF Pages
<1>9. Sync(oy, <<>>, <<>>)
  <2>1. Looked(oy)
    BY <1>3, Zenon DEF Looked
  <2> QED
    BY <1>5, <1>6, <1>7, <2>1, Zenon DEF Sync
<1>10. PICK r \in Nat : r = Room(0, <<>>) /\ Room(0 + 1, <<>>) \in Nat
  <2>1. Room(0, <<>>) \in Nat
    BY <1>8, RoomIs
  <2>2. Room(1, <<>>) \in Nat
    BY <1>8, RoomIs
  <2> QED
    BY <2>1, <2>2
<1>11. Stretches(Ahead(oy, <<>>), 0, From(oy), 0)
  <2>1. PICK f \in Nat : f = From(oy)
    BY FromIs, Zenon
  <2>2. Stretches(Ahead(oy, <<>>), 0, f, 0)
    BY StretchesNone
  <2> QED
    BY <2>1, <2>2, Zenon
<1>12. Len(oy.data) <= Room(0 + 1, <<>>) /\ Waiting(oy) <= Room(0, <<>>)
  BY <1>5, <1>10
<1>13. Spent(d, <<>>, <<>>, 0, 0)
  <2>1. 0 <= 0 /\ 0 - 0 = 0
    OBVIOUS
  <2> QED
    BY <1>1, <1>3, <1>5, <1>11, <1>12, <2>1, Zenon DEF Spent
<1>14. Fresh(d, <<>>)
  BY <1>1, <1>5, Zenon DEF Fresh
<1>15. Supplied(d, <<>>, <<>>, 0)
  <2>1. 0 \in Nat
    OBVIOUS
  <2> QED
    BY <1>1, <1>9, <1>13, <1>14, <2>1, Zenon DEF Supplied
<1>16. Dry(d.oy)
  BY <1>1, <1>3, Zenon DEF Dry
<1> QED
  BY <1>1, <1>2, <1>8, <1>15, <1>16, Zenon DEF TaskInv

\* The invariant holds at first, is kept by every step, and says how much waits.
LEMMA SupplyInit == Init => SupplyInv
<1> SUFFICES ASSUME Init PROVE SupplyInv
  OBVIOUS
<1>1. /\ prog \in [Tasks -> Programs]
      /\ mux = [t \in Tasks |-> NewMux(PacketAt(t, 1).stream)]
      /\ pages = [t \in Tasks |-> <<>>] /\ wire = [t \in Tasks |-> <<>>]
      /\ dec = [t \in Tasks |-> NewDec] /\ junk = 0 /\ failures = 0
  BY DEF Init
<1>2. ASSUME NEW t \in Tasks PROVE TaskOK(t)
  <2>1. /\ dec[t] = NewDec /\ wire[t] = <<>> /\ pages[t] = <<>>
        /\ mux[t] = NewMux(PacketAt(t, 1).stream) /\ junk + failures = 0
    BY <1>1
  <2>2. MuxInv(NewMux(PacketAt(t, 1).stream))
    <3>1. 1 \in Nat /\ 1 >= 1
      OBVIOUS
    <3> QED
      BY <3>1, NewMuxIs, Zenon
  <2> QED
    BY <2>1, <2>2, FirstTask, Zenon DEF TaskOK
<1>3. DOMAIN mux = Tasks /\ DOMAIN pages = Tasks /\ DOMAIN wire = Tasks /\ DOMAIN dec = Tasks
  BY <1>1
<1> QED
  BY <1>1, <1>2, <1>3 DEF SupplyInv

LEMMA SupplyNext == SupplyInv /\ [Next]_vars => SupplyInv'
<1> SUFFICES ASSUME SupplyInv, [Next]_vars PROVE SupplyInv'
  OBVIOUS
<1>1. CASE UNCHANGED vars
  BY <1>1, Zenon DEF vars, hostVars, SupplyInv, TaskOK
<1>2. ASSUME NEW t \in Tasks, Host(t) PROVE SupplyInv'
  BY <1>2, HostPacketKeeps, HostPageKeeps, HostJunkKeeps, Zenon DEF Host
<1>3. ASSUME NEW t \in Tasks, Dsp(t) PROVE SupplyInv'
  BY <1>3, DecodeKeeps, ReadKeeps, SeekMoreKeeps, SeekLostKeeps, SeekPageKeeps,
     NoPacketKeeps, NotStreamKeeps, HeaderKeeps, TagsKeeps, AudioKeeps, Zenon DEF Dsp
<1> QED
  BY <1>1, <1>2, <1>3, Zenon DEF Next

LEMMA SupplyBounds == SupplyInv => SyncBounded
<1> SUFFICES ASSUME SupplyInv, NEW t \in Tasks
             PROVE  Len(dec[t].oy.data) <=
                       Chunk * (1 + junk + failures)
                       + Max({0} \cup {pages[t][n].len - 1 : n \in 1 .. Len(pages[t])})
  BY Zenon DEF SyncBounded
<1>1. TaskInv(dec[t], wire[t], pages[t], junk + failures) /\ junk + failures \in Nat
      /\ junk \in Nat /\ failures \in Nat
  BY SupplyTask, Zenon
<1>2. Len(dec[t].oy.data) <= Chunk * (1 + (junk + failures)) + Top(pages[t])
  BY <1>1, TaskBounded, Zenon
<1>3. 1 + (junk + failures) = 1 + junk + failures
  BY <1>1
<1> QED
  BY <1>2, <1>3, Zenon DEF Top

\* The bound holds in every state: in_save_buf has to be as long as the longest page
\* made, a chunk, and a chunk for each stretch of junk and each failed creation.
THEOREM SupplyIsBounded == Spec => []SyncBounded
BY SupplyInit, SupplyNext, SupplyBounds, PTL DEF Spec

-----------------------------------------------------------------------------
(* The lacing table of a stream                                            *)

\* What was returned, the whole packets, the rest; a packet ends in an entry of
\* the table that says so, as far as the table goes.
Ranked(os, lv) ==
    /\ DOMAIN os = StreamFields
    /\ os.lacing_returned \in Nat /\ os.lacing_packet \in Nat /\ os.lacing_fill \in Nat
    /\ os.lacing_returned <= os.lacing_packet /\ os.lacing_packet <= os.lacing_fill
    /\ os.lacing_packet > 0 /\ os.lacing_fill <= LacingStorage =>
          lv[os.lacing_packet - 1].val < MaxSeg

LEMMA NewIsRanked ==
    ASSUME NEW serial, NEW lv
    PROVE  /\ Ranked(Ogg!NewStream(serial), lv) /\ Ogg!NewStream(serial).lacing_fill = 0
           /\ Ranked(Ogg!ClearedStream, lv) /\ Ogg!ClearedStream.lacing_fill = 0
<1>1. ASSUME NEW os, DOMAIN os = StreamFields, os.lacing_returned = 0, os.lacing_packet = 0,
             os.lacing_fill = 0
      PROVE  Ranked(os, lv)
  BY <1>1 DEF Ranked
<1>2. PICK os : os = Ogg!NewStream(serial)
  OBVIOUS
<1>3. DOMAIN os = StreamFields /\ os.lacing_returned = 0 /\ os.lacing_packet = 0
      /\ os.lacing_fill = 0
  BY <1>2 DEF Ogg!NewStream, StreamFields
<1>4. PICK oz : oz = Ogg!NewStream(0)
  OBVIOUS
<1>5. DOMAIN oz = StreamFields /\ oz.lacing_returned = 0 /\ oz.lacing_packet = 0
      /\ oz.lacing_fill = 0
  BY <1>4 DEF Ogg!NewStream, StreamFields
<1>6. PICK oc : oc = [oz EXCEPT !.ok = FALSE]
  OBVIOUS
<1>7. DOMAIN oc = StreamFields /\ oc.lacing_returned = 0 /\ oc.lacing_packet = 0
      /\ oc.lacing_fill = 0
  BY <1>5, <1>6 DEF StreamFields
<1>8. Ogg!ClearedStream = oc
  BY <1>4, <1>6, Zenon DEF Ogg!ClearedStream
<1> QED
  BY <1>1, <1>2, <1>3, <1>7, <1>8, Zenon

\* ogg_stream_reset_serialno
LEMMA ResetIsRanked ==
    ASSUME NEW os, NEW lv, Ranked(os, lv), NEW serial, os.lacing_fill <= LacingStorage
    PROVE  Ranked(Ogg!Reset(os, serial), lv) /\ Ogg!Reset(os, serial).lacing_fill <= LacingStorage
<1>1. CASE ~ os.ok
  BY <1>1, Zenon DEF Ogg!Reset
<1>2. CASE os.ok
  <2>1. PICK oz : oz = Ogg!NewStream(serial)
    OBVIOUS
  <2>2. DOMAIN oz = StreamFields /\ oz.lacing_returned = 0 /\ oz.lacing_packet = 0
        /\ oz.lacing_fill = 0
    BY <2>1 DEF Ogg!NewStream, StreamFields
  <2>3. PICK oc : oc = [oz EXCEPT !.pageno = -1]
    OBVIOUS
  <2>4. DOMAIN oc = StreamFields /\ oc.lacing_returned = 0 /\ oc.lacing_packet = 0
        /\ oc.lacing_fill = 0
    BY <2>2, <2>3 DEF StreamFields
  <2>5. Ogg!Reset(os, serial) = oc
    BY <1>2, <2>1, <2>3, Zenon DEF Ogg!Reset
  <2>6. Ranked(oc, lv) /\ oc.lacing_fill <= LacingStorage
    BY <2>4, SlotsAre DEF Ranked
  <2> QED
    BY <2>5, <2>6, Zenon
<1> QED
  BY <1>1, <1>2

\* The returned entries go, the rest moves to the front.
LEMMA CompactedIsRanked ==
    ASSUME NEW os, NEW lv, Ranked(os, lv), os.lacing_fill <= LacingStorage
    PROVE  /\ Ranked(Ogg!Compacted(os), Ogg!CompactedTable(os, lv))
           /\ Ogg!Compacted(os).lacing_fill <= LacingStorage
           /\ Ogg!Compacted(os).lacing_returned = 0
           /\ Ogg!Compacted(os).lacing_fill = os.lacing_fill - os.lacing_returned
<1>1. PICK r \in Nat, p \in Nat, f \in Nat :
        r = os.lacing_returned /\ p = os.lacing_packet /\ f = os.lacing_fill
        /\ r <= p /\ p <= f
  BY DEF Ranked
<1>2. PICK oc : oc = Ogg!Compacted(os)
  OBVIOUS
<1>3. DOMAIN oc = StreamFields /\ oc.lacing_returned = 0 /\ oc.lacing_packet = p - r
      /\ oc.lacing_fill = f - r
  BY <1>1, <1>2 DEF Ogg!Compacted, Ranked, StreamFields
<1>4. p - r \in Nat /\ f - r \in Nat /\ 0 <= p - r /\ p - r <= f - r /\ f - r <= LacingStorage
  BY <1>1, SlotsAre
<1>5. ASSUME p - r > 0 PROVE Ogg!CompactedTable(os, lv)[p - r - 1].val < MaxSeg
  <2>1. p - r - 1 \in Ogg!Slots /\ p - r - 1 < f - r /\ p - r - 1 + r = p - 1 /\ p > 0
    BY <1>1, <1>4, <1>5, SlotsAre
  <2>2. Ogg!CompactedTable(os, lv)[p - r - 1] = lv[p - r - 1 + r]
    BY <1>1, <2>1 DEF Ogg!CompactedTable, Ogg!MovedDown
  <2>3. lv[p - 1].val < MaxSeg
    BY <1>1, <2>1 DEF Ranked
  <2> QED
    BY <2>1, <2>2, <2>3
<1>6. Ranked(oc, Ogg!CompactedTable(os, lv))
  BY <1>3, <1>4, <1>5 DEF Ranked
<1> QED
  BY <1>1, <1>2, <1>3, <1>4, <1>6

\* The partial packet goes, a gap takes an entry of its own.
LEMMA InSequenceIsRanked ==
    ASSUME NEW os, NEW lv, Ranked(os, lv), os.lacing_fill <= LacingStorage, NEW page
    PROVE  LET s == Ogg!InSequence(os, lv, page) IN Ranked(s.os, s.lv)
<1>1. CASE page.pageno = os.pageno
  <2>1. Ogg!InSequence(os, lv, page) = [os |-> os, lv |-> lv]
    BY <1>1, Zenon DEF Ogg!InSequence
  <2> QED
    BY <2>1
<1>2. CASE page.pageno # os.pageno
  <2>1. PICK r \in Nat, p \in Nat, f \in Nat :
          r = os.lacing_returned /\ p = os.lacing_packet /\ f = os.lacing_fill
          /\ r <= p /\ p <= f /\ f <= LacingStorage
    BY DEF Ranked
  <2>2. PICK u : u = Ogg!Unrolled(os, lv)
    OBVIOUS
  <2>3. DOMAIN u = StreamFields /\ u.lacing_returned = r /\ u.lacing_packet = p
        /\ u.lacing_fill = p /\ u.pageno = os.pageno
    BY <2>1, <2>2 DEF Ogg!Unrolled, Ranked, StreamFields
  <2>4. PICK oh, lw : /\ oh = Ogg!WithHole(u)
                      /\ lw = IF os.pageno # -1 THEN Ogg!Store(lv, u.lacing_fill, Ogg!Hole) ELSE lv
    OBVIOUS
  <2>5. Ogg!InSequence(os, lv, page) = [os |-> oh, lv |-> lw]
    BY <1>2, <2>2, <2>4, Zenon DEF Ogg!InSequence
  <2>6. CASE os.pageno = -1
    <3>1. oh = u /\ lw = lv
      BY <2>3, <2>4, <2>6, Zenon DEF Ogg!WithHole
    <3>2. p > 0 => lv[p - 1].val < MaxSeg
      BY <2>1 DEF Ranked
    <3>3. Ranked(u, lv)
      BY <2>1, <2>3, <3>2, SlotsAre DEF Ranked
    <3> QED
      BY <2>5, <3>1, <3>3
  <2>7. CASE os.pageno # -1
    <3>1. oh = [u EXCEPT !.lacing_fill = @ + 1, !.lacing_packet = @ + 1]
      BY <2>3, <2>4, <2>7, Zenon DEF Ogg!WithHole
    <3>2. DOMAIN oh = StreamFields /\ oh.lacing_returned = r /\ oh.lacing_packet = p + 1
          /\ oh.lacing_fill = p + 1
      BY <2>3, <3>1 DEF StreamFields
    <3>3. lw = Ogg!Store(lv, p, Ogg!Hole)
      BY <2>3, <2>4, <2>7, Zenon
    <3>4. ASSUME p + 1 <= LacingStorage PROVE lw[p].val < MaxSeg
      <4>1. p \in Ogg!Slots
        BY <3>4, SlotsAre
      <4>2. lw[p] = Ogg!Hole
        BY <3>3, <4>1 DEF Ogg!Store
      <4>3. Ogg!Hole.val = 0
        BY DEF Ogg!Hole, Ogg!Segment
      <4>4. MaxSeg \in Nat /\ 0 < MaxSeg
        BY DecAssumption
      <4> QED
        BY <4>2, <4>3, <4>4
    <3>5. p + 1 - 1 = p /\ p + 1 \in Nat /\ r <= p + 1 /\ p + 1 <= p + 1
      BY <2>1
    <3>7. oh.lacing_fill <= LacingStorage => lw[oh.lacing_packet - 1].val < MaxSeg
      <4>1. oh.lacing_packet - 1 = p
        BY <2>1, <3>2
      <4> QED
        BY <3>2, <3>4, <4>1
    <3>6. Ranked(oh, lw)
      BY <2>1, <3>2, <3>5, <3>7, Zenon DEF Ranked
    <3> QED
      BY <2>5, <3>6
  <2> QED
    BY <2>6, <2>7
<1> QED
  BY <1>1, <1>2

\* No more segments are skipped than the page has.
LEMMA SkippedAre ==
    ASSUME NEW os, NEW lv, NEW page, Len(page.segs) \in Nat
    PROVE  /\ Ogg!SkippedSegs(os, lv, page) \in Nat
           /\ Ogg!SkippedSegs(os, lv, page) <= Len(page.segs)
<1>1. PICK n \in Nat : n = Len(page.segs)
  OBVIOUS
<1> DEFINE A == {k \in 0 .. n : k = n \/ (k > 0 /\ page.segs[k] < MaxSeg)}
<1>2. A \in SUBSET (0 .. n) /\ n \in A
  BY <1>1
<1>3. Ogg!SkippedSegs(os, lv, page) = IF Ogg!Orphaned(os, lv, page) THEN Min(A) ELSE 0
  BY <1>1, OggMin, Zenon DEF Ogg!SkippedSegs
<1> HIDE DEF A
<1>4. Min(A) \in A
  <2>1. A \in SUBSET Nat /\ A # {}
    BY <1>1, <1>2
  <2> QED
    BY <2>1, MinIs
<1>5. PICK a \in 0 .. n : a = Min(A)
  BY <1>2, <1>4
<1>6. Ogg!SkippedSegs(os, lv, page) = a \/ Ogg!SkippedSegs(os, lv, page) = 0
  BY <1>3, <1>5, Zenon
<1> QED
  BY <1>1, <1>5, <1>6

\* The page's segments come behind; the last that ends a packet ends the whole ones.
LEMMA AppendedIsRanked ==
    ASSUME NEW os, NEW lv, Ranked(os, lv), NEW page, Len(page.segs) \in Nat,
           NEW k \in Nat, k <= Len(page.segs)
    PROVE  Ranked(Ogg!Appended(os, page, k), Ogg!AppendedTable(os, lv, page, k))
<1>1. PICK r \in Nat, p \in Nat, f \in Nat :
        r = os.lacing_returned /\ p = os.lacing_packet /\ f = os.lacing_fill
        /\ r <= p /\ p <= f
  BY DEF Ranked
<1>2. PICK n \in Nat : n = Len(page.segs) - k
  <2>1. Len(page.segs) - k \in Nat
    OBVIOUS
  <2> QED
    BY <2>1
<1> DEFINE E == {i \in 1 .. n : page.segs[k + i] < MaxSeg}
<1>3. PICK q : q = (IF E = {} THEN p ELSE f + Max(E))
  OBVIOUS
<1>4. PICK oa : oa = Ogg!Appended(os, page, k)
  OBVIOUS
<1>5. DOMAIN oa = StreamFields /\ oa.lacing_returned = r /\ oa.lacing_packet = q
      /\ oa.lacing_fill = f + n
  <2>1. DOMAIN os = StreamFields
    BY DEF Ranked
  <2>2. PICK body, eos : oa = [os EXCEPT !.body = body, !.lacing_fill = f + n,
                                         !.lacing_packet = q, !.e_o_s = eos]
    <3>1. q = (IF E = {} THEN p ELSE f + Ogg!Max(E))
      BY <1>3, OggMax, Zenon
    <3> QED
      BY <1>1, <1>2, <1>4, <3>1, <2>1, Zenon DEF Ogg!Appended, StreamFields
  <2> QED
    BY <1>1, <2>1, <2>2 DEF StreamFields
<1>6. PICK la : la = Ogg!AppendedTable(os, lv, page, k)
  OBVIOUS
<1>7. ASSUME NEW i \in Ogg!Slots
      PROVE  la[i].val = IF i >= f /\ i <= f + n - 1 THEN page.segs[k + i - f + 1] ELSE lv[i].val
  <2> DEFINE first == page.bos /\ ~ Ogg!Orphaned(os, lv, page)
             added == [j \in Ogg!Slots |->
                         IF j \in f .. f + n - 1
                         THEN [Ogg!Segment(page.segs[k + j - f + 1]) EXCEPT
                                  !.first = first /\ j = f]
                         ELSE lv[j]]
  <2>1. la = IF page.eos /\ f + n - 1 \in Ogg!Slots
             THEN [added EXCEPT ![f + n - 1].eos = TRUE] ELSE added
    BY <1>1, <1>2, <1>6, Zenon DEF Ogg!AppendedTable
  <2>2. added[i].val = IF i >= f /\ i <= f + n - 1 THEN page.segs[k + i - f + 1] ELSE lv[i].val
    <3>1. i \in f .. f + n - 1 <=> i >= f /\ i <= f + n - 1
      BY <1>1, <1>2, SlotsAre
    <3>2. CASE i \in f .. f + n - 1
      <4>1. PICK b : added[i] = [Ogg!Segment(page.segs[k + i - f + 1]) EXCEPT !.first = b]
        BY <3>2
      <4>2. added[i].val = page.segs[k + i - f + 1]
        BY <4>1 DEF Ogg!Segment
      <4> QED
        BY <3>1, <3>2, <4>2, Zenon
    <3>3. CASE i \notin f .. f + n - 1
      BY <3>1, <3>3
    <3> QED
      BY <3>2, <3>3
  <2>3. i \in DOMAIN added
    OBVIOUS
  <2> HIDE DEF added
  <2>4. la[i].val = added[i].val
    <3>1. la = added \/ la = [added EXCEPT ![f + n - 1].eos = TRUE]
      BY <2>1
    <3>2. CASE la = [added EXCEPT ![f + n - 1].eos = TRUE]
      <4>1. CASE i = f + n - 1
        <5>1. la[i] = [added[i] EXCEPT !.eos = TRUE]
          BY <2>3, <3>2, <4>1
        <5>2. [added[i] EXCEPT !.eos = TRUE].val = added[i].val
          OBVIOUS
        <5> QED
          BY <5>1, <5>2
      <4>2. CASE i # f + n - 1
        BY <2>3, <3>2, <4>2
      <4> QED
        BY <4>1, <4>2
    <3> QED
      BY <3>1, <3>2
  <2> QED
    BY <2>2, <2>4, Zenon
<1>10. ASSUME E # {} PROVE Max(E) \in 1 .. n /\ page.segs[k + Max(E)] < MaxSeg
  <2>1. E \in SUBSET Nat /\ \A y \in E : y <= n
    OBVIOUS
  <2>2. Max(E) \in E
    <3> HIDE DEF E
    <3> QED
      BY <1>2, <1>10, <2>1, MaxIs
  <2> QED
    BY <2>2
<1> HIDE DEF E
<1>8. CASE E = {}
  <2>1. q = p
    BY <1>3, <1>8
  <2>2. ASSUME p > 0, f + n <= LacingStorage PROVE la[p - 1].val < MaxSeg
    <3>1. p - 1 \in Ogg!Slots /\ ~ (p - 1 >= f) /\ f <= LacingStorage
      <4>1. r <= p /\ p <= f /\ p > 0 /\ f + n <= LacingStorage
        BY <1>1, <2>2, Zenon
      <4>2. LacingStorage \in Nat
        BY SlotsAre, Zenon
      <4>3. f <= LacingStorage
        BY <4>1, <4>2
      <4>4. p - 1 \in Nat /\ ~ (p - 1 >= f) /\ p - 1 <= LacingStorage - 1
        BY <4>1, <4>2, <4>3
      <4> QED
        BY <4>3, <4>4, SlotsAre, Zenon
    <3>2. lv[p - 1].val < MaxSeg
      BY <1>1, <2>2, <3>1 DEF Ranked
    <3>3. la[p - 1].val = lv[p - 1].val
      BY <1>7, <3>1
    <3> QED
      BY <3>2, <3>3
  <2>3. f + n \in Nat /\ p <= f + n
    BY <1>1
  <2>5. oa.lacing_packet > 0 /\ oa.lacing_fill <= LacingStorage =>
           la[oa.lacing_packet - 1].val < MaxSeg
    BY <1>5, <2>1, <2>2, Zenon
  <2>4. Ranked(oa, la)
    BY <1>1, <1>5, <2>1, <2>3, <2>5, Zenon DEF Ranked
  <2> QED
    BY <1>4, <1>6, <2>4
<1>9. CASE E # {}
  <2>1. PICK m : m = Max(E)
    OBVIOUS
  <2>2. m \in 1 .. n /\ page.segs[k + m] < MaxSeg
    BY <1>9, <1>10, <2>1, Zenon
  <2>3. m \in Nat /\ 1 <= m /\ m <= n
    BY <2>2
  <2>4. q = f + m
    BY <1>3, <1>9, <2>1, Zenon
  <2>10. PICK z \in Nat : z = f + m /\ z = q
    <3>1. f + m \in Nat
      BY <2>3
    <3> QED
      BY <2>4, <3>1, Zenon
  <2>5. ASSUME f + n <= LacingStorage PROVE la[q - 1].val < MaxSeg
    <3>1. z - 1 \in Nat /\ z - 1 <= LacingStorage - 1 /\ z - 1 >= f /\ z - 1 <= f + n - 1
          /\ k + (z - 1) - f + 1 = k + m
      <4>1. z = f + m /\ 1 <= m /\ m <= n /\ m \in Nat /\ f + n <= LacingStorage
        BY <2>3, <2>5, <2>10, Zenon
      <4>2. LacingStorage \in Nat
        BY SlotsAre, Zenon
      <4> QED
        BY <4>1, <4>2
    <3>2. la[z - 1].val = page.segs[k + (z - 1) - f + 1]
      <4>1. z - 1 \in Ogg!Slots
        BY <3>1, SlotsAre
      <4> QED
        BY <1>7, <3>1, <4>1, Zenon
    <3> QED
      BY <2>2, <2>10, <3>1, <3>2, Zenon
  <2>6. f + n \in Nat /\ q \in Nat /\ r <= q /\ q <= f + n
    <3>1. f + n \in Nat /\ r <= z /\ z <= f + n
      <4>1. r <= p /\ p <= f /\ z = f + m /\ 1 <= m /\ m <= n /\ m \in Nat
        BY <1>1, <2>3, <2>10, Zenon
      <4> QED
        BY <4>1
    <3> QED
      BY <2>10, <3>1, Zenon
  <2>9. oa.lacing_fill <= LacingStorage => la[oa.lacing_packet - 1].val < MaxSeg
    BY <1>5, <2>5, Zenon
  <2>7. Ranked(oa, la)
    BY <1>1, <1>5, <2>6, <2>9, Zenon DEF Ranked
  <2> QED
    BY <1>4, <1>6, <2>7
<1> QED
  BY <1>8, <1>9

\* ogg_stream_pagein
LEMMA PageInIsRanked ==
    ASSUME NEW os, NEW lv, Ranked(os, lv), os.lacing_fill <= LacingStorage,
           NEW page, Len(page.segs) \in Nat
    PROVE  Ranked(Ogg!PageIn(os, lv, page).os, Ogg!PageIn(os, lv, page).lv)
<1>1. PICK in : in = Ogg!PageIn(os, lv, page)
  OBVIOUS
<1>2. PICK oc, lc : oc = Ogg!Compacted(os) /\ lc = Ogg!CompactedTable(os, lv)
  OBVIOUS
<1>3. PICK s : s = Ogg!InSequence(oc, lc, page)
  OBVIOUS
<1>4. PICK k : k = Ogg!SkippedSegs(s.os, s.lv, page)
  OBVIOUS
<1>5. in = IF ~ os.ok THEN [os |-> os, lv |-> lv]
           ELSE IF ~ Ogg!Accepts(oc, page) THEN [os |-> oc, lv |-> lc]
           ELSE [os |-> [Ogg!Appended(s.os, page, k) EXCEPT !.pageno = Ogg!NextPageno(s.os, page)],
                 lv |-> Ogg!AppendedTable(s.os, s.lv, page, k)]
  BY <1>1, <1>2, <1>3, <1>4, Zenon DEF Ogg!PageIn
<1>6. Ranked(oc, lc) /\ oc.lacing_fill <= LacingStorage
  BY <1>2, CompactedIsRanked
<1>7. PICK oa, la : oa = Ogg!Appended(s.os, page, k) /\ la = Ogg!AppendedTable(s.os, s.lv, page, k)
  OBVIOUS
<1>8. Ranked(oa, la)
  <2>1. Ranked(s.os, s.lv)
    BY <1>3, <1>6, InSequenceIsRanked
  <2>2. k \in Nat /\ k <= Len(page.segs)
    BY <1>4, SkippedAre
  <2> QED
    BY <1>7, <2>1, <2>2, AppendedIsRanked
<1>9. PICK oe : oe = [oa EXCEPT !.pageno = Ogg!NextPageno(s.os, page)]
  OBVIOUS
<1>10. Ranked(oe, la)
  <2>1. /\ DOMAIN oe = StreamFields /\ oe.lacing_returned = oa.lacing_returned
        /\ oe.lacing_packet = oa.lacing_packet /\ oe.lacing_fill = oa.lacing_fill
    BY <1>8, <1>9 DEF Ranked, StreamFields
  <2> QED
    BY <1>8, <2>1, Zenon DEF Ranked
<1>11. \/ in = [os |-> os, lv |-> lv] \/ in = [os |-> oc, lv |-> lc]
       \/ in = [os |-> oe, lv |-> la]
  BY <1>5, <1>7, <1>9, Zenon
<1>12. Ranked(in.os, in.lv)
  BY <1>6, <1>10, <1>11
<1> QED
  BY <1>1, <1>12

\* The search for the end of a packet stays within the whole packets.
LEMMA TakenIsRanked ==
    ASSUME NEW os, NEW lv, Ranked(os, lv), os.lacing_fill <= LacingStorage, Ogg!HasPacket(os)
    PROVE  /\ Ranked(Ogg!AfterPacket(os, lv), lv) /\ Ranked(Ogg!AfterHole(os), lv)
           /\ Ogg!AfterPacket(os, lv).lacing_fill <= LacingStorage
           /\ Ogg!AfterHole(os).lacing_fill <= LacingStorage
<1>1. PICK r \in Nat, p \in Nat, f \in Nat :
        r = os.lacing_returned /\ p = os.lacing_packet /\ f = os.lacing_fill
        /\ r < p /\ p <= f /\ f <= LacingStorage /\ lv[p - 1].val < MaxSeg
  BY SlotsAre DEF Ranked, Ogg!HasPacket
<1>2. ASSUME NEW o, DOMAIN o = StreamFields, o.lacing_packet = p, o.lacing_fill = f,
             o.lacing_returned \in Nat, o.lacing_returned <= p
      PROVE  Ranked(o, lv) /\ o.lacing_fill <= LacingStorage
  BY <1>1, <1>2, Zenon DEF Ranked
<1>3. PICK e : e = Ogg!Ending(os, lv)
  OBVIOUS
<1>4. e \in Nat /\ e + 1 <= p
  <2> DEFINE A == {i \in Ogg!Slots : i >= r /\ (i = LacingStorage - 1 \/ lv[i].val < MaxSeg)}
  <2>1. e = Min(A)
    BY <1>1, <1>3, OggMin, Zenon DEF Ogg!Ending
  <2>2. A \in SUBSET Nat
    BY SlotsAre
  <2>3. p - 1 \in A
    BY <1>1, SlotsAre
  <2> HIDE DEF A
  <2>4. e \in A /\ e <= p - 1
    <3>1. Min(A) \in A /\ \A y \in A : Min(A) <= y
      BY <2>2, <2>3, MinIs
    <3> QED
      BY <2>1, <2>3, <3>1, Zenon
  <2> QED
    BY <1>1, <2>2, <2>4
<1>5. PICK b : Ogg!AfterPacket(os, lv) = [os EXCEPT !.body_returned = b, !.lacing_returned = e + 1]
  BY <1>3, Zenon DEF Ogg!AfterPacket, Ranked, StreamFields
<1>6. PICK oz : oz = [os EXCEPT !.body_returned = b, !.lacing_returned = e + 1]
  OBVIOUS
<1>7. Ranked(oz, lv) /\ oz.lacing_fill <= LacingStorage
  <2>1. DOMAIN oz = StreamFields /\ oz.lacing_packet = p /\ oz.lacing_fill = f
        /\ oz.lacing_returned = e + 1
    BY <1>1, <1>6 DEF Ranked, StreamFields
  <2>2. e + 1 \in Nat
    BY <1>4
  <2> QED
    BY <1>2, <1>4, <2>1, <2>2, Zenon
<1>8. PICK oy : oy = Ogg!AfterHole(os)
  OBVIOUS
<1>9. Ranked(oy, lv) /\ oy.lacing_fill <= LacingStorage
  <2>1. DOMAIN oy = StreamFields /\ oy.lacing_packet = p /\ oy.lacing_fill = f
        /\ oy.lacing_returned = r + 1
    BY <1>1, <1>8 DEF Ranked, StreamFields, Ogg!AfterHole
  <2>2. r + 1 \in Nat /\ r + 1 <= p
    BY <1>1
  <2> QED
    BY <1>2, <2>1, <2>2, Zenon
<1> QED
  BY <1>5, <1>6, <1>7, <1>8, <1>9, Zenon

-----------------------------------------------------------------------------
(* The lacing table of one task                                            *)

\* The task's part of the table is in order.
Kept(os, lv) == Ranked(os, lv) /\ os.lacing_fill <= LacingStorage
LacingInv == \A t \in Tasks : overrun \/ Kept(dec[t].os, lacing)

\* With one task a step has to keep its own stream in order, and no other one.
LEMMA OneTask ==
    ASSUME NEW x, Tasks = {x}, SupplyInv, NEW t \in Tasks, NEW e, Put(t, e),
           overrun' \/ Kept(e.os, lacing')
    PROVE  LacingInv'
<1>1. t \in DOMAIN dec
  BY DEF SupplyInv
<1>2. dec'[t] = e
  BY <1>1 DEF Put
<1>3. ASSUME NEW u \in Tasks PROVE u = t
  OBVIOUS
<1> QED
  BY <1>2, <1>3, Zenon DEF LacingInv

\* A step that leaves the table, and the stream as it was or with something taken.
LEMMA StreamSteps ==
    ASSUME NEW x, Tasks = {x}, SupplyInv, LacingInv, NEW t \in Tasks, NEW e, Put(t, e),
           lacing' = lacing, overrun' = overrun,
           \/ e.os = dec[t].os
           \/ /\ Ogg!HasPacket(dec[t].os)
              /\ \/ e.os = Ogg!AfterHole(dec[t].os)
                 \/ e.os = Ogg!AfterPacket(dec[t].os, lacing)
    PROVE  LacingInv'
<1>1. overrun \/ Kept(dec[t].os, lacing)
  BY Zenon DEF LacingInv
<1>2. CASE overrun
  BY <1>2, OneTask, Zenon
<1>3. CASE Kept(dec[t].os, lacing)
  <2>1. Kept(e.os, lacing)
    <3>1. PICK os : os = dec[t].os
      OBVIOUS
    <3>2. CASE e.os = os
      BY <1>3, <3>1, <3>2
    <3>3. CASE Ogg!HasPacket(os) /\ (e.os = Ogg!AfterHole(os) \/ e.os = Ogg!AfterPacket(os, lacing))
      <4>1. Ranked(os, lacing) /\ os.lacing_fill <= LacingStorage
        BY <1>3, <3>1, Zenon DEF Kept
      <4>2. Kept(Ogg!AfterHole(os), lacing) /\ Kept(Ogg!AfterPacket(os, lacing), lacing)
        BY <3>3, <4>1, TakenIsRanked, Zenon DEF Kept
      <4> QED
        BY <3>3, <4>2, Zenon
    <3> QED
      BY <3>1, <3>2, <3>3, Zenon
  <2> QED
    BY <2>1, OneTask, Zenon
<1> QED
  BY <1>1, <1>2, <1>3

\* Steps outside the inner loop do not touch the stream.
LEMMA OuterSteps ==
    ASSUME SupplyInv, NEW t \in Tasks,
           Decode(t) \/ Read(t) \/ SeekMore(t) \/ SeekLost(t)
    PROVE  \E e : Put(t, e) /\ e.os = dec[t].os /\ lacing' = lacing /\ overrun' = overrun
<1>1. PICK d : d = dec[t]
  OBVIOUS
<1>2. DOMAIN d = DecFields
  BY <1>1, SupplyTask, Zenon
<1>3. lacing' = lacing /\ overrun' = overrun
  BY DEF Decode, Read, SeekMore, SeekLost
<1>4. CASE Decode(t)
  <2>1. PICK e : Put(t, e) /\ (e = [d EXCEPT !.pc = "packet", !.packet_count = @ + 1]
                               \/ e = [d EXCEPT !.pc = "read"])
    BY <1>1, <1>4 DEF Decode
  <2>2. e.os = d.os
    BY <1>2, <2>1 DEF DecFields
  <2> QED
    BY <1>1, <1>3, <2>1, <2>2, Zenon
<1>5. CASE Read(t)
  <2>1. PICK s, n : s = Shifted(d.oy) /\ n = Min({Chunk, Len(wire[t])})
    OBVIOUS
  <2>3. PICK e : /\ Put(t, e)
                 /\ \/ e = [d EXCEPT !.oy = s, !.pc = "seek"]
                    \/ e = [d EXCEPT !.oy = s, !.state = "READ_DATA", !.pc = "out"]
                    \/ e = [d EXCEPT !.oy = Filled(s, SubSeq(wire[t], 1, n)), !.pc = "seek"]
    <3>1. \/ Put(t, [d EXCEPT !.oy = s, !.pc = "seek"])
          \/ Put(t, [d EXCEPT !.oy = s, !.state = "READ_DATA", !.pc = "out"])
          \/ Put(t, [d EXCEPT !.oy = Filled(s, SubSeq(wire[t], 1, n)), !.pc = "seek"])
      BY <1>1, <1>5, <2>1, Zenon DEF Read
    <3> QED
      BY <3>1, Zenon
  <2>2. e.os = d.os
    BY <1>2, <2>3 DEF DecFields
  <2> QED
    BY <1>1, <1>3, <2>2, <2>3, Zenon
<1>6. CASE SeekMore(t)
  <2>1. PICK e : Put(t, e) /\ e = [d EXCEPT !.oy = HeaderRead(@), !.pc = "read"]
    BY <1>1, <1>6 DEF SeekMore
  <2>2. e.os = d.os
    BY <1>2, <2>1 DEF DecFields
  <2> QED
    BY <1>1, <1>3, <2>1, <2>2, Zenon
<1>7. CASE SeekLost(t)
  <2>1. PICK e : Put(t, e) /\ e = [d EXCEPT !.oy = [AfterLost(@) EXCEPT !.unsynced = TRUE],
                                            !.pc = IF d.oy.unsynced THEN "seek" ELSE "read"]
    BY <1>1, <1>7 DEF SeekLost
  <2>2. e.os = d.os
    BY <1>2, <2>1 DEF DecFields
  <2> QED
    BY <1>1, <1>3, <2>1, <2>2, Zenon
<1> QED
  BY <1>4, <1>5, <1>6, <1>7

\* Steps of the inner loop take a packet or a gap, or find nothing.
LEMMA InnerSteps ==
    ASSUME SupplyInv, NEW t \in Tasks,
           NoPacket(t) \/ NotStream(t) \/ Header(t) \/ Tags(t) \/ Audio(t)
    PROVE  \E e : /\ Put(t, e) /\ lacing' = lacing /\ overrun' = overrun
                  /\ \/ e.os = dec[t].os
                     \/ /\ Ogg!HasPacket(dec[t].os)
                        /\ \/ e.os = Ogg!AfterHole(dec[t].os)
                           \/ e.os = Ogg!AfterPacket(dec[t].os, lacing)
<1>1. PICK d, k : d = dec[t] /\ k = Taken(t)
  OBVIOUS
<1>2. DOMAIN d = DecFields
  BY <1>1, SupplyTask, Zenon
<1>3. lacing' = lacing /\ overrun' = overrun
  BY DEF NoPacket, NotStream, Header, Tags, Audio
<1>4. CASE NoPacket(t)
  <2>1. PICK e : /\ Put(t, e)
                 /\ \/ e = [d EXCEPT !.pc = "seek"]
                    \/ /\ e = [d EXCEPT !.os = Ogg!AfterHole(@), !.pc = "seek"]
                       /\ Ogg!HasPacket(d.os)
    BY <1>1, <1>4 DEF NoPacket, Ogg!AtHole
  <2>2. e.os = d.os \/ (e.os = Ogg!AfterHole(d.os) /\ Ogg!HasPacket(d.os))
    BY <1>2, <2>1 DEF DecFields
  <2> QED
    BY <1>1, <1>3, <2>1, <2>2, Zenon
<1>5. CASE NotStream(t) \/ Header(t) \/ Tags(t) \/ Audio(t)
  <2>1. DOMAIN k = DecFields /\ k.os = Ogg!AfterPacket(d.os, lacing)
    <3>1. PICK e : e = [d EXCEPT !.os = Ogg!AfterPacket(@, lacing)]
      OBVIOUS
    <3>2. DOMAIN e = DecFields /\ e.os = Ogg!AfterPacket(d.os, lacing)
      BY <1>2, <3>1 DEF DecFields
    <3>3. k = e \/ k = Restarted(e)
      BY <1>1, <3>1, Zenon DEF Taken
    <3>4. DOMAIN Restarted(e) = DecFields /\ Restarted(e).os = e.os
      BY <3>2 DEF Restarted, DecFields
    <3> QED
      BY <3>2, <3>3, <3>4, Zenon
  <2>2. Ogg!HasPacket(d.os)
    BY <1>1, <1>5 DEF NotStream, Header, Tags, Audio, HasOp
  <2>3. \E e : Put(t, e) /\ e.os = k.os
    <3>1. CASE NotStream(t)
      <4>1. PICK e : Put(t, e) /\ e = [k EXCEPT !.pc = "seek"]
        BY <1>1, <3>1 DEF NotStream
      <4>2. e.os = k.os
        BY <2>1, <4>1 DEF DecFields
      <4> QED
        BY <4>1, <4>2
    <3>2. CASE Header(t)
      <4>1. PICK h, e : /\ Put(t, e)
                        /\ \/ e = [k EXCEPT !.header = h, !.st = h, !.packet_count = 1]
                           \/ e = [k EXCEPT !.header = h, !.st = None, !.state = "SYNC_PAGEOUT",
                                            !.pc = "out"]
        BY <1>1, <3>2, Zenon DEF Header
      <4>2. e.os = k.os
        BY <2>1, <4>1 DEF DecFields
      <4> QED
        BY <4>1, <4>2
    <3>3. CASE Tags(t)
      <4>1. PICK e : Put(t, e) /\ e = [k EXCEPT !.has_tags_packet = TRUE, !.packet_count = 2]
        BY <1>1, <3>3 DEF Tags
      <4>2. e.os = k.os
        BY <2>1, <4>1 DEF DecFields
      <4> QED
        BY <4>1, <4>2
    <3>4. CASE Audio(t)
      <4>1. PICK e : Put(t, e) /\ e = [k EXCEPT !.state = "SYNC_PACKET", !.pc = "out"]
        BY <1>1, <3>4 DEF Audio
      <4>2. e.os = k.os
        BY <2>1, <4>1 DEF DecFields
      <4> QED
        BY <4>1, <4>2
    <3> QED
      BY <1>5, <3>1, <3>2, <3>3, <3>4
  <2> QED
    BY <1>1, <1>3, <2>1, <2>2, <2>3, Zenon
<1> QED
  BY <1>4, <1>5

\* A page that is taken out of the buffer has a segment table.
LEMMA TableOfPage ==
    ASSUME NEW oy, NEW q, NEW ps, Sync(oy, q, ps), Whole(oy)
    PROVE  Len(CapturedPage(oy).segs) \in Nat
<1> DEFINE r == HeaderRead(oy)
<1>1. r.data = oy.data /\ r.returned = oy.returned /\ Looked(r)
  BY HeaderReadIs, Zenon
<1>2. r.headerbytes # 0
  BY DEF Whole
<1> HIDE DEF r
<1>3. AtCapture(r) /\ Waiting(r) >= HeadLen
  BY <1>1, <1>2 DEF Looked
<1>4. AtCapture(oy) /\ Waiting(oy) >= HeadLen
  BY <1>1, <1>3, Zenon DEF AtCapture, Waiting
<1> QED
  BY <1>4, PageAtHand, Zenon

\* A page read into a stream that was there, is opened, or starts afresh.
LEMMA PageKeepsOrder ==
    ASSUME NEW x, Tasks = {x}, SupplyInv, LacingInv, NEW t \in Tasks, SeekPage(t)
    PROVE  LacingInv'
<1>1. PICK d, page : d = dec[t] /\ page = CapturedPage(d.oy)
  OBVIOUS
<1>2. DOMAIN d = DecFields /\ TaskInv(d, wire[t], pages[t], junk + failures)
  BY <1>1, SupplyTask, Zenon
<1>3. PICK s, v :
        /\ Opened(t, page, s, v) /\ Whole(d.oy)
        /\ LET in == Ogg!PageIn(Switched(s, page), v, page)
           IN /\ Put(t, [d EXCEPT !.oy = AfterPage(@), !.os = in.os,
                                  !.stream_init = TRUE, !.pc = "packet"])
              /\ lacing' = in.lv
              /\ overrun' = (overrun \/ Overruns(in.os))
  BY <1>1, Zenon DEF SeekPage
<1>4. PICK in : in = Ogg!PageIn(Switched(s, page), v, page)
  OBVIOUS
<1>5. PICK e : /\ Put(t, e)
               /\ e = [d EXCEPT !.oy = AfterPage(@), !.os = in.os,
                                !.stream_init = TRUE, !.pc = "packet"]
               /\ lacing' = in.lv
               /\ overrun' = (overrun \/ Overruns(in.os))
  BY <1>3, <1>4, Zenon
<1>6. e.os = in.os
  BY <1>2, <1>5 DEF DecFields
<1>7. CASE overrun
  BY <1>5, <1>7, OneTask, Zenon
<1>8. CASE ~ overrun
  <2>1. Kept(s, v)
    <3>1. CASE dec[t].stream_init
      <4>1. s = dec[t].os /\ v = lacing
        BY <1>3, <3>1 DEF Opened
      <4> QED
        BY <1>8, <4>1, Zenon DEF LacingInv
    <3>2. CASE ~ dec[t].stream_init
      <4>1. s = Ogg!NewStream(page.serialno) \/ s = Ogg!ClearedStream
        BY <1>3, <3>2 DEF Opened
      <4>2. Ranked(s, v) /\ s.lacing_fill = 0
        BY <4>1, NewIsRanked, Zenon
      <4>3. 0 <= LacingStorage
        BY SlotsAre
      <4> QED
        BY <4>2, <4>3, Zenon DEF Kept
    <3> QED
      BY <3>1, <3>2
  <2>2. PICK z : z = Switched(s, page)
    OBVIOUS
  <2>3. Kept(z, v)
    BY <2>1, <2>2, ResetIsRanked, Zenon DEF Kept, Switched
  <2>4. Len(page.segs) \in Nat
    <3>1. Build # "x86"
      BY <1>2, <1>3, DryStays, Zenon
    <3>2. Sync(d.oy, wire[t], pages[t])
      BY <1>2, <3>1, Zenon DEF TaskInv, Supplied
    <3> QED
      BY <1>1, <1>3, <3>2, TableOfPage, Zenon
  <2>5. Ranked(in.os, in.lv)
    BY <1>4, <2>2, <2>3, <2>4, PageInIsRanked, Zenon DEF Kept
  <2>6. in.os.lacing_fill > LacingStorage \/ in.os.lacing_fill <= LacingStorage
    BY <2>5, SlotsAre DEF Ranked
  <2>7. overrun' \/ Kept(e.os, lacing')
    BY <1>5, <1>6, <2>5, <2>6, Zenon DEF Kept, Overruns
  <2> QED
    BY <1>5, <2>7, OneTask, Zenon
<1> QED
  BY <1>7, <1>8

LEMMA LacingNext ==
    ASSUME NEW x, Tasks = {x}, SupplyInv, LacingInv, [Next]_vars PROVE LacingInv'
<1>1. CASE UNCHANGED vars
  BY <1>1, Zenon DEF vars, LacingInv
<1>2. ASSUME NEW t \in Tasks, Host(t) PROVE LacingInv'
  <2>1. dec' = dec /\ lacing' = lacing /\ overrun' = overrun
    BY <1>2 DEF Host, HostPacket, HostPage, HostJunk, DspVars
  <2> QED
    BY <2>1, Zenon DEF LacingInv
<1>3. ASSUME NEW t \in Tasks, Dsp(t) PROVE LacingInv'
  <2>1. CASE SeekPage(t)
    BY <2>1, PageKeepsOrder, Zenon
  <2>2. CASE Decode(t) \/ Read(t) \/ SeekMore(t) \/ SeekLost(t)
    BY <2>2, OuterSteps, StreamSteps, Zenon
  <2>3. CASE NoPacket(t) \/ NotStream(t) \/ Header(t) \/ Tags(t) \/ Audio(t)
    BY <2>3, InnerSteps, StreamSteps, Zenon
  <2> QED
    BY <1>3, <2>1, <2>2, <2>3, Zenon DEF Dsp
<1> QED
  BY <1>1, <1>2, <1>3, Zenon DEF Next

LEMMA LacingInit == Init => LacingInv
<1> SUFFICES ASSUME Init, NEW t \in Tasks PROVE Kept(dec[t].os, lacing)
  BY Zenon DEF LacingInv
<1>1. dec[t] = NewDec
  BY DEF Init
<1>2. dec[t].os = Ogg!ClearedStream
  BY <1>1 DEF NewDec
<1>3. Ranked(dec[t].os, lacing) /\ dec[t].os.lacing_fill = 0
  BY <1>2, NewIsRanked, Zenon
<1>4. 0 <= LacingStorage
  BY SlotsAre
<1> QED
  BY <1>3, <1>4, Zenon DEF Kept

LEMMA LacingOrdered == LacingInv => LacingInOrder
<1> SUFFICES ASSUME LacingInv, NEW t \in Tasks, ~ overrun
             PROVE  LET os == dec[t].os
                    IN  /\ 0 <= os.lacing_returned
                        /\ os.lacing_returned <= os.lacing_packet
                        /\ os.lacing_packet <= os.lacing_fill
                        /\ os.lacing_packet > 0 => lacing[os.lacing_packet - 1].val < MaxSeg
  BY Zenon DEF LacingInOrder
<1>1. PICK os : os = dec[t].os
  OBVIOUS
<1>2. Ranked(os, lacing) /\ os.lacing_fill <= LacingStorage
  BY <1>1, Zenon DEF LacingInv, Kept
<1>3. 0 <= os.lacing_returned
  BY <1>2 DEF Ranked
<1> QED
  BY <1>1, <1>2, <1>3, Zenon DEF Ranked

\* The lacing table of one task is always in order: the search for the end of a
\* packet never leaves the whole packets, whatever pages were lost or reordered.
THEOREM LacingIsInOrder ==
    ASSUME NEW x, Tasks = {x} PROVE Spec => []LacingInOrder
<1>1. Init => SupplyInv /\ LacingInv
  BY SupplyInit, LacingInit
<1>2. SupplyInv /\ LacingInv /\ [Next]_vars => (SupplyInv /\ LacingInv)'
  BY SupplyNext, LacingNext
<1>3. SupplyInv /\ LacingInv => LacingInOrder
  BY LacingOrdered
<1> QED
  BY <1>1, <1>2, <1>3, PTL DEF Spec

-----------------------------------------------------------------------------
(* The decoder is there when a packet is decoded                           *)

\* A packet was counted since the header only if a decoder was made for that, and
\* a call that goes on behind a packet counts it.
Counted(d) ==
    /\ d.packet_count \in Nat
    /\ d.packet_count >= 1 => d.st # None

Made(d, r) ==
    /\ Counted(d)
    /\ d.pc = "out" /\ d.state = "SYNC_PACKET" => d.packet_count >= 1
    /\ IsSeq(r) /\ \A n \in 1 .. Len(r) : r[n].st # None

MadeInv == DOMAIN decoded = Tasks /\ \A t \in Tasks : Made(dec[t], decoded[t])

LEMMA MadeSteps ==
    ASSUME SupplyInv, MadeInv, NEW t \in Tasks, NEW e, Put(t, e),
           NEW r, Only(decoded, decoded', t, r), Made(e, r)
    PROVE  MadeInv'
<1>1. t \in DOMAIN dec /\ DOMAIN dec = Tasks
  BY DEF SupplyInv
<1>2. Only(dec, dec', t, e)
  BY <1>1, OnlyExcept, Zenon DEF Put
<1>3. DOMAIN decoded' = Tasks
  BY Zenon DEF Only, MadeInv
<1>4. ASSUME NEW u \in Tasks PROVE Made(dec'[u], decoded'[u])
  <2>1. CASE u = t
    BY <1>2, <2>1, Zenon DEF Only
  <2>2. CASE u # t
    <3>1. dec'[u] = dec[u] /\ decoded'[u] = decoded[u]
      BY <1>1, <1>2, <2>2, Zenon DEF Only, MadeInv
    <3> QED
      BY <3>1, Zenon DEF MadeInv
  <2> QED
    BY <2>1, <2>2
<1> QED
  BY <1>3, <1>4, Zenon DEF MadeInv

\* A step that neither counts nor decodes.
LEMMA QuietMade ==
    ASSUME SupplyInv, MadeInv, NEW t \in Tasks, NEW e, Put(t, e), decoded' = decoded,
           Counted(e), e.pc = "out" /\ e.state = "SYNC_PACKET" => e.packet_count >= 1
    PROVE  MadeInv'
<1>1. Only(decoded, decoded', t, decoded[t])
  BY OnlySame, Zenon
<1>2. Made(e, decoded[t])
  BY Zenon DEF MadeInv, Made
<1> QED
  BY <1>1, <1>2, MadeSteps, Zenon

LEMMA DecodeMade ==
    ASSUME SupplyInv, MadeInv, NEW t \in Tasks, Decode(t) PROVE MadeInv'
<1>1. PICK d : d = dec[t]
  OBVIOUS
<1>2. DOMAIN d = DecFields /\ Counted(d) /\ d.pc = "out"
      /\ (d.state = "SYNC_PACKET" => d.packet_count >= 1)
  BY <1>1, SupplyTask, Zenon DEF MadeInv, Made, Decode, Idle
<1>3. decoded' = decoded
  BY DEF Decode
<1>4. PICK e : /\ Put(t, e)
               /\ \/ /\ d.state = "SYNC_PACKET"
                     /\ e = [d EXCEPT !.pc = "packet", !.packet_count = @ + 1]
                  \/ e = [d EXCEPT !.pc = "read"]
  BY <1>1 DEF Decode
<1>5. CASE d.state = "SYNC_PACKET" /\ e = [d EXCEPT !.pc = "packet", !.packet_count = @ + 1]
  <2>1. e.pc = "packet" /\ e.packet_count = d.packet_count + 1 /\ e.st = d.st
    BY <1>2, <1>5 DEF DecFields
  <2>2. Counted(e)
    BY <1>2, <1>5, <2>1 DEF Counted
  <2>3. ~ (e.pc = "out" /\ e.state = "SYNC_PACKET")
    BY <2>1
  <2> QED
    BY <1>3, <1>4, <2>2, <2>3, QuietMade, Zenon
<1>6. CASE e = [d EXCEPT !.pc = "read"]
  <2>1. e.pc = "read" /\ e.packet_count = d.packet_count /\ e.st = d.st
    BY <1>2, <1>6 DEF DecFields
  <2>2. Counted(e)
    BY <1>2, <2>1, Zenon DEF Counted
  <2>3. ~ (e.pc = "out" /\ e.state = "SYNC_PACKET")
    BY <2>1
  <2> QED
    BY <1>3, <1>4, <2>2, <2>3, QuietMade, Zenon
<1> QED
  BY <1>4, <1>5, <1>6

LEMMA SeekMade ==
    ASSUME SupplyInv, MadeInv, NEW t \in Tasks,
           Read(t) \/ SeekMore(t) \/ SeekLost(t) \/ SeekPage(t) \/ NoPacket(t)
    PROVE  MadeInv'
<1>1. PICK d : d = dec[t]
  OBVIOUS
<1>2. DOMAIN d = DecFields /\ Counted(d)
  BY <1>1, SupplyTask, Zenon DEF MadeInv, Made
<1>3. decoded' = decoded
  BY DEF Read, SeekMore, SeekLost, SeekPage, NoPacket
<1>4. ASSUME NEW e, DOMAIN e = DecFields, e.packet_count = d.packet_count, e.st = d.st,
             e.pc # "out" \/ e.state # "SYNC_PACKET", Put(t, e)
      PROVE  MadeInv'
  <2>1. Counted(e)
    BY <1>2, <1>4, Zenon DEF Counted
  <2> QED
    BY <1>3, <1>4, <2>1, QuietMade, Zenon
<1>5. CASE Read(t)
  <2>1. PICK s, n : s = Shifted(d.oy) /\ n = Min({Chunk, Len(wire[t])})
    OBVIOUS
  <2>2. PICK e : /\ Put(t, e)
                 /\ \/ e = [d EXCEPT !.oy = s, !.pc = "seek"]
                    \/ e = [d EXCEPT !.oy = s, !.state = "READ_DATA", !.pc = "out"]
                    \/ e = [d EXCEPT !.oy = Filled(s, SubSeq(wire[t], 1, n)), !.pc = "seek"]
    <3>1. \/ Put(t, [d EXCEPT !.oy = s, !.pc = "seek"])
          \/ Put(t, [d EXCEPT !.oy = s, !.state = "READ_DATA", !.pc = "out"])
          \/ Put(t, [d EXCEPT !.oy = Filled(s, SubSeq(wire[t], 1, n)), !.pc = "seek"])
      BY <1>1, <1>5, <2>1, Zenon DEF Read
    <3> QED
      BY <3>1, Zenon
  <2>3. /\ DOMAIN e = DecFields /\ e.packet_count = d.packet_count /\ e.st = d.st
        /\ e.pc # "out" \/ e.state # "SYNC_PACKET"
    BY <1>2, <2>2 DEF DecFields
  <2> QED
    BY <1>4, <2>2, <2>3
<1>6. CASE SeekMore(t)
  <2>1. PICK e : Put(t, e) /\ e = [d EXCEPT !.oy = HeaderRead(@), !.pc = "read"]
    BY <1>1, <1>6 DEF SeekMore
  <2>2. DOMAIN e = DecFields /\ e.packet_count = d.packet_count /\ e.st = d.st /\ e.pc # "out"
    BY <1>2, <2>1 DEF DecFields
  <2> QED
    BY <1>4, <2>1, <2>2
<1>7. CASE SeekLost(t)
  <2>1. PICK e : Put(t, e) /\ e = [d EXCEPT !.oy = [AfterLost(@) EXCEPT !.unsynced = TRUE],
                                            !.pc = IF d.oy.unsynced THEN "seek" ELSE "read"]
    BY <1>1, <1>7 DEF SeekLost
  <2>2. DOMAIN e = DecFields /\ e.packet_count = d.packet_count /\ e.st = d.st /\ e.pc # "out"
    BY <1>2, <2>1 DEF DecFields
  <2> QED
    BY <1>4, <2>1, <2>2
<1>8. CASE SeekPage(t)
  <2>1. PICK e, os : /\ Put(t, e)
                     /\ e = [d EXCEPT !.oy = AfterPage(@), !.os = os,
                                      !.stream_init = TRUE, !.pc = "packet"]
    BY <1>1, <1>8, Zenon DEF SeekPage
  <2>2. DOMAIN e = DecFields /\ e.packet_count = d.packet_count /\ e.st = d.st /\ e.pc # "out"
    BY <1>2, <2>1 DEF DecFields
  <2> QED
    BY <1>4, <2>1, <2>2
<1>9. CASE NoPacket(t)
  <2>1. PICK e : /\ Put(t, e)
                 /\ \/ e = [d EXCEPT !.pc = "seek"]
                    \/ e = [d EXCEPT !.os = Ogg!AfterHole(@), !.pc = "seek"]
    BY <1>1, <1>9 DEF NoPacket
  <2>2. DOMAIN e = DecFields /\ e.packet_count = d.packet_count /\ e.st = d.st /\ e.pc # "out"
    BY <1>2, <2>1 DEF DecFields
  <2> QED
    BY <1>4, <2>1, <2>2
<1> QED
  BY <1>5, <1>6, <1>7, <1>8, <1>9

\* A header heeded starts the count again when it ends a stream.
LEMMA TakenMade ==
    ASSUME NEW t, DOMAIN dec[t] = DecFields, Counted(dec[t])
    PROVE  DOMAIN Taken(t) = DecFields /\ Counted(Taken(t)) /\ Taken(t).pc = dec[t].pc
<1>1. PICK d : d = dec[t]
  OBVIOUS
<1>2. PICK e : e = [d EXCEPT !.os = Ogg!AfterPacket(@, lacing)]
  OBVIOUS
<1>3. DOMAIN e = DecFields /\ e.packet_count = d.packet_count /\ e.st = d.st /\ e.pc = d.pc
  BY <1>1, <1>2 DEF DecFields
<1>4. Counted(e)
  BY <1>1, <1>3, Zenon DEF Counted
<1>5. Taken(t) = e \/ Taken(t) = Restarted(e)
  BY <1>1, <1>2, Zenon DEF Taken
<1>6. PICK k : k = Restarted(e)
  OBVIOUS
<1>7. /\ DOMAIN k = DecFields /\ k.pc = e.pc
      /\ k.packet_count = 0 \/ (k.packet_count = e.packet_count /\ k.st = e.st)
  BY <1>3, <1>6 DEF Restarted, DecFields
<1>8. Counted(k)
  BY <1>4, <1>7 DEF Counted
<1> QED
  BY <1>1, <1>3, <1>4, <1>5, <1>6, <1>7, <1>8, Zenon

LEMMA PacketMade ==
    ASSUME SupplyInv, MadeInv, NEW t \in Tasks,
           NotStream(t) \/ Header(t) \/ Tags(t) \/ Audio(t)
    PROVE  MadeInv'
<1>1. PICK k : k = Taken(t)
  OBVIOUS
<1>2. DOMAIN k = DecFields /\ Counted(k) /\ k.pc = "packet"
  <2>1. DOMAIN dec[t] = DecFields /\ Counted(dec[t])
    BY SupplyTask, Zenon DEF MadeInv, Made
  <2>2. dec[t].pc = "packet"
    BY DEF NotStream, Header, Tags, Audio, HasOp, At
  <2> QED
    BY <1>1, <2>1, <2>2, TakenMade, Zenon
<1>3. CASE NotStream(t)
  <2>1. PICK e : Put(t, e) /\ e = [k EXCEPT !.pc = "seek"] /\ decoded' = decoded
    BY <1>1, <1>3 DEF NotStream
  <2>2. e.packet_count = k.packet_count /\ e.st = k.st /\ e.pc = "seek"
    BY <1>2, <2>1 DEF DecFields
  <2>3. Counted(e)
    BY <1>2, <2>2, Zenon DEF Counted
  <2>4. ~ (e.pc = "out" /\ e.state = "SYNC_PACKET")
    BY <2>2
  <2> QED
    BY <2>1, <2>3, <2>4, QuietMade, Zenon
<1>4. CASE Header(t)
  <2>1. PICK h, e :
          /\ Put(t, e) /\ decoded' = decoded /\ k.packet_count = 0
          /\ \/ h # None /\ e = [k EXCEPT !.header = h, !.st = h, !.packet_count = 1]
             \/ e = [k EXCEPT !.header = h, !.st = None, !.state = "SYNC_PAGEOUT", !.pc = "out"]
    BY <1>1, <1>4, Zenon DEF Header
  <2>2. CASE h # None /\ e = [k EXCEPT !.header = h, !.st = h, !.packet_count = 1]
    <3>1. e.packet_count = 1 /\ e.st = h /\ e.pc = "packet"
      BY <1>2, <2>2 DEF DecFields
    <3>2. Counted(e)
      BY <2>2, <3>1 DEF Counted
    <3>3. ~ (e.pc = "out" /\ e.state = "SYNC_PACKET")
      BY <3>1
    <3> QED
      BY <2>1, <3>2, <3>3, QuietMade, Zenon
  <2>3. CASE e = [k EXCEPT !.header = h, !.st = None, !.state = "SYNC_PAGEOUT", !.pc = "out"]
    <3>1. e.packet_count = 0 /\ e.state = "SYNC_PAGEOUT"
      BY <1>2, <2>1, <2>3 DEF DecFields
    <3>2. Counted(e)
      BY <3>1 DEF Counted
    <3>3. ~ (e.pc = "out" /\ e.state = "SYNC_PACKET")
      BY <3>1
    <3> QED
      BY <2>1, <3>2, <3>3, QuietMade, Zenon
  <2> QED
    BY <2>1, <2>2, <2>3
<1>5. CASE Tags(t)
  <2>1. PICK e : /\ Put(t, e) /\ decoded' = decoded /\ k.packet_count = 1
                 /\ e = [k EXCEPT !.has_tags_packet = TRUE, !.packet_count = 2]
    BY <1>1, <1>5 DEF Tags
  <2>2. e.packet_count = 2 /\ e.st = k.st /\ e.pc = "packet" /\ k.st # None
    BY <1>2, <2>1 DEF DecFields, Counted
  <2>3. Counted(e)
    BY <2>2 DEF Counted
  <2>4. ~ (e.pc = "out" /\ e.state = "SYNC_PACKET")
    BY <2>2
  <2> QED
    BY <2>1, <2>3, <2>4, QuietMade, Zenon
<1>6. CASE Audio(t)
  <2>1. PICK e, op, s, w :
          /\ Put(t, e) /\ k.packet_count > 1
          /\ e = [k EXCEPT !.state = "SYNC_PACKET", !.pc = "out"]
          /\ decoded' = [decoded EXCEPT ![t] =
                Append(@, [op |-> op, st |-> k.st, out |-> s, told |-> w])]
    BY <1>1, <1>6, Zenon DEF Audio
  <2>2. e.packet_count = k.packet_count /\ e.st = k.st
    BY <1>2, <2>1 DEF DecFields
  <2>3. Counted(e) /\ e.packet_count >= 1 /\ k.st # None
    BY <1>2, <2>1, <2>2 DEF Counted
  <2>4. PICK r : r = Append(decoded[t], [op |-> op, st |-> k.st, out |-> s, told |-> w])
    OBVIOUS
  <2>5. t \in DOMAIN decoded /\ IsSeq(decoded[t])
        /\ \A n \in 1 .. Len(decoded[t]) : decoded[t][n].st # None
    BY Zenon DEF MadeInv, Made
  <2>6. Only(decoded, decoded', t, r)
    <3>1. decoded' = [decoded EXCEPT ![t] = r]
      BY <2>1, <2>4, <2>5
    <3> QED
      BY <2>5, <3>1, OnlyExcept, Zenon
  <2>7. IsSeq(r) /\ \A n \in 1 .. Len(r) : r[n].st # None
    <3>1. PICK T : decoded[t] \in Seq(T)
      BY <2>5 DEF IsSeq
    <3>2. PICK x : x = [op |-> op, st |-> k.st, out |-> s, told |-> w]
      OBVIOUS
    <3>3. x.st # None
      BY <2>3, <3>2
    <3>4. PICK z \in Seq(T \cup {x}) : z = decoded[t]
      BY <3>1
    <3>5. r = Append(z, x) /\ r \in Seq(T \cup {x})
      BY <2>4, <3>2, <3>4
    <3>6. ASSUME NEW n \in 1 .. Len(r) PROVE r[n].st # None
      <4>1. Len(r) = Len(z) + 1 /\ (n \in 1 .. Len(z) \/ n = Len(z) + 1)
        BY <3>5
      <4>2. r[n] = IF n \in 1 .. Len(z) THEN z[n] ELSE x
        BY <3>5, <4>1
      <4> QED
        BY <2>5, <3>3, <3>4, <4>1, <4>2, Zenon
    <3> QED
      BY <3>5, <3>6, Zenon DEF IsSeq
  <2>8. Made(e, r)
    BY <2>3, <2>7, Zenon DEF Made
  <2> QED
    BY <2>1, <2>6, <2>8, MadeSteps, Zenon
<1> QED
  BY <1>3, <1>4, <1>5, <1>6

LEMMA MadeNext == SupplyInv /\ MadeInv /\ [Next]_vars => MadeInv'
<1> SUFFICES ASSUME SupplyInv, MadeInv, [Next]_vars PROVE MadeInv'
  OBVIOUS
<1>1. CASE UNCHANGED vars
  BY <1>1, Zenon DEF vars, MadeInv
<1>2. ASSUME NEW t \in Tasks, Host(t) PROVE MadeInv'
  <2>1. dec' = dec /\ decoded' = decoded
    BY <1>2 DEF Host, HostPacket, HostPage, HostJunk, DspVars
  <2> QED
    BY <2>1, Zenon DEF MadeInv
<1>3. ASSUME NEW t \in Tasks, Dsp(t) PROVE MadeInv'
  BY <1>3, DecodeMade, SeekMade, PacketMade, Zenon DEF Dsp
<1> QED
  BY <1>1, <1>2, <1>3, Zenon DEF Next

LEMMA MadeInit == Init => MadeInv
<1> SUFFICES ASSUME Init PROVE MadeInv
  OBVIOUS
<1>1. DOMAIN decoded = Tasks
  BY DEF Init
<1>2. ASSUME NEW t \in Tasks PROVE Made(dec[t], decoded[t])
  <2>1. dec[t] = NewDec /\ decoded[t] = <<>>
    BY DEF Init
  <2>2. PICK d : d = NewDec
    OBVIOUS
  <2>3. d.packet_count = 0 /\ d.state = "READ_DATA"
    BY <2>2 DEF NewDec
  <2>4. Counted(d) /\ d.state # "SYNC_PACKET"
    BY <2>3 DEF Counted
  <2>5. IsSeq(<<>>) /\ \A n \in 1 .. Len(<<>>) : FALSE
    <3>1. <<>> \in Seq({}) /\ Len(<<>>) = 0
      OBVIOUS
    <3> QED
      BY <3>1 DEF IsSeq
  <2> QED
    BY <2>1, <2>2, <2>4, <2>5, Zenon DEF Made
<1> QED
  BY <1>1, <1>2, Zenon DEF MadeInv

\* opus_multistream_decode is never called without a decoder, with any number of
\* tasks, whatever was lost and whichever header or decoder could not be had.
THEOREM DecoderIsThere == Spec => []DecoderThere
<1>1. Init => SupplyInv /\ MadeInv
  BY SupplyInit, MadeInit
<1>2. SupplyInv /\ MadeInv /\ [Next]_vars => (SupplyInv /\ MadeInv)'
  BY SupplyNext, MadeNext
<1>3. MadeInv => DecoderThere
  BY Zenon DEF MadeInv, Made, DecoderThere
<1> QED
  BY <1>1, <1>2, <1>3, PTL DEF Spec
=============================================================================
