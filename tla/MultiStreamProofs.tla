------------------------- MODULE MultiStreamProofs -------------------------
(***************************************************************************)
(* Proofs about Repacketizer and MultiStream, for packets of any length    *)
(* and content and any number of channels and streams: what parsing        *)
(* returns lies in the packet, what is collected stays within 120 ms, what *)
(* is written has room, a header is read back, every channel of a layout   *)
(* is decoded once, and an encoder's packets fit its budget.  The library's*)
(* induction theorems take a predicate, which no prover here instantiates; *)
(* induction is done over sets instead, from the well-foundedness of the   *)
(* subsets of a finite set.                                                *)
(***************************************************************************)
EXTENDS MultiStream, FiniteSetTheorems, TLAPS

-----------------------------------------------------------------------------
(* Induction.  The library's induction theorems take a predicate; these take *)
(* the set of the numbers it holds for.                                      *)

\* Every set of numbers has a smallest one.
LEMMA SmallestNumber ==
    ASSUME NEW T \in SUBSET Nat, T # {}
    PROVE  \E x \in T : \A y \in T : x <= y
<1>1. PICK t \in T : TRUE
  OBVIOUS
<1> DEFINE S == 0 .. t
           U == {0 .. x : x \in T \cap S}
<1>2. IsFiniteSet(S)
  BY <1>1, FS_Interval
<1>3. IsWellFoundedOn(StrictSubsetOrdering(S), SUBSET S)
  BY <1>2, FS_StrictSubsetOrderingWellFounded, FS_FiniteSubsetsOfFinite
<1>4. U \subseteq SUBSET S /\ U # {}
  BY <1>1
<1>5. PICK m \in U : \A u \in U : ~ (<<u, m>> \in StrictSubsetOrdering(S))
  <2> HIDE DEF S, U
  <2> QED
    BY <1>3, <1>4, WFMin
<1>6. PICK x \in T \cap S : m = 0 .. x
  BY <1>5
<1>7. ASSUME NEW y \in T PROVE x <= y
  <2> SUFFICES ASSUME y < x PROVE FALSE
    BY <1>6
  <2>1. y \in T \cap S /\ 0 .. y \subseteq 0 .. x /\ x \in 0 .. x /\ x \notin 0 .. y
    BY <1>6
  <2>2. 0 .. y \in U /\ 0 .. y \in SUBSET S /\ 0 .. x \in SUBSET S /\ 0 .. y # 0 .. x
    BY <1>1, <1>6, <2>1
  <2>3. <<0 .. y, m>> \in StrictSubsetOrdering(S)
    BY <1>6, <2>1, <2>2 DEF StrictSubsetOrdering
  <2> QED
    BY <1>5, <2>2, <2>3
<1> QED
  BY <1>6, <1>7

LEMMA Induction ==
    ASSUME NEW P, 0 \in P, \A n \in Nat : n \in P => n + 1 \in P
    PROVE  \A n \in Nat : n \in P
<1> SUFFICES ASSUME Nat \ P # {} PROVE FALSE
  OBVIOUS
<1>1. PICK x \in Nat \ P : \A y \in Nat \ P : x <= y
  BY SmallestNumber
<1>2. x # 0 /\ x - 1 \in Nat
  BY <1>1
<1>3. x - 1 \in P
  BY <1>1, <1>2
<1> QED
  BY <1>1, <1>2, <1>3

\* Up to n only.
LEMMA InductionTo ==
    ASSUME NEW n \in Nat, NEW P, 0 \in P, \A i \in 0 .. n - 1 : i \in P => i + 1 \in P
    PROVE  \A i \in 0 .. n : i \in P
<1> DEFINE Q == P \cup {i \in Nat : i > n}
<1>1. 0 \in Q
  OBVIOUS
<1>2. ASSUME NEW i \in Nat, i \in Q PROVE i + 1 \in Q
  BY <1>2
<1> HIDE DEF Q
<1>3. \A i \in Nat : i \in Q
  BY <1>1, <1>2, Induction
<1> QED
  BY <1>3 DEF Q

-----------------------------------------------------------------------------
(* Sums: the fold of the community modules adds up in any order            *)

Pick(t) == CHOOSE x \in t : TRUE

\* g is the sum of f over every part of S, as the fold computes it.
IsSum(f, S, g) ==
    g = [t \in SUBSET S |-> IF t = {} THEN 0 ELSE f[Pick(t)] + g[t \ {Pick(t)}]]

LEMMA SumIs ==
    ASSUME NEW f, NEW S
    PROVE  SumFunctionOnSet(f, S) = (CHOOSE g : IsSum(f, S, g))[S]
BY DEF SumFunctionOnSet, FoldFunctionOnSet, MapThenFoldSet, IsSum, Pick

\* There is just one such function for a finite set, and its values are the
\* sums over the parts.
SumsTo(f, S) ==
    /\ \A g : IsSum(f, S, g) => \A t \in SUBSET S : g[t] = SumFunctionOnSet(f, t)
    /\ IsSum(f, S, [t \in SUBSET S |-> SumFunctionOnSet(f, t)])

LEMMA SumsToParts ==
    ASSUME NEW f, NEW S, \A s \in SUBSET S : s # S => SumsTo(f, s)
    PROVE  SumsTo(f, S)
<1> DEFINE Sum(t) == SumFunctionOnSet(f, t)
           H == [t \in SUBSET S |-> IF t # S THEN Sum(t)
                                    ELSE IF S = {} THEN 0
                                    ELSE f[Pick(S)] + Sum(S \ {Pick(S)})]
<1>1. ASSUME NEW t \in SUBSET S, t # {} PROVE Pick(t) \in t /\ t \ {Pick(t)} # t
  BY <1>1 DEF Pick
<1>2. ASSUME NEW g, IsSum(f, S, g), NEW t \in SUBSET S, t # S PROVE g[t] = Sum(t)
  <2> DEFINE k == [u \in SUBSET t |-> g[u]]
  <2>1. IsSum(f, t, k)
    <3>1. ASSUME NEW u \in SUBSET t
          PROVE  k[u] = IF u = {} THEN 0 ELSE f[Pick(u)] + k[u \ {Pick(u)}]
      BY <1>2 DEF IsSum
    <3>2. k = [u \in SUBSET t |-> IF u = {} THEN 0 ELSE f[Pick(u)] + k[u \ {Pick(u)}]]
      BY <3>1
    <3> QED
      BY <3>2 DEF IsSum
  <2>2. k[t] = Sum(t)
    <3> HIDE DEF k
    <3> QED
      BY <1>2, <2>1 DEF SumsTo
  <2> QED
    BY <2>2
<1>3. ASSUME NEW t \in SUBSET S, t # S
      PROVE  Sum(t) = IF t = {} THEN 0 ELSE f[Pick(t)] + Sum(t \ {Pick(t)})
  <2> DEFINE k == [u \in SUBSET t |-> Sum(u)]
  <2>1. IsSum(f, t, k)
    BY <1>3 DEF SumsTo
  <2>2. k[t] = IF t = {} THEN 0 ELSE f[Pick(t)] + k[t \ {Pick(t)}]
    BY <2>1 DEF IsSum
  <2> QED
    BY <2>2
<1>4. IsSum(f, S, H)
  <2>1. ASSUME NEW t \in SUBSET S
        PROVE  H[t] = IF t = {} THEN 0 ELSE f[Pick(t)] + H[t \ {Pick(t)}]
    <3>1. CASE t = {}
      BY <1>3, <3>1
    <3>2. CASE t # {}
      <4>1. t \ {Pick(t)} \in SUBSET S /\ t \ {Pick(t)} # S
        BY <1>1, <3>2
      <4>2. H[t \ {Pick(t)}] = Sum(t \ {Pick(t)})
        BY <4>1
      <4> QED
        BY <1>3, <3>2, <4>2
    <3> QED
      BY <3>1, <3>2
  <2> HIDE DEF H
  <2>2. H = [t \in SUBSET S |-> H[t]]
    BY DEF H
  <2>3. H = [t \in SUBSET S |-> IF t = {} THEN 0 ELSE f[Pick(t)] + H[t \ {Pick(t)}]]
    BY <2>1, <2>2
  <2> QED
    BY <2>3 DEF IsSum
<1>5. ASSUME NEW g, IsSum(f, S, g) PROVE g[S] = H[S]
  <2>1. CASE S = {}
    BY <1>5, <2>1 DEF IsSum
  <2>2. CASE S # {}
    <3>1. g[S \ {Pick(S)}] = Sum(S \ {Pick(S)})
      BY <1>1, <1>2, <1>5, <2>2
    <3>2. g[S] = f[Pick(S)] + g[S \ {Pick(S)}]
      BY <1>5, <2>2 DEF IsSum
    <3> QED
      BY <2>2, <3>1, <3>2
  <2> QED
    BY <2>1, <2>2
<1>6. Sum(S) = H[S]
  <2>1. IsSum(f, S, CHOOSE g : IsSum(f, S, g))
    BY <1>4
  <2> QED
    BY <1>5, <2>1, SumIs
<1>7. \A t \in SUBSET S : H[t] = Sum(t)
  BY <1>6
<1>8. H = [t \in SUBSET S |-> Sum(t)]
  <2> HIDE DEF H
  <2>1. H = [t \in SUBSET S |-> H[t]]
    BY DEF H
  <2> QED
    BY <1>7, <2>1
<1>9. ASSUME NEW g, IsSum(f, S, g), NEW t \in SUBSET S PROVE g[t] = Sum(t)
  BY <1>2, <1>5, <1>6, <1>9
<1> HIDE DEF H
<1> QED
  BY <1>4, <1>8, <1>9 DEF SumsTo

\* Induction over the parts of a finite set.
LEMMA SumsToAll ==
    ASSUME NEW f, NEW S, IsFiniteSet(S)
    PROVE  SumsTo(f, S)
<1> DEFINE Bad == {s \in SUBSET S : ~ SumsTo(f, s)}
<1> SUFFICES ASSUME Bad # {} PROVE FALSE
  OBVIOUS
<1>1. IsWellFoundedOn(StrictSubsetOrdering(S), SUBSET S)
  BY FS_StrictSubsetOrderingWellFounded, FS_FiniteSubsetsOfFinite
<1>2. PICK s \in Bad : \A t \in Bad : ~ (<<t, s>> \in StrictSubsetOrdering(S))
  <2>1. Bad \subseteq SUBSET S
    OBVIOUS
  <2> HIDE DEF Bad
  <2> QED
    BY <1>1, <2>1, WFMin
<1>3. ASSUME NEW t \in SUBSET s, t # s PROVE SumsTo(f, t)
  BY <1>2, <1>3 DEF StrictSubsetOrdering
<1> QED
  BY <1>2, <1>3, SumsToParts

LEMMA SumUnfolds ==
    ASSUME NEW f, NEW S, IsFiniteSet(S)
    PROVE  SumFunctionOnSet(f, S) =
              IF S = {} THEN 0 ELSE f[Pick(S)] + SumFunctionOnSet(f, S \ {Pick(S)})
<1> DEFINE k == [t \in SUBSET S |-> SumFunctionOnSet(f, t)]
<1>1. IsSum(f, S, k)
  BY SumsToAll DEF SumsTo
<1>2. k[S] = IF S = {} THEN 0 ELSE f[Pick(S)] + k[S \ {Pick(S)}]
  <2> HIDE DEF k
  <2> QED
    BY <1>1 DEF IsSum
<1>3. S # {} => Pick(S) \in S
  BY DEF Pick
<1> QED
  BY <1>2, <1>3

\* The sum of integers is one, and any element can be taken out of it.
TakesOut(f, S) ==
    /\ SumFunctionOnSet(f, S) \in Int
    /\ \A x \in S : SumFunctionOnSet(f, S) = f[x] + SumFunctionOnSet(f, S \ {x})

LEMMA TakesOutStep ==
    ASSUME NEW f, NEW S, IsFiniteSet(S), \A x \in S : f[x] \in Int,
           \A s \in SUBSET S : s # S => TakesOut(f, s)
    PROVE  TakesOut(f, S)
<1>1. CASE S = {}
  <2>1. SumFunctionOnSet(f, S) = 0
    BY <1>1, SumUnfolds
  <2> QED
    BY <1>1, <2>1 DEF TakesOut
<1>2. CASE S # {}
  <2> DEFINE c == Pick(S)
  <2>1. c \in S /\ S \ {c} \in SUBSET S /\ S \ {c} # S
    BY <1>2 DEF Pick
  <2> HIDE DEF c
  <2>2. SumFunctionOnSet(f, S) = f[c] + SumFunctionOnSet(f, S \ {c})
    BY <1>2, SumUnfolds DEF c
  <2>3. SumFunctionOnSet(f, S \ {c}) \in Int
    BY <2>1 DEF TakesOut
  <2>4. ASSUME NEW x \in S, x # c PROVE SumFunctionOnSet(f, S) = f[x] + SumFunctionOnSet(f, S \ {x})
    <3> DEFINE A == S \ {c}
               B == S \ {x}
               R == B \ {c}
    <3>1. /\ A \in SUBSET S /\ A # S /\ x \in A /\ A \ {x} = R
          /\ B \in SUBSET S /\ B # S /\ c \in B /\ B \ {c} = R
          /\ R \in SUBSET S /\ R # S
      BY <2>1, <2>4
    <3> HIDE DEF A, B, R
    <3>2. SumFunctionOnSet(f, A) = f[x] + SumFunctionOnSet(f, R)
      BY <3>1 DEF TakesOut
    <3>3. SumFunctionOnSet(f, B) = f[c] + SumFunctionOnSet(f, R)
      BY <3>1 DEF TakesOut
    <3>4. SumFunctionOnSet(f, R) \in Int /\ f[x] \in Int /\ f[c] \in Int
      BY <2>1, <3>1 DEF TakesOut
    <3>5. SumFunctionOnSet(f, S) = f[c] + SumFunctionOnSet(f, A)
      BY <2>2 DEF A
    <3>6. SumFunctionOnSet(f, S) = f[x] + SumFunctionOnSet(f, B)
      BY <3>2, <3>3, <3>4, <3>5
    <3> QED
      BY <3>6 DEF B
  <2>5. SumFunctionOnSet(f, S) \in Int
    BY <2>1, <2>2, <2>3
  <2>6. \A x \in S : SumFunctionOnSet(f, S) = f[x] + SumFunctionOnSet(f, S \ {x})
    BY <2>2, <2>4
  <2> QED
    BY <2>5, <2>6 DEF TakesOut
<1> QED
  BY <1>1, <1>2

LEMMA TakesOutAll ==
    ASSUME NEW f, NEW S, IsFiniteSet(S), \A x \in S : f[x] \in Int
    PROVE  TakesOut(f, S)
<1> DEFINE Bad == {s \in SUBSET S : ~ TakesOut(f, s)}
<1> SUFFICES ASSUME Bad # {} PROVE FALSE
  OBVIOUS
<1>1. IsWellFoundedOn(StrictSubsetOrdering(S), SUBSET S)
  BY FS_StrictSubsetOrderingWellFounded, FS_FiniteSubsetsOfFinite
<1>2. PICK s \in Bad : \A t \in Bad : ~ (<<t, s>> \in StrictSubsetOrdering(S))
  <2>1. Bad \subseteq SUBSET S
    OBVIOUS
  <2> HIDE DEF Bad
  <2> QED
    BY <1>1, <2>1, WFMin
<1>3. ASSUME NEW t \in SUBSET s, t # s PROVE TakesOut(f, t)
  BY <1>2, <1>3 DEF StrictSubsetOrdering
<1>4. IsFiniteSet(s)
  BY <1>2, FS_Subset
<1> QED
  BY <1>2, <1>3, <1>4, TakesOutStep

\* Sums along a sequence of sizes.
Total(f, n) == SumFunctionOnSet(f, 1 .. n)

LEMMA TotalStep ==
    ASSUME NEW n \in Nat, NEW f, \A i \in 1 .. n : f[i] \in Int
    PROVE  /\ Total(f, 0) = 0 /\ \A i \in 0 .. n : Total(f, i) \in Int
           /\ \A i \in 0 .. n - 1 : Total(f, i + 1) = Total(f, i) + f[i + 1]
<1>1. ASSUME NEW m \in 0 .. n PROVE IsFiniteSet(1 .. m)
  BY FS_Interval
<1>2. 1 .. 0 = {}
  OBVIOUS
<1>3. Total(f, 0) = 0
  BY <1>2, SumUnfolds, FS_EmptySet DEF Total
<1>4. ASSUME NEW m \in 0 .. n PROVE Total(f, m) \in Int
  BY <1>1, TakesOutAll DEF TakesOut, Total
<1>5. ASSUME NEW i \in 0 .. n - 1 PROVE Total(f, i + 1) = Total(f, i) + f[i + 1]
  <2>1. i + 1 \in 1 .. i + 1 /\ (1 .. i + 1) \ {i + 1} = 1 .. i
    OBVIOUS
  <2>2. TakesOut(f, 1 .. i + 1)
    BY <1>1, TakesOutAll
  <2>3. Total(f, i + 1) = f[i + 1] + Total(f, i)
    BY <2>1, <2>2 DEF TakesOut, Total
  <2> QED
    BY <1>4, <2>3
<1> QED
  BY <1>3, <1>4, <1>5

\* Equal sizes add up alike.
LEMMA TotalSame ==
    ASSUME NEW n \in Nat, NEW f, NEW g, \A i \in 1 .. n : f[i] \in Int /\ f[i] = g[i]
    PROVE  \A i \in 0 .. n : Total(f, i) = Total(g, i)
<1> DEFINE P == {i \in 0 .. n : Total(f, i) = Total(g, i)}
<1>1. 0 \in P
  BY TotalStep
<1>2. ASSUME NEW i \in 0 .. n - 1, i \in P PROVE i + 1 \in P
  BY <1>2, TotalStep
<1> HIDE DEF P
<1>3. \A i \in 0 .. n : i \in P
  BY <1>1, <1>2, InductionTo
<1> QED
  BY <1>3 DEF P

\* Natural sizes: the sums are, and they grow.
LEMMA TotalGrows ==
    ASSUME NEW n \in Nat, NEW f, \A i \in 1 .. n : f[i] \in Nat
    PROVE  \A i \in 0 .. n : /\ Total(f, i) \in Nat
                             /\ \A j \in 0 .. i : Total(f, j) <= Total(f, i)
<1> DEFINE P == {i \in 0 .. n : /\ Total(f, i) \in Nat
                                /\ \A j \in 0 .. i : Total(f, j) <= Total(f, i)}
<1>1. 0 \in P
  BY TotalStep
<1>2. ASSUME NEW i \in 0 .. n - 1, i \in P PROVE i + 1 \in P
  <2>1. Total(f, i + 1) = Total(f, i) + f[i + 1]
    BY TotalStep
  <2>2. f[i + 1] \in Nat /\ Total(f, i) \in Nat /\ i + 1 \in 0 .. n
    BY <1>2
  <2>3. ASSUME NEW j \in 0 .. i + 1 PROVE Total(f, j) <= Total(f, i + 1)
    <3>1. CASE j \in 0 .. i
      <4>1. Total(f, j) <= Total(f, i) /\ Total(f, j) \in Int
        BY <1>2, <3>1, TotalStep
      <4> QED
        BY <2>1, <2>2, <4>1
    <3>2. CASE j = i + 1
      BY <2>1, <2>2, <3>2
    <3> QED
      BY <3>1, <3>2
  <2> QED
    BY <2>1, <2>2, <2>3
<1> HIDE DEF P
<1>3. \A i \in 0 .. n : i \in P
  BY <1>1, <1>2, InductionTo
<1> QED
  BY <1>3 DEF P

\* No size is above m.
LEMMA TotalBound ==
    ASSUME NEW n \in Nat, NEW f, NEW m \in Nat, \A i \in 1 .. n : f[i] \in 0 .. m
    PROVE  \A i \in 0 .. n : Total(f, i) <= m * i
<1> DEFINE P == {i \in 0 .. n : Total(f, i) <= m * i}
<1>1. 0 \in P
  BY TotalStep
<1>2. ASSUME NEW i \in 0 .. n - 1, i \in P PROVE i + 1 \in P
  <2>1. Total(f, i + 1) = Total(f, i) + f[i + 1] /\ f[i + 1] \in 0 .. m /\ Total(f, i) \in Nat
    BY TotalStep, TotalGrows
  <2>2. m * (i + 1) = m * i + m
    OBVIOUS
  <2>3. m * i \in Nat
    OBVIOUS
  <2> QED
    BY <1>2, <2>1, <2>2, <2>3
<1> HIDE DEF P
<1>3. \A i \in 0 .. n : i \in P
  BY <1>1, <1>2, InductionTo
<1> QED
  BY <1>3 DEF P

\* All sizes are m.
LEMMA TotalEven ==
    ASSUME NEW n \in Nat, NEW f, NEW m \in Nat, \A i \in 1 .. n : f[i] = m
    PROVE  \A i \in 0 .. n : Total(f, i) = m * i
<1> DEFINE P == {i \in 0 .. n : Total(f, i) = m * i}
<1>1. 0 \in P
  BY TotalStep
<1>2. ASSUME NEW i \in 0 .. n - 1, i \in P PROVE i + 1 \in P
  <2>1. Total(f, i + 1) = Total(f, i) + f[i + 1] /\ f[i + 1] = m
    BY TotalStep
  <2>2. m * (i + 1) = m * i + m
    OBVIOUS
  <2> QED
    BY <1>2, <2>1, <2>2
<1> HIDE DEF P
<1>3. \A i \in 0 .. n : i \in P
  BY <1>1, <1>2, InductionTo
<1> QED
  BY <1>3 DEF P

LEMMA SumSeqIs ==
    ASSUME NEW s, NEW n \in Nat, DOMAIN s = 1 .. n
    PROVE  SumSeq(s) = Total(s, n)
BY DEF SumSeq, Total

-----------------------------------------------------------------------------
(* Parsing                                                                 *)

\* Frames last 2.5 to 60 ms.
LEMMA FrameLength ==
    ASSUME NEW toc \in Nat
    PROVE  /\ SamplesPerFrame(toc, 8000) \in {20, 40, 80, 160, 320, 480}
           /\ SamplesPerFrame(toc, 48000) = 6 * SamplesPerFrame(toc, 8000)
<1> DEFINE s == (toc \div 8) % 4
<1>1. s \in {0, 1, 2, 3}
  OBVIOUS
<1>2. 2 ^ 0 = 1 /\ 2 ^ 1 = 2 /\ 2 ^ 2 = 4 /\ 2 ^ 3 = 8
  OBVIOUS
<1> HIDE DEF s
<1>3. ASSUME NEW Fs \in {8000, 48000}
      PROVE  SamplesPerFrame(toc, Fs) =
                IF toc >= 128 THEN (Fs * 2 ^ s) \div 400
                ELSE IF toc >= 96 THEN IF s % 2 = 1 THEN Fs \div 50 ELSE Fs \div 100
                ELSE IF s = 3 THEN (Fs * 60) \div 1000
                ELSE (Fs * 2 ^ s) \div 100
  BY DEF SamplesPerFrame, s
<1>4. CASE s = 0
  BY <1>2, <1>3, <1>4
<1>5. CASE s = 1
  BY <1>2, <1>3, <1>5
<1>6. CASE s = 2
  BY <1>2, <1>3, <1>6
<1>7. CASE s = 3
  BY <1>2, <1>3, <1>7
<1> QED
  BY <1>1, <1>4, <1>5, <1>6, <1>7

\* The padding takes its length bytes, itself and no more than is left.
LEMMA PaddingFits ==
    ASSUME NEW data \in Seq(Nat), NEW at \in Nat, NEW len \in Nat, at + len = Len(data)
    PROVE  LET p == Padding(data, at, len)
           IN p.ok => /\ p.bytes \in Nat /\ p.pad \in Nat /\ p.len \in Nat
                      /\ p.bytes + p.pad + p.len = len
<1> DEFINE ends == {k \in 0 .. len - 1 : data[at + k + 1] # PadMax}
           k    == Min(ends)
           last == data[at + k + 1]
           left == len - PadMax * k
<1>1. Padding(data, at, len) =
         IF ends = {} \/ left <= 0 THEN NoPadding
         ELSE [ok |-> left - 1 - last >= 0, bytes |-> k + 1,
               pad |-> (PadMax - 1) * k + last, len |-> left - 1 - last]
  BY DEF Padding
<1>a. CASE ends = {} \/ left <= 0
  <2>1. Padding(data, at, len) = NoPadding
    BY <1>1, <1>a
  <2>2. Padding(data, at, len).ok = FALSE
    BY <2>1 DEF NoPadding
  <2> QED
    BY <2>2
<1>b. CASE ends # {} /\ ~ (left <= 0)
  <2>3. k \in ends
    <3>1. ends \subseteq Nat
      OBVIOUS
    <3> HIDE DEF ends
    <3>2. \E x \in ends : \A y \in ends : x <= y
      BY <1>b, <3>1, SmallestNumber
    <3> QED
      BY <3>2 DEF Min
  <2>4. last \in Nat /\ k \in Nat /\ PadMax \in Nat /\ PadMax >= 2
    <3>1. at + k + 1 \in 1 .. Len(data)
      BY <2>3
    <3> QED
      BY <2>3, <3>1, PacketAssumption
  <2> DEFINE M == PadMax * k
  <2>5. (PadMax - 1) * k = M - k /\ M \in Nat /\ M >= k
    <3> HIDE DEF k, last, ends
    <3>1. (PadMax - 1) * k = PadMax * k - k
      BY <2>4
    <3>2. PadMax * k \in Nat
      BY <2>4
    <3>3. (PadMax - 1) * k \in Nat
      BY <2>4
    <3> QED
      BY <2>4, <3>1, <3>2, <3>3
  <2> HIDE DEF k, last, ends, M
  <2>6. Padding(data, at, len) =
           [ok |-> len - M - 1 - last >= 0, bytes |-> k + 1,
            pad |-> M - k + last, len |-> len - M - 1 - last]
    BY <1>1, <1>b, <2>5 DEF M
  <2>7. CASE len - M - 1 - last >= 0
    <3>1. /\ Padding(data, at, len).bytes = k + 1
          /\ Padding(data, at, len).pad = M - k + last
          /\ Padding(data, at, len).len = len - M - 1 - last
      BY <2>6
    <3> QED
      BY <2>4, <2>5, <2>7, <3>1
  <2>8. CASE ~ (len - M - 1 - last >= 0)
    <3>1. Padding(data, at, len).ok = (len - M - 1 - last >= 0)
      BY <2>6
    <3>3. (len - M - 1 - last >= 0) = FALSE
      BY <2>8
    <3>2. Padding(data, at, len).ok = FALSE
      BY <3>1, <3>3, Zenon
    <3> QED
      BY <3>2
  <2> QED
    BY <2>7, <2>8
<1> QED
  BY <1>a, <1>b

\* What Counted says adds up to the packet.
UpTo120ms(data, n) == SamplesPerFrame(data[1], 48000) * n <= 5760
CountedNumbers(data, c) ==
    /\ c.count \in Nat /\ c.count >= 1 /\ c.count <= 48 /\ c.count = NbFrames(data)
    /\ c.at \in Nat /\ c.len \in Nat /\ c.pad \in Nat
    /\ c.at + c.len + c.pad = Len(data)
CountedFor(data, c) ==
    /\ UpTo120ms(data, c.count)
    /\ CountedNumbers(data, c)
    /\ c.cbr \in BOOLEAN /\ c.vbr \in BOOLEAN
    /\ c.cbr = FALSE /\ c.vbr = FALSE => c.count = 1

LEMMA CountedFits ==
    ASSUME NEW data \in Seq(Nat), data # <<>>, Counted(data).ok
    PROVE  CountedFor(data, Counted(data))
<1> DEFINE len   == Len(data) - 1
           code  == data[1] % 4
           ch    == data[2]
           count == ch % 64
           p     == Padding(data, 2, len - 1)
<1>1. data[1] \in Nat /\ len \in Nat /\ Len(data) \in Nat /\ Len(data) = len + 1
  BY DEF len
<1>2. /\ SamplesPerFrame(data[1], 8000) \in {20, 40, 80, 160, 320, 480}
      /\ SamplesPerFrame(data[1], 48000) = 6 * SamplesPerFrame(data[1], 8000)
  BY <1>1, FrameLength
<1>3. CASE code # 3
  <2>1. Counted(data) =
          [ok |-> TRUE, count |-> IF code = 0 THEN 1 ELSE 2, cbr |-> code = 1,
           vbr |-> code = 2, at |-> 1, len |-> len, pad |-> 0]
    BY <1>3 DEF Counted, Code
  <2>2. NbFrames(data) = IF code = 0 THEN 1 ELSE 2
    BY <1>3 DEF NbFrames, Code
  <2>3. code \in 0 .. 2
    BY <1>1, <1>3
  <2>4. \A n \in 1 .. 2 : SamplesPerFrame(data[1], 48000) * n <= 5760
    <3>1. PICK S \in Nat : S = SamplesPerFrame(data[1], 48000) /\ S <= 2880
      BY <1>2
    <3>2. S * 1 <= 5760 /\ S * 2 <= 5760
      BY <3>1
    <3> QED
      BY <3>1, <3>2
  <2>5. /\ Counted(data).count = IF code = 0 THEN 1 ELSE 2
        /\ Counted(data).at = 1 /\ Counted(data).len = len /\ Counted(data).pad = 0
    BY <2>1
  <2> HIDE DEF code, len
  <2>8. Counted(data).cbr = (code = 1)
    BY <2>1
  <2>9. Counted(data).vbr = (code = 2)
    BY <2>1
  <2>10. Counted(data).cbr \in BOOLEAN /\ (code = 1 => Counted(data).cbr)
    BY <2>8
  <2>11. Counted(data).vbr \in BOOLEAN /\ (code = 2 => Counted(data).vbr)
    BY <2>9
  <2>7. /\ Counted(data).cbr \in BOOLEAN /\ Counted(data).vbr \in BOOLEAN
        /\ code = 1 => Counted(data).cbr
        /\ code = 2 => Counted(data).vbr
    BY <2>10, <2>11
  <2> QED
    BY <1>1, <2>2, <2>3, <2>4, <2>5, <2>7 DEF CountedFor, CountedNumbers, UpTo120ms
<1>4. CASE code = 3
  <2>1. Counted(data) =
          IF len < 1 THEN [ok |-> FALSE]
          ELSE IF count = 0 \/ SamplesPerFrame(data[1], 48000) * count > 5760
          THEN [ok |-> FALSE]
          ELSE IF (ch \div 64) % 2 = 1
          THEN [ok |-> p.ok, count |-> count, cbr |-> ch < 128, vbr |-> ch >= 128,
                at |-> 2 + p.bytes, len |-> p.len, pad |-> p.pad]
          ELSE [ok |-> TRUE, count |-> count, cbr |-> ch < 128, vbr |-> ch >= 128,
                at |-> 2, len |-> len - 1, pad |-> 0]
    BY <1>4 DEF Counted, Code
  <2>2. /\ len >= 1 /\ count # 0 /\ ~ (SamplesPerFrame(data[1], 48000) * count > 5760)
    BY <2>1
  <2>3. ch \in Nat /\ count \in Nat /\ count >= 1 /\ count <= 63
    <3>1. 2 \in 1 .. Len(data)
      BY <1>1, <2>2
    <3>2. ch \in Nat
      BY <3>1
    <3>3. count # 0
      BY <2>2
    <3> HIDE DEF ch
    <3> QED
      BY <3>2, <3>3
  <2>4. NbFrames(data) = count
    BY <1>1, <1>4, <2>2 DEF NbFrames, Code
  <2>5. count \in Nat /\ count >= 1 /\ count <= 48 /\ SamplesPerFrame(data[1], 48000) * count <= 5760
    <3> DEFINE S == SamplesPerFrame(data[1], 48000)
    <3>1. S \in {120, 240, 480, 960, 1920, 2880}
      BY <1>2
    <3>2. ~ (S * count > 5760)
      BY <2>2
    <3> HIDE DEF count, S
    <3>3. count <= 48 /\ S * count <= 5760
      BY <2>3, <3>1, <3>2
    <3> QED
      BY <2>3, <3>3 DEF S
  <2>6. CASE (ch \div 64) % 2 = 1
    <3>1. Counted(data) =
            [ok |-> p.ok, count |-> count, cbr |-> ch < 128, vbr |-> ch >= 128,
             at |-> 2 + p.bytes, len |-> p.len, pad |-> p.pad]
      BY <2>1, <2>2, <2>6
    <3>2. p.ok
      BY <3>1
    <3>15. len - 1 \in Nat /\ 2 + (len - 1) = Len(data)
      BY <1>1, <2>2
    <3>3. /\ p.bytes \in Nat /\ p.pad \in Nat /\ p.len \in Nat
          /\ p.bytes + p.pad + p.len = len - 1
      BY <3>2, <3>15, PaddingFits
    <3>4. /\ Counted(data).count = count /\ Counted(data).at = 2 + p.bytes
          /\ Counted(data).len = p.len /\ Counted(data).pad = p.pad
      BY <3>1
    <3>16. p.bytes \in Nat /\ p.len \in Nat /\ p.pad \in Nat
      BY <3>3
    <3>17. p.bytes + p.pad + p.len = len - 1
      BY <3>3
    <3>14. /\ 2 + p.bytes + p.len + p.pad = Len(data) /\ 2 + p.bytes \in Nat
           /\ 2 + p.bytes >= 2
      <4> DEFINE pb == p.bytes
                 pl == p.len
                 pp == p.pad
      <4>1. pb \in Nat /\ pl \in Nat /\ pp \in Nat /\ pb + pp + pl = len - 1
        BY <3>3
      <4>2. Len(data) = len + 1 /\ len \in Nat
        BY <1>1
      <4> SUFFICES 2 + pb + pl + pp = Len(data) /\ 2 + pb \in Nat /\ 2 + pb >= 2
        OBVIOUS
      <4> HIDE DEF pb, pl, pp, p, len
      <4> QED
        BY <4>1, <4>2
    <3> HIDE DEF p, len, ch, count
    <3>8. Counted(data).cbr = (ch < 128)
      BY <3>1
    <3>9. Counted(data).vbr = (ch >= 128)
      BY <3>1
    <3>10. Counted(data).cbr \in BOOLEAN
      BY <3>8
    <3>11. Counted(data).vbr \in BOOLEAN
      BY <3>9
    <3>12. ch < 128 => Counted(data).cbr = TRUE
      BY <3>8
    <3>13. ch >= 128 => Counted(data).vbr = TRUE
      BY <3>9
    <3>5. /\ Counted(data).cbr \in BOOLEAN /\ Counted(data).vbr \in BOOLEAN
          /\ ch < 128 => Counted(data).cbr
          /\ ch >= 128 => Counted(data).vbr
      BY <3>10, <3>11, <3>12, <3>13
    <3>6. ch < 128 \/ ch >= 128
      BY <2>3
    <3>7. /\ Counted(data).cbr \in BOOLEAN /\ Counted(data).vbr \in BOOLEAN
          /\ Counted(data).cbr \/ Counted(data).vbr
      BY <3>5, <3>6
    <3> QED
      BY <2>4, <2>5, <3>3, <3>14, <3>4, <3>7 DEF CountedFor, CountedNumbers, UpTo120ms
  <2>7. CASE (ch \div 64) % 2 # 1
    <3>1. Counted(data) =
            [ok |-> TRUE, count |-> count, cbr |-> ch < 128, vbr |-> ch >= 128,
             at |-> 2, len |-> len - 1, pad |-> 0]
      BY <2>1, <2>2, <2>7
    <3>4. /\ Counted(data).count = count /\ Counted(data).at = 2
          /\ Counted(data).len = len - 1 /\ Counted(data).pad = 0
      BY <3>1
    <3> HIDE DEF p, len, ch, count
    <3>8. Counted(data).cbr = (ch < 128)
      BY <3>1
    <3>9. Counted(data).vbr = (ch >= 128)
      BY <3>1
    <3>10. Counted(data).cbr \in BOOLEAN
      BY <3>8
    <3>11. Counted(data).vbr \in BOOLEAN
      BY <3>9
    <3>12. ch < 128 => Counted(data).cbr = TRUE
      BY <3>8
    <3>13. ch >= 128 => Counted(data).vbr = TRUE
      BY <3>9
    <3>5. /\ Counted(data).cbr \in BOOLEAN /\ Counted(data).vbr \in BOOLEAN
          /\ ch < 128 => Counted(data).cbr
          /\ ch >= 128 => Counted(data).vbr
      BY <3>10, <3>11, <3>12, <3>13
    <3>6. ch < 128 \/ ch >= 128
      BY <2>3
    <3>7. /\ Counted(data).cbr \in BOOLEAN /\ Counted(data).vbr \in BOOLEAN
          /\ Counted(data).cbr \/ Counted(data).vbr
      BY <3>5, <3>6
    <3> QED
      BY <1>1, <2>2, <2>3, <2>4, <2>5, <3>4, <3>7 DEF CountedFor, CountedNumbers, UpTo120ms
  <2> QED
    BY <2>6, <2>7
<1> QED
  BY <1>3, <1>4

\* A size takes one byte or two of what is left.
LEMMA SizeFits ==
    ASSUME NEW data \in Seq(Nat), NEW at \in Nat, NEW len \in Nat, at + len <= Len(data)
    PROVE  LET p == ParseSize(data, at, len)
           IN /\ p.size \in Int /\ p.bytes \in {-1, 1, 2}
              /\ p.size >= 0 => p.bytes \in 1 .. len
<1>1. CASE len < 1
  BY <1>1 DEF ParseSize
<1>2. CASE len >= 1
  <2>1. at + 1 \in 1 .. Len(data) /\ data[at + 1] \in Nat
    BY <1>2
  <2>2. Esc \in Nat
    BY PacketAssumption
  <2>3. CASE data[at + 1] < Esc
    BY <1>2, <2>1, <2>2, <2>3 DEF ParseSize
  <2>4. CASE ~ (data[at + 1] < Esc) /\ len < 2
    BY <1>2, <2>1, <2>2, <2>4 DEF ParseSize
  <2>5. CASE ~ (data[at + 1] < Esc) /\ len >= 2
    <3>1. data[at + 2] \in Nat
      BY <2>5
    <3>2. ParseSize(data, at, len) = [bytes |-> 2, size |-> 4 * data[at + 2] + data[at + 1]]
      BY <1>2, <2>1, <2>2, <2>5 DEF ParseSize
    <3>3. 4 * data[at + 2] + data[at + 1] \in Nat
      BY <2>1, <3>1
    <3> QED
      BY <2>5, <3>2, <3>3
  <2> QED
    BY <2>1, <2>2, <2>3, <2>4, <2>5
<1> QED
  BY <1>1, <1>2

\* The recursion of VbrSizes, a step at a time.
VbrStart(at, len) == [ok |-> TRUE, at |-> at, len |-> len, last |-> len, size |-> <<>>]
VbrNext(data, g) ==
    LET p == ParseSize(data, g.at, g.len)
    IN IF ~ g.ok THEN g
       ELSE [ok   |-> p.size >= 0 /\ p.size <= g.len - p.bytes,
             at   |-> g.at + p.bytes,
             len  |-> g.len - p.bytes,
             last |-> g.last - p.bytes - p.size,
             size |-> Append(g.size, p.size)]
IsVbr(f, data, at, len, n) ==
    f = [i \in 0 .. n |-> IF i = 0 THEN VbrStart(at, len) ELSE VbrNext(data, f[i - 1])]

LEMMA VbrIs ==
    ASSUME NEW data, NEW at, NEW len, NEW n \in Nat
    PROVE  \E f : IsVbr(f, data, at, len, n) /\ VbrSizes(data, at, len, n) = f[n]
<1> DEFINE P == {m \in 0 .. n : \E f : IsVbr(f, data, at, len, m)}
<1>1. 0 \in P
  <2> DEFINE f == [i \in 0 .. 0 |-> VbrStart(at, len)]
  <2>1. IsVbr(f, data, at, len, 0)
    BY DEF IsVbr
  <2> QED
    BY <2>1
<1>2. ASSUME NEW m \in 0 .. n - 1, m \in P PROVE m + 1 \in P
  <2>1. PICK f : IsVbr(f, data, at, len, m)
    BY <1>2
  <2> DEFINE g == [i \in 0 .. m + 1 |-> IF i <= m THEN f[i] ELSE VbrNext(data, f[m])]
  <2>2. IsVbr(g, data, at, len, m + 1)
    <3>1. ASSUME NEW i \in 0 .. m + 1
          PROVE  g[i] = IF i = 0 THEN VbrStart(at, len) ELSE VbrNext(data, g[i - 1])
      <4>1. CASE i = 0
        BY <2>1, <4>1 DEF IsVbr
      <4>2. CASE i \in 1 .. m
        <5>1. i \in 0 .. m /\ i # 0 /\ i <= m /\ i - 1 \in 0 .. m + 1 /\ i - 1 <= m
          BY <4>2
        <5>2. f[i] = VbrNext(data, f[i - 1])
          BY <2>1, <5>1 DEF IsVbr
        <5>3. g[i] = f[i] /\ g[i - 1] = f[i - 1]
          BY <5>1
        <5> QED
          BY <5>1, <5>2, <5>3, Zenon
      <4>3. CASE i = m + 1
        BY <4>3
      <4> QED
        BY <4>1, <4>2, <4>3
    <3>2. g = [i \in 0 .. m + 1 |-> g[i]]
      OBVIOUS
    <3> HIDE DEF g
    <3>3. g = [i \in 0 .. m + 1 |-> IF i = 0 THEN VbrStart(at, len) ELSE VbrNext(data, g[i - 1])]
      BY <3>1, <3>2
    <3> QED
      BY <3>3 DEF IsVbr
  <2> QED
    BY <2>2
<1> HIDE DEF P
<1>3. n \in P
  BY <1>1, <1>2, InductionTo
<1>4. IsVbr(CHOOSE f : IsVbr(f, data, at, len, n), data, at, len, n)
  BY <1>3 DEF P
<1>5. VbrSizes(data, at, len, n) = (CHOOSE f : IsVbr(f, data, at, len, n))[n]
  BY DEF VbrSizes, IsVbr, VbrStart, VbrNext
<1> QED
  BY <1>4, <1>5

\* What the sizes leave of the packet.
SizesLeave(g, i, all) ==
    /\ g.at \in Nat /\ g.len \in Nat /\ g.at + g.len = all
    /\ g.size \in Seq(Nat) /\ Len(g.size) = i
    /\ g.last \in Int /\ g.last = g.len - Total(g.size, i)

LEMMA TotalNext ==
    ASSUME NEW n \in Nat, NEW s, NEW t, \A i \in 1 .. n : s[i] \in Nat,
           \A i \in 1 .. n : t[i] = s[i], t[n + 1] \in Nat
    PROVE  /\ Total(s, n) \in Nat
           /\ Total(t, n + 1) = Total(s, n) + t[n + 1]
<1>1. \A i \in 1 .. n : t[i] \in Int /\ t[i] = s[i]
  OBVIOUS
<1>2. \A i \in 0 .. n : Total(t, i) = Total(s, i)
  BY <1>1, TotalSame
<1>3. \A i \in 0 .. n : Total(s, i) \in Nat
  BY TotalGrows
<1>4. n + 1 \in Nat /\ n \in 0 .. (n + 1) - 1
  OBVIOUS
<1>5. \A i \in 1 .. n + 1 : t[i] \in Int
  OBVIOUS
<1>6. \A i \in 0 .. (n + 1) - 1 : Total(t, i + 1) = Total(t, i) + t[i + 1]
  BY <1>4, <1>5, TotalStep
<1> QED
  BY <1>2, <1>3, <1>4, <1>6

LEMMA AppendTotal ==
    ASSUME NEW s \in Seq(Nat), NEW x \in Nat
    PROVE  /\ Append(s, x) \in Seq(Nat) /\ Len(Append(s, x)) = Len(s) + 1
           /\ Total(s, Len(s)) \in Nat
           /\ Total(Append(s, x), Len(s) + 1) = Total(s, Len(s)) + x
<1>1. PICK t : t = Append(s, x)
  OBVIOUS
<1>2. PICK n \in Nat : n = Len(s)
  OBVIOUS
<1>3. t \in Seq(Nat) /\ Len(t) = n + 1 /\ t[n + 1] = x
  BY <1>1, <1>2
<1>4. \A i \in 1 .. n : s[i] \in Nat
  BY <1>2
<1>5. \A i \in 1 .. n : t[i] = s[i]
  BY <1>1, <1>2
<1>6. t[n + 1] \in Nat
  BY <1>3
<1>7. Total(s, n) \in Nat /\ Total(t, n + 1) = Total(s, n) + t[n + 1]
  BY <1>4, <1>5, <1>6, TotalNext
<1> QED
  BY <1>1, <1>2, <1>3, <1>7

LEMMA VbrStep ==
    ASSUME NEW data \in Seq(Nat), NEW all \in Nat, all <= Len(data), NEW i \in Nat,
           NEW g, g.ok = TRUE => SizesLeave(g, i, all), g.ok \in BOOLEAN
    PROVE  LET k == VbrNext(data, g)
           IN k.ok \in BOOLEAN /\ (k.ok = TRUE => SizesLeave(k, i + 1, all))
<1>1. CASE g.ok = FALSE
  <2>1. VbrNext(data, g) = g
    BY <1>1 DEF VbrNext
  <2> QED
    BY <1>1, <2>1
<1>2. CASE g.ok = TRUE
  <2> DEFINE p == ParseSize(data, g.at, g.len)
             good == p.size >= 0 /\ p.size <= g.len - p.bytes
  <2>1. SizesLeave(g, i, all)
    BY <1>2
  <2>2. VbrNext(data, g) = [ok |-> good, at |-> g.at + p.bytes, len |-> g.len - p.bytes,
           last |-> g.last - p.bytes - p.size, size |-> Append(g.size, p.size)]
    BY <1>2 DEF VbrNext
  <2>3. good \in BOOLEAN
    OBVIOUS
  <2>4. CASE good = FALSE
    <3>1. VbrNext(data, g).ok = good
      BY <2>2
    <3>2. VbrNext(data, g).ok = FALSE
      BY <2>4, <3>1, Zenon
    <3> QED
      BY <3>2
  <2>5. CASE good = TRUE
    <3>1. p.size \in Nat /\ p.bytes \in 1 .. g.len
      <4>1. g.at \in Nat /\ g.len \in Nat /\ g.at + g.len <= Len(data)
        BY <2>1 DEF SizesLeave
      <4>2. p.size \in Int /\ (p.size >= 0 => p.bytes \in 1 .. g.len)
        BY <4>1, SizeFits
      <4>3. p.size >= 0
        BY <2>5
      <4> QED
        BY <4>2, <4>3
    <3> HIDE DEF p
    <3>2. /\ Append(g.size, p.size) \in Seq(Nat) /\ Len(Append(g.size, p.size)) = i + 1
          /\ Total(Append(g.size, p.size), i + 1) = Total(g.size, i) + p.size
          /\ Total(g.size, i) \in Nat
      BY <2>1, <3>1, AppendTotal DEF SizesLeave
    <3>3. /\ g.at + p.bytes \in Nat /\ g.len - p.bytes \in Nat
          /\ (g.at + p.bytes) + (g.len - p.bytes) = all
          /\ g.last - p.bytes - p.size \in Int
          /\ g.last - p.bytes - p.size = (g.len - p.bytes) - (Total(g.size, i) + p.size)
      <4> DEFINE T == Total(g.size, i)
                 a == g.at
                 l == g.len
                 z == g.last
                 b == p.bytes
                 s == p.size
      <4>1. a \in Nat /\ l \in Nat /\ a + l = all /\ z \in Int /\ z = l - T
        BY <2>1 DEF SizesLeave
      <4>2. b \in 1 .. l /\ s \in Nat /\ T \in Nat
        BY <3>1, <3>2
      <4> SUFFICES /\ a + b \in Nat /\ l - b \in Nat /\ (a + b) + (l - b) = all
                   /\ z - b - s \in Int /\ z - b - s = (l - b) - (T + s)
        OBVIOUS
      <4> HIDE DEF T, a, l, z, b, s
      <4> QED
        BY <4>1, <4>2
    <3>4. LET k == VbrNext(data, g)
          IN /\ k.at = g.at + p.bytes /\ k.len = g.len - p.bytes
             /\ k.last = g.last - p.bytes - p.size /\ k.size = Append(g.size, p.size)
      BY <2>2
    <3>5. SizesLeave(VbrNext(data, g), i + 1, all)
      BY <3>2, <3>3, <3>4 DEF SizesLeave
    <3>6. VbrNext(data, g).ok = good
      BY <2>2
    <3> QED
      BY <2>3, <3>5, <3>6
  <2> QED
    BY <2>3, <2>4, <2>5
<1> QED
  BY <1>1, <1>2

LEMMA VbrFits ==
    ASSUME NEW data \in Seq(Nat), NEW at \in Nat, NEW len \in Nat, at + len <= Len(data),
           NEW n \in Nat
    PROVE  LET g == VbrSizes(data, at, len, n)
           IN g.ok \in BOOLEAN /\ (g.ok = TRUE => SizesLeave(g, n, at + len))
<1>1. PICK f : IsVbr(f, data, at, len, n) /\ VbrSizes(data, at, len, n) = f[n]
  BY VbrIs
<1> DEFINE P == {i \in 0 .. n : f[i].ok \in BOOLEAN
                                /\ (f[i].ok = TRUE => SizesLeave(f[i], i, at + len))}
<1>2. 0 \in P
  <2>1. f[0] = VbrStart(at, len)
    BY <1>1 DEF IsVbr
  <2>2. <<>> \in Seq(Nat) /\ Len(<<>>) = 0 /\ Total(<<>>, 0) = 0
    <3>1. \A i \in 1 .. 0 : <<>>[i] \in Int
      OBVIOUS
    <3>2. Total(<<>>, 0) = 0
      BY <3>1, TotalStep
    <3> QED
      BY <3>2
  <2>3. SizesLeave(VbrStart(at, len), 0, at + len) /\ VbrStart(at, len).ok = TRUE
    BY <2>2 DEF SizesLeave, VbrStart
  <2>4. f[0].ok = TRUE /\ SizesLeave(f[0], 0, at + len)
    BY <2>1, <2>3
  <2>5. 0 \in 0 .. n
    OBVIOUS
  <2> QED
    BY <2>4, <2>5
<1>3. ASSUME NEW i \in 0 .. n - 1, i \in P PROVE i + 1 \in P
  <2>1. f[i + 1] = VbrNext(data, f[i])
    BY <1>1 DEF IsVbr
  <2>2. f[i].ok \in BOOLEAN /\ (f[i].ok = TRUE => SizesLeave(f[i], i, at + len))
    BY <1>3
  <2>3. at + len \in Nat /\ i \in Nat
    OBVIOUS
  <2>4. LET k == VbrNext(data, f[i])
        IN k.ok \in BOOLEAN /\ (k.ok = TRUE => SizesLeave(k, i + 1, at + len))
    BY <2>2, <2>3, VbrStep
  <2> QED
    BY <2>1, <2>4
<1> HIDE DEF P
<1>4. \A i \in 0 .. n : i \in P
  BY <1>2, <1>3, InductionTo
<1>5. n \in P
  BY <1>4
<1> QED
  BY <1>1, <1>5 DEF P

\* The same as TotalEven, of the whole.
LEMMA TotalAll ==
    ASSUME NEW n \in Nat, NEW f, NEW m \in Nat, \A i \in 1 .. n : f[i] = m
    PROVE  Total(f, n) = m * n
<1>1. n \in 0 .. n
  OBVIOUS
<1> QED
  BY <1>1, TotalEven

\* Equal frames share the bytes that are left.
LEMMA EvenFits ==
    ASSUME NEW at \in Nat, NEW len \in Nat, NEW count \in Nat \ {0}
    PROVE  LET g == EvenSizes(at, len, count)
           IN /\ g.ok \in BOOLEAN
              /\ g.ok = TRUE => SizesLeave(g, count - 1, at + len)
              /\ \A i \in 1 .. count - 1 : g.size[i] = g.last
<1> DEFINE g == EvenSizes(at, len, count)
           m == len \div count
           size == [i \in 1 .. count - 1 |-> m]
<1>1. /\ g.at = at /\ g.len = len /\ g.last = m /\ g.size = size
      /\ g.ok = (len % count = 0)
  BY DEF EvenSizes
<1>2. g.ok \in BOOLEAN
  BY <1>1
<1>3. m \in Nat
  OBVIOUS
<1>4. CASE len % count = 0
  <2>1. len = m * count /\ m * (count - 1) = m * count - m
    <3>1. len = count * m + (len % count)
      OBVIOUS
    <3>2. count * m = m * count
      BY <1>3
    <3>3. m * (count - 1) = m * count - m
      <4> HIDE DEF m
      <4> QED
        BY <1>3
    <3> QED
      BY <1>4, <3>1, <3>2, <3>3
  <2>2. size \in Seq(Nat) /\ Len(size) = count - 1
    <3> HIDE DEF m
    <3> QED
      BY <1>3
  <2>3. Total(size, count - 1) = m * (count - 1)
    <3>1. count - 1 \in Nat /\ count - 1 \in 0 .. count - 1
      OBVIOUS
    <3>2. \A i \in 1 .. count - 1 : size[i] = m
      OBVIOUS
    <3> HIDE DEF m, size
    <3>3. \A i \in 0 .. count - 1 : Total(size, i) = m * i
      BY <1>3, <3>1, <3>2, TotalEven
    <3> QED
      BY <3>1, <3>3
  <2>4. m = len - Total(size, count - 1)
    <3> HIDE DEF m, size
    <3>1. m * count \in Nat
      BY <1>3
    <3> QED
      BY <1>3, <2>1, <2>3, <3>1
  <2> HIDE DEF m, size, g
  <2>5. SizesLeave(g, count - 1, at + len)
    BY <1>1, <1>3, <2>2, <2>4 DEF SizesLeave
  <2>6. \A i \in 1 .. count - 1 : g.size[i] = g.last
    BY <1>1 DEF size
  <2> QED
    BY <1>2, <2>5, <2>6 DEF g
<1>5. CASE len % count # 0
  <2>1. (len % count = 0) = FALSE
    BY <1>5
  <2>2. g.ok = FALSE
    BY <1>1, <2>1, Zenon
  <2> HIDE DEF m, g
  <2>3. \A i \in 1 .. count - 1 : g.size[i] = g.last
    BY <1>1
  <2> QED
    BY <2>2, <2>3 DEF g
<1> QED
  BY <1>4, <1>5

\* The sizes in the packet, of all frames but the last, and what is left for it;
\* of self-delimited equal frames none is.
FrameBytes(c) == c.at + c.len
SizedFor(c, sd, s) ==
    /\ s.ok \in BOOLEAN
    /\ s.ok = TRUE => \E n \in Nat : SizesLeave(s, n, FrameBytes(c))
    /\ s.ok = TRUE /\ ~ (sd = TRUE /\ c.cbr = TRUE) =>
          SizesLeave(s, c.count - 1, FrameBytes(c))

LEMMA SizedFits ==
    ASSUME NEW data \in Seq(Nat), NEW c, CountedFor(data, c), NEW sd \in BOOLEAN
    PROVE  SizedFor(c, sd, Sized(data, c, sd))
<1> DEFINE s == Sized(data, c, sd)
<1>0. /\ c.cbr \in BOOLEAN /\ c.vbr \in BOOLEAN
      /\ c.cbr = FALSE /\ c.vbr = FALSE => c.count = 1
  BY DEF CountedFor
<1>9. CountedNumbers(data, c)
  BY DEF CountedFor
<1>8. c.at \in Nat /\ c.len \in Nat /\ c.at + c.len <= Len(data)
  BY <1>9 DEF CountedNumbers
<1>1. c.count \in Nat \ {0} /\ c.count - 1 \in Nat
  BY <1>9 DEF CountedNumbers
<1>2. CASE c.vbr = TRUE
  <2>1. s = VbrSizes(data, c.at, c.len, c.count - 1)
    BY <1>2 DEF Sized
  <2>2. LET g == VbrSizes(data, c.at, c.len, c.count - 1)
        IN g.ok \in BOOLEAN /\ (g.ok = TRUE => SizesLeave(g, c.count - 1, FrameBytes(c)))
    BY <1>1, <1>8, VbrFits DEF FrameBytes
  <2>3. s.ok \in BOOLEAN /\ (s.ok = TRUE => SizesLeave(s, c.count - 1, FrameBytes(c)))
    BY <2>1, <2>2, Zenon
  <2> HIDE DEF s
  <2> QED
    BY <1>1, <2>3 DEF SizedFor, s
<1>3. CASE c.vbr = FALSE /\ c.cbr = TRUE /\ sd = FALSE
  <2>1. s = EvenSizes(c.at, c.len, c.count)
    BY <1>3 DEF Sized
  <2>2. LET g == EvenSizes(c.at, c.len, c.count)
        IN g.ok \in BOOLEAN /\ (g.ok = TRUE => SizesLeave(g, c.count - 1, FrameBytes(c)))
    BY <1>1, <1>8, EvenFits DEF FrameBytes
  <2>3. s.ok \in BOOLEAN /\ (s.ok = TRUE => SizesLeave(s, c.count - 1, FrameBytes(c)))
    BY <2>1, <2>2, Zenon
  <2> HIDE DEF s
  <2> QED
    BY <1>1, <2>3 DEF SizedFor, s
<1>4. CASE c.vbr = FALSE /\ (c.cbr = FALSE \/ sd = TRUE)
  <2>1. s = [ok |-> TRUE, at |-> c.at, len |-> c.len, last |-> c.len, size |-> <<>>]
    BY <1>4 DEF Sized
  <2>2. Total(<<>>, 0) = 0 /\ <<>> \in Seq(Nat) /\ Len(<<>>) = 0
    <3>1. \A i \in 1 .. 0 : <<>>[i] \in Int
      OBVIOUS
    <3>2. Total(<<>>, 0) = 0
      BY <3>1, TotalStep
    <3> QED
      BY <3>2
  <2>3. SizesLeave(s, 0, FrameBytes(c))
    BY <1>8, <2>1, <2>2 DEF SizesLeave, FrameBytes
  <2>4. s.ok = TRUE
    BY <2>1
  <2>5. ~ (sd = TRUE /\ c.cbr = TRUE) => 0 = c.count - 1
    BY <1>0, <1>1, <1>4
  <2> HIDE DEF s
  <2> QED
    BY <2>3, <2>4, <2>5 DEF SizedFor, s
<1> QED
  BY <1>0, <1>2, <1>3, <1>4

\* What parsing returns fits the packet.
ParseFor(data, sd, p) ==
    /\ p.ret = NbFrames(data) /\ p.ret \in Nat /\ p.ret >= 1 /\ p.ret <= 48
    /\ p.size \in Seq(Nat) /\ Len(p.size) = p.ret
    /\ p.offset \in Nat /\ p.packet_offset \in Nat
    /\ p.offset + SumSeq(p.size) <= p.packet_offset
    /\ p.packet_offset <= Len(data)
    /\ sd = FALSE => p.packet_offset = Len(data)
    /\ UpTo120ms(data, p.ret)

LEMMA ParsedFits ==
    ASSUME NEW data \in Seq(Nat), NEW c, CountedFor(data, c), NEW sd \in BOOLEAN,
           NEW at \in Nat, NEW size \in Seq(Nat), Len(size) = c.count,
           at + Total(size, c.count) <= FrameBytes(c),
           sd = FALSE => at + Total(size, c.count) = FrameBytes(c)
    PROVE  ParseFor(data, sd, Parsed(c, at, size))
<1> DEFINE T == Total(size, c.count)
           p == Parsed(c, at, size)
<1>1. c.count \in Nat /\ c.count >= 1 /\ c.count <= 48 /\ DOMAIN size = 1 .. c.count
  BY DEF CountedFor, CountedNumbers
<1>2. SumSeq(size) = T
  BY <1>1, SumSeqIs
<1>3. T \in Nat
  <2>1. \A i \in 1 .. c.count : size[i] \in Nat
    BY <1>1
  <2>2. \A i \in 0 .. c.count : Total(size, i) \in Nat
    BY <1>1, <2>1, TotalGrows
  <2> QED
    BY <1>1, <2>2
<1>4. /\ p.ret = c.count /\ p.size = size /\ p.offset = at
      /\ p.packet_offset = c.pad + at + T
  BY <1>2 DEF Parsed
<1>5. /\ c.at \in Nat /\ c.len \in Nat /\ c.pad \in Nat /\ c.at + c.len + c.pad = Len(data)
      /\ c.count = NbFrames(data) /\ UpTo120ms(data, c.count)
  BY DEF CountedFor, CountedNumbers
<1> HIDE DEF T, p
<1>6. at + T <= c.at + c.len /\ (sd = FALSE => at + T = c.at + c.len)
  BY DEF T, FrameBytes
<1>7. /\ p.offset + SumSeq(p.size) <= p.packet_offset
      /\ p.packet_offset \in Nat
      /\ p.packet_offset <= Len(data)
  BY <1>2, <1>3, <1>4, <1>5, <1>6, SMTT(30)
<1>8. sd = FALSE => p.packet_offset = Len(data)
  BY <1>3, <1>4, <1>5, <1>6
<1> QED
  BY <1>1, <1>4, <1>5, <1>7, <1>8 DEF ParseFor, p

\* The size in front of the last frame, in the packet.
LastSize(data, s, at, len, b, z) ==
    /\ at = s.at /\ len = s.len
    /\ ParseSize(data, at, len).bytes = b /\ ParseSize(data, at, len).size = z

LEMMA LastSizeFits ==
    ASSUME NEW data \in Seq(Nat), NEW c, NEW s, NEW n, NEW all \in 0 .. Len(data),
           SizesLeave(s, n, all), Delimited(data, c, s) # Invalid
    PROVE  \E at, len, b, z \in Nat :
               /\ at + len = all /\ 1 <= b /\ b + z <= len
               /\ LastSize(data, s, at, len, b, z)
<1>1. PICK at \in Nat, len \in Nat : at = s.at /\ len = s.len /\ at + len = all
  BY DEF SizesLeave
<1> DEFINE p == ParseSize(data, at, len)
<1>2. ~ (p.size < 0 \/ p.size > len - p.bytes)
  BY <1>1 DEF Delimited
<1>6. at + len <= Len(data)
  BY <1>1
<1>3. p.size \in Int /\ p.bytes \in {-1, 1, 2} /\ (p.size >= 0 => p.bytes \in 1 .. len)
  BY <1>6, SizeFits
<1> HIDE DEF p
<1>4. PICK z \in Int, b \in Int : z = p.size /\ b = p.bytes
  BY <1>3
<1>5. b \in Nat /\ 1 <= b /\ z \in Nat /\ b + z <= len
  BY <1>2, <1>3, <1>4
<1>7. LastSize(data, s, at, len, b, z)
  BY <1>1, <1>4 DEF LastSize, p
<1> QED
  BY <1>1, <1>5, <1>7

CountIs(c, n) == n = c.count
FrameBytesAre(c, all) == all = FrameBytes(c)
IsCbr(c) == c.cbr = TRUE
NotCbr(c) == c.cbr = FALSE

\* Frames of one size, which is stated once.
LEMMA EvenDelimited ==
    ASSUME NEW data \in Seq(Nat), NEW c, CountedFor(data, c), NEW s, NEW n \in Nat,
           SizesLeave(s, n, FrameBytes(c)), IsCbr(c),
           NEW count \in Nat, count >= 1, CountIs(c, count),
           NEW all \in 0 .. Len(data), FrameBytesAre(c, all)
    PROVE  \/ Delimited(data, c, s) = Invalid
           \/ ParseFor(data, TRUE, Delimited(data, c, s))
<1> SUFFICES ASSUME Delimited(data, c, s) # Invalid
             PROVE  ParseFor(data, TRUE, Delimited(data, c, s))
  OBVIOUS
<1>1. SizesLeave(s, n, all)
  BY DEF FrameBytesAre
<1>2. PICK at \in Nat, len \in Nat, b \in Nat, z \in Nat :
          /\ at + len = all /\ 1 <= b /\ b + z <= len
          /\ LastSize(data, s, at, len, b, z)
  BY <1>1, LastSizeFits
<1> DEFINE size == [i \in 1 .. count |-> z]
           m == z * count
<1>4. Delimited(data, c, s) = IF m > len - b THEN Invalid ELSE Parsed(c, at + b, size)
  BY <1>2 DEF Delimited, IsCbr, CountIs, LastSize
<1>5. m \in Nat
  OBVIOUS
<1>6. Total(size, count) = m
  <2>1. \A i \in 1 .. count : size[i] = z
    OBVIOUS
  <2>2. count \in Nat /\ count \in 0 .. count /\ z \in Nat
    OBVIOUS
  <2> HIDE DEF size
  <2> QED
    BY <2>1, <2>2, TotalAll
<1>7. size \in Seq(Nat) /\ Len(size) = count
  OBVIOUS
<1> HIDE DEF size, m
<1>8. ~ (m > len - b) /\ Delimited(data, c, s) = Parsed(c, at + b, size)
  BY <1>4
<1>9. at + b \in Nat /\ (at + b) + m <= all
  <2>1. at + len = all /\ ~ (m > len - b)
    BY <1>2, <1>8
  <2> QED
    BY <1>5, <2>1
<1> QED
  BY <1>6, <1>7, <1>8, <1>9, ParsedFits DEF CountIs, FrameBytesAre

\* The last of frames of several sizes.
LEMMA LastDelimited ==
    ASSUME NEW data \in Seq(Nat), NEW c, CountedFor(data, c), NEW s, NEW n \in Nat,
           SizesLeave(s, n, FrameBytes(c)), NotCbr(c),
           CountIs(c, n + 1), NEW all \in 0 .. Len(data), FrameBytesAre(c, all)
    PROVE  \/ Delimited(data, c, s) = Invalid
           \/ ParseFor(data, TRUE, Delimited(data, c, s))
<1> SUFFICES ASSUME Delimited(data, c, s) # Invalid
             PROVE  ParseFor(data, TRUE, Delimited(data, c, s))
  OBVIOUS
<1>1. SizesLeave(s, n, all)
  BY DEF FrameBytesAre
<1>2. PICK at \in Nat, len \in Nat, b \in Nat, z \in Nat :
          /\ at + len = all /\ 1 <= b /\ b + z <= len
          /\ LastSize(data, s, at, len, b, z)
  BY <1>1, LastSizeFits
<1>3. PICK last \in Int : last = s.last /\ last = len - Total(s.size, n)
  BY <1>1, <1>2 DEF SizesLeave, LastSize
<1> DEFINE size == Append(s.size, z)
           T == Total(s.size, n)
<1>4. Delimited(data, c, s) = IF b + z > last THEN Invalid ELSE Parsed(c, at + b, size)
  BY <1>2, <1>3 DEF Delimited, NotCbr, LastSize
<1>5. /\ size \in Seq(Nat) /\ Len(size) = n + 1 /\ T \in Nat
      /\ Total(size, n + 1) = T + z
  <2>1. s.size \in Seq(Nat) /\ Len(s.size) = n /\ z \in Nat
    BY DEF SizesLeave
  <2> QED
    BY <2>1, AppendTotal
<1> HIDE DEF size, T
<1>6. ~ (b + z > last) /\ Delimited(data, c, s) = Parsed(c, at + b, size)
  BY <1>4
<1>7. last = len - T
  BY <1>3 DEF T
<1>8. at + b \in Nat /\ (at + b) + (T + z) <= all
  <2>1. at + len = all /\ ~ (b + z > last) /\ T \in Nat
    BY <1>2, <1>5, <1>6
  <2> QED
    BY <1>7, <2>1
<1>9. (at + b) + Total(size, n + 1) <= all
  BY <1>5, <1>8
<1> QED
  BY <1>5, <1>6, <1>8, <1>9, ParsedFits DEF CountIs, FrameBytesAre

LEMMA ParseFits ==
    ASSUME NEW data \in Seq(Nat), NEW sd \in BOOLEAN
    PROVE  Parse(data, sd) = Invalid \/ ParseFor(data, sd, Parse(data, sd))
<1> DEFINE c == Counted(data)
           s == Sized(data, c, sd)
<1> SUFFICES ASSUME Parse(data, sd) # Invalid PROVE ParseFor(data, sd, Parse(data, sd))
  OBVIOUS
<1>1. data # <<>> /\ c.ok /\ Parse(data, sd) = ParsedAs(data, sd, c, s)
  BY DEF Parse, ParsedCount
<1>2. CountedFor(data, c)
  BY <1>1, CountedFits
<1>3. SizedFor(c, sd, s)
  BY <1>2, SizedFits
<1> HIDE DEF c, s
<1>4. s.ok /\ ~ (s.last < 0)
  BY <1>1 DEF ParsedAs
<1>5. s.ok = TRUE
  BY <1>3, <1>4 DEF SizedFor
<1>6. PICK count \in Nat, cat \in Nat, clen \in Nat, cpad \in Nat :
         count >= 1 /\ count = c.count /\ cat = c.at /\ clen = c.len /\ cat + clen + cpad = Len(data)
  BY <1>2 DEF CountedFor, CountedNumbers
<1>7. PICK all \in 0 .. Len(data) : all = FrameBytes(c)
  BY <1>6 DEF FrameBytes
<1>9. c.cbr \in BOOLEAN
  BY <1>2 DEF CountedFor
<1>10. PICK n \in Nat : n + 1 = count
  <2>1. count - 1 \in Nat /\ (count - 1) + 1 = count
    BY <1>6
  <2> QED
    BY <2>1
<1>14. c.count - 1 = n
  BY <1>6, <1>10
<1>11. CASE sd = TRUE
  <2>1. Parse(data, sd) = Delimited(data, c, s)
    BY <1>1, <1>4, <1>11 DEF ParsedAs
  <2>2. CASE c.cbr = TRUE
    <3>1. PICK k \in Nat : SizesLeave(s, k, FrameBytes(c))
      BY <1>3, <1>5 DEF SizedFor
    <3> QED
      BY <1>2, <1>6, <1>7, <1>11, <2>1, <2>2, <3>1, EvenDelimited DEF IsCbr, CountIs, FrameBytesAre
  <2>3. CASE c.cbr = FALSE
    <3>1. SizesLeave(s, n, FrameBytes(c))
      BY <1>3, <1>5, <1>14, <2>3 DEF SizedFor
    <3> QED
      BY <1>2, <1>6, <1>7, <1>10, <1>11, <2>1, <2>3, <3>1, LastDelimited DEF NotCbr, CountIs, FrameBytesAre
  <2> QED
    BY <1>9, <2>2, <2>3
<1>12. CASE sd = FALSE
  <2>1. SizesLeave(s, n, FrameBytes(c))
    BY <1>3, <1>5, <1>14, <1>12 DEF SizedFor
  <2>2. PICK at \in Nat, len \in Nat, last \in Int :
            at = s.at /\ len = s.len /\ last = s.last /\ at + len = all
            /\ last = len - Total(s.size, n)
    BY <1>7, <2>1 DEF SizesLeave
  <2>3. last \in Nat
    BY <1>4, <2>2
  <2> DEFINE size == Append(s.size, last)
             T == Total(s.size, n)
  <2>4. Parse(data, sd) = Parsed(c, at, size)
    BY <1>1, <1>4, <1>12, <2>2 DEF ParsedAs
  <2>5. /\ size \in Seq(Nat) /\ Len(size) = n + 1 /\ T \in Nat
        /\ Total(size, n + 1) = T + last
    <3>1. s.size \in Seq(Nat) /\ Len(s.size) = n
      BY <2>1 DEF SizesLeave
    <3> QED
      BY <2>3, <3>1, AppendTotal
  <2> HIDE DEF size, T
  <2>6. last = len - T
    BY <2>2 DEF T
  <2>7. at + (T + last) = all
    BY <2>2, <2>5, <2>6
  <2>9. all <= all
    OBVIOUS
  <2>8. at + Total(size, n + 1) = all /\ at + Total(size, n + 1) <= all
    BY <2>5, <2>7, <2>9, Zenon
  <2> QED
    BY <1>2, <1>6, <1>7, <1>10, <1>12, <2>4, <2>5, <2>8, ParsedFits
<1> QED
  BY <1>11, <1>12

\* The frames of a packet that parses lie in it.
LEMMA FramesFit ==
    ASSUME NEW data \in Seq(Nat), NEW sd, NEW p, ParseFor(data, sd, p)
    PROVE  /\ FramesOf(data, p) \in Seq(Seq(Nat)) /\ Len(FramesOf(data, p)) = p.ret
           /\ \A i \in 1 .. p.ret : Len(FramesOf(data, p)[i]) = p.size[i]
<1>1. PICK n \in Nat, off \in Nat, size \in Seq(Nat) :
         /\ n = p.ret /\ off = p.offset /\ size = p.size /\ Len(size) = n
         /\ off + SumSeq(size) <= Len(data)
  <2>1. /\ p.ret \in Nat /\ p.size \in Seq(Nat) /\ Len(p.size) = p.ret
        /\ p.offset \in Nat
    BY DEF ParseFor
  <2>2. PICK sum \in Nat : sum = SumSeq(p.size)
    <3>1. SumSeq(p.size) = Total(p.size, p.ret)
      BY <2>1, SumSeqIs
    <3>2. \A i \in 0 .. p.ret : Total(p.size, i) \in Nat
      <4>1. \A i \in 1 .. p.ret : p.size[i] \in Nat
        BY <2>1
      <4> QED
        BY <2>1, <4>1, TotalGrows
    <3> QED
      BY <2>1, <3>1, <3>2
  <2>3. p.offset + SumSeq(p.size) <= Len(data)
    <3>1. p.offset + SumSeq(p.size) <= p.packet_offset /\ p.packet_offset <= Len(data)
          /\ p.packet_offset \in Nat
      BY DEF ParseFor
    <3> QED
      BY <2>1, <2>2, <3>1
  <2> QED
    BY <2>1, <2>3
<1>2. SumSeq(size) = Total(size, n)
  <2>1. DOMAIN size = 1 .. n
    BY <1>1
  <2> QED
    BY <2>1, SumSeqIs
<1>3. \A i \in 1 .. n : size[i] \in Nat
  BY <1>1
<1>4. ASSUME NEW i \in 1 .. n
      PROVE  /\ SubSeq(data, off + Total(size, i - 1) + 1, off + Total(size, i - 1) + size[i]) \in Seq(Nat)
             /\ Len(SubSeq(data, off + Total(size, i - 1) + 1, off + Total(size, i - 1) + size[i])) = size[i]
  <2>1. i - 1 \in 0 .. n - 1 /\ i - 1 \in 0 .. n /\ i \in 0 .. n /\ (i - 1) + 1 = i /\ n \in 0 .. n
    OBVIOUS
  <2>2. Total(size, i) = Total(size, i - 1) + size[i]
    <3>1. \A j \in 1 .. n : size[j] \in Int
      BY <1>3
    <3>2. \A j \in 0 .. n - 1 : Total(size, j + 1) = Total(size, j) + size[j + 1]
      BY <3>1, TotalStep
    <3> QED
      BY <2>1, <3>2
  <2>3. Total(size, i - 1) \in Nat /\ Total(size, i) <= Total(size, n) /\ Total(size, n) \in Nat
    <3>1. \A j \in 0 .. n : Total(size, j) \in Nat /\ \A k \in 0 .. j : Total(size, k) <= Total(size, j)
      BY <1>3, TotalGrows
    <3> QED
      BY <2>1, <3>1
  <2>4. size[i] \in Nat /\ off + Total(size, n) <= Len(data)
    BY <1>1, <1>2, <1>3
  <2> DEFINE a == off + Total(size, i - 1)
             z == size[i]
  <2>5. a \in Nat /\ z \in Nat /\ a + z <= Len(data)
    <3> DEFINE T == Total(size, i - 1)
               U == Total(size, i)
               V == Total(size, n)
    <3>1. T \in Nat /\ V \in Nat /\ U = T + z /\ U <= V /\ z \in Nat /\ off + V <= Len(data)
      BY <2>2, <2>3, <2>4
    <3> SUFFICES off + T \in Nat /\ z \in Nat /\ (off + T) + z <= Len(data)
      OBVIOUS
    <3> HIDE DEF T, U, V, z
    <3> QED
      BY <3>1
  <2> HIDE DEF a, z
  <2>6. SubSeq(data, a + 1, a + z) \in Seq(Nat) /\ Len(SubSeq(data, a + 1, a + z)) = z
    BY <2>5
  <2> QED
    BY <2>6 DEF a, z
<1>5. FramesOf(data, p) = [i \in 1 .. n |->
         SubSeq(data, off + Total(size, i - 1) + 1, off + Total(size, i - 1) + size[i])]
  BY <1>1 DEF FramesOf, Total
<1> DEFINE F == FramesOf(data, p)
<1>6. F \in Seq(Seq(Nat)) /\ Len(F) = n
  BY <1>4, <1>5
<1>7. \A i \in 1 .. n : F[i] = SubSeq(data, off + Total(size, i - 1) + 1, off + Total(size, i - 1) + size[i])
  BY <1>5
<1>8. \A i \in 1 .. n : Len(F[i]) = size[i]
  BY <1>4, <1>7
<1> HIDE DEF F
<1> QED
  BY <1>1, <1>6, <1>8 DEF F

LEMMA ParsedIsFor ==
    ASSUME NEW data \in Seq(Nat), NEW sd \in BOOLEAN, Parse(data, sd).ret >= 0
    PROVE  ParseFor(data, sd, Parse(data, sd))
<1>1. ASSUME Parse(data, sd) = Invalid PROVE FALSE
  <2>1. Invalid.ret = -4
    BY DEF Invalid, INVALID_PACKET
  <2>2. -4 >= 0
    BY <1>1, <2>1
  <2> QED
    BY <2>2
<1> QED
  BY <1>1, ParseFits

\* The repacketizer: its frames last no more than 120 ms.
RpInv(r) ==
    /\ r.frames \in Seq(Seq(Nat))
    /\ r.toc \in Nat /\ r.framesize \in Nat
    /\ r.frames # <<>> => r.framesize = SamplesPerFrame(r.toc, 8000)
    /\ Len(r.frames) * SamplesPerFrame(r.toc, 8000) <= 960

LEMMA NewRpInv == RpInv(NewRp)
<1>1. SamplesPerFrame(0, 8000) \in Nat
  BY FrameLength
<1>2. 0 * SamplesPerFrame(0, 8000) = 0
  BY <1>1
<1> QED
  BY <1>2 DEF RpInv, NewRp

LEMMA CatInv ==
    ASSUME NEW r, RpInv(r), NEW data \in Seq(Nat)
    PROVE  RpInv(Catted(r, data, FALSE))
<1> DEFINE k == Catted(r, data, FALSE)
           new == FramesOf(data, Parse(data, FALSE))
<1>0. CASE data = <<>>
  BY <1>0 DEF Catted
<1>1. CASE data # <<>>
  <2>0. k = [toc |-> Toc(r, data), framesize |-> FrameSize(r, data),
             frames |-> IF CanCat(r, data, FALSE) THEN r.frames \o new ELSE r.frames]
    BY <1>1 DEF Catted
  <2>1. data[1] \in Nat
    BY <1>1
  <2>2. PICK fs \in Seq(Seq(Nat)), toc \in Nat, n \in Nat, S \in Nat :
           /\ fs = r.frames /\ toc = Toc(r, data) /\ n = Len(fs)
           /\ S = SamplesPerFrame(toc, 8000) /\ S = FrameSize(r, data)
           /\ n * S <= 960
    <3>1. r.frames \in Seq(Seq(Nat)) /\ Len(r.frames) \in Nat
      BY DEF RpInv
    <3>2. CASE r.frames = <<>>
      <4>1. Toc(r, data) = data[1] /\ FrameSize(r, data) = SamplesPerFrame(data[1], 8000)
        BY <3>2 DEF Toc, FrameSize
      <4>2. SamplesPerFrame(data[1], 8000) \in Nat
        BY <2>1, FrameLength
      <4>3. 0 * SamplesPerFrame(data[1], 8000) <= 960
        BY <4>2
      <4>4. Len(r.frames) = 0
        BY <3>2
      <4> QED
        BY <2>1, <3>1, <4>1, <4>2, <4>3, <4>4
    <3>3. CASE r.frames # <<>>
      <4>1. Toc(r, data) = r.toc /\ FrameSize(r, data) = r.framesize
        BY <3>3 DEF Toc, FrameSize
      <4>2. /\ r.framesize = SamplesPerFrame(r.toc, 8000) /\ r.toc \in Nat /\ r.framesize \in Nat
            /\ Len(r.frames) * SamplesPerFrame(r.toc, 8000) <= 960
        BY <3>3 DEF RpInv
      <4> QED
        BY <3>1, <4>1, <4>2
    <3> QED
      BY <3>2, <3>3, SMTT(30)
  <2>5. Toc(r, data) = toc /\ FrameSize(r, data) = S /\ r.frames = fs
    BY <2>2
  <2>6. Len(fs) = n /\ SamplesPerFrame(toc, 8000) = S
    BY <2>2
  <2> HIDE DEF k, new
  <2>3. CASE ~ CanCat(r, data, FALSE)
    <3>1. k = [toc |-> toc, framesize |-> S, frames |-> fs]
      BY <2>0, <2>3, <2>5, Zenon
    <3>2. k.toc = toc /\ k.framesize = S /\ k.frames = fs
      BY <3>1
    <3>3. k.toc \in Nat /\ k.framesize \in Nat /\ k.frames \in Seq(Seq(Nat))
      BY <3>2
    <3>4. k.framesize = SamplesPerFrame(k.toc, 8000)
      BY <2>6, <3>2
    <3>5. Len(k.frames) * SamplesPerFrame(k.toc, 8000) <= 960
      BY <2>2, <2>6, <3>2
    <3>6. RpInv(k)
      BY <3>3, <3>4, <3>5 DEF RpInv
    <3> QED
      BY <3>6 DEF k
  <2>4. CASE CanCat(r, data, FALSE)
    <3>1. /\ Parse(data, FALSE).ret >= 1
          /\ (NbFrames(data) + Len(r.frames)) * FrameSize(r, data) <= 960
      BY <2>4, ZenonT(40) DEF CanCat, Fits
    <3>2. ParseFor(data, FALSE, Parse(data, FALSE))
      <4>1. Parse(data, FALSE).ret >= 1
        BY <3>1
      <4>2. CASE Parse(data, FALSE) = Invalid
        <5>2. Invalid.ret = -4
          BY DEF Invalid, INVALID_PACKET
        <5>1. -4 >= 1
          BY <4>1, <4>2, <5>2, Zenon
        <5> QED
          BY <5>1
      <4> QED
        BY <4>2, ParseFits
    <3>3. new \in Seq(Seq(Nat)) /\ Len(new) = NbFrames(data)
      BY <3>2, FramesFit DEF ParseFor, new
    <3>4. k = [toc |-> toc, framesize |-> S, frames |-> fs \o new]
      BY <2>0, <2>4, <2>5, Zenon
    <3>5. k.toc = toc /\ k.framesize = S /\ k.frames = fs \o new
      BY <3>4
    <3>14. PICK s \in Seq(Seq(Nat)) : s = new
      BY <3>3
    <3>6. fs \o new \in Seq(Seq(Nat)) /\ Len(fs \o new) = Len(fs) + Len(new)
      <4>1. fs \o s \in Seq(Seq(Nat)) /\ Len(fs \o s) = Len(fs) + Len(s)
        OBVIOUS
      <4> QED
        BY <3>14, <4>1
    <3>8. PICK m \in Nat : m = Len(new)
      BY <3>3
    <3>7. (m + n) * S <= 960
      BY <2>5, <2>6, <3>1, <3>3, <3>8
    <3>9. (n + m) * S <= 960
      <4>1. m + n = n + m
        OBVIOUS
      <4> QED
        BY <3>7, <4>1, ZenonT(40)
    <3>10. k.toc \in Nat /\ k.framesize \in Nat /\ k.frames \in Seq(Seq(Nat))
      BY <3>5, <3>6
    <3>11. k.framesize = SamplesPerFrame(k.toc, 8000)
      BY <2>6, <3>5
    <3>12. Len(k.frames) * SamplesPerFrame(k.toc, 8000) <= 960
      BY <2>6, <3>5, <3>6, <3>8, <3>9
    <3>13. RpInv(k)
      BY <3>10, <3>11, <3>12 DEF RpInv
    <3> QED
      BY <3>13 DEF k
  <2> QED
    BY <2>3, <2>4
<1> QED
  BY <1>0, <1>1

-----------------------------------------------------------------------------
(* What is collected and what is parsed                                    *)

\* What a parse was given, and that it is what Parse says.
ParsedInv ==
    op.call = "parse" =>
        op.data \in Seq(Nat) /\ op.sd \in BOOLEAN /\ op.p = Parse(op.data, op.sd)

WithinInv == RpInv(rp) /\ ParsedInv

LEMMA MultiPadCall ==
    ASSUME NEW m, NEW more, MultiPad(m, more)
    PROVE  rp' = rp /\ op'.call = "multi_pad"
<1>1. rp' = rp
  BY DEF MultiPad
<1>2. PICK ret, buf : op' = [call |-> "multi_pad", m |-> m, ret |-> ret, buf |-> buf]
  BY Zenon DEF MultiPad
<1>3. op'.call = "multi_pad"
  BY <1>2
<1> QED
  BY <1>1, <1>3

LEMMA BytesAreNumbers == Seq(Byte) \subseteq Seq(Nat)
<1>1. Byte \subseteq Nat
  BY DEF Byte
<1> SUFFICES ASSUME NEW s \in Seq(Byte) PROVE s \in Seq(Nat)
  OBVIOUS
<1>2. PICK n \in Nat : Len(s) = n /\ DOMAIN s = 1 .. n
  OBVIOUS
<1>5. \A i \in 1 .. n : s[i] \in Byte
  BY <1>2
<1>3. \A i \in 1 .. n : s[i] \in Nat
  BY <1>1, <1>5
<1>4. s = [i \in 1 .. n |-> s[i]]
  BY <1>2
<1> QED
  BY <1>3, <1>4

LEMMA OtherCall ==
    ASSUME RpInv(rp), rp' = rp, op'.call # "parse"
    PROVE  WithinInv'
BY DEF WithinInv, ParsedInv

LEMMA ToolsWithin ==
    ASSUME WithinInv, Next
    PROVE  WithinInv'
<1>0. RpInv(rp)
  BY DEF WithinInv
<1>1. ASSUME NEW data \in ToSubmit, Cat(data) PROVE WithinInv'
  <2>1. data \in Seq(Nat)
    BY RepacketizerAssumption, BytesAreNumbers
  <2>2. PICK r : r = rp
    OBVIOUS
  <2>3. RpInv(Catted(r, data, FALSE))
    BY <1>0, <2>1, <2>2, CatInv
  <2>4. rp' = Catted(r, data, FALSE) /\ op'.call = "cat"
    BY <1>1, <2>2 DEF Cat
  <2>6. PICK k : k = Catted(r, data, FALSE)
    OBVIOUS
  <2>7. RpInv(k) /\ rp' = k
    BY <2>3, <2>4, <2>6
  <2>5. RpInv(rp)'
    BY <2>7 DEF RpInv
  <2> QED
    BY <2>4, <2>5 DEF WithinInv, ParsedInv
<1>2. ASSUME Reset PROVE WithinInv'
  <2>1. rp' = NewRp /\ op'.call = "none"
    BY <1>2 DEF Reset, NoOp
  <2>2. RpInv(rp)'
    BY <2>1, NewRpInv DEF RpInv
  <2> QED
    BY <2>1, <2>2 DEF WithinInv, ParsedInv
<1>3. ASSUME NEW begin, NEW end, NEW maxlen, NEW sd, NEW pad, OutRange(begin, end, maxlen, sd, pad)
      PROVE WithinInv'
  <2>1. rp' = rp /\ op'.call = "out"
    BY <1>3 DEF OutRange
  <2> QED
    BY <1>0, <2>1, OtherCall
<1>4. ASSUME NEW data, NEW more, Pad(data, more) PROVE WithinInv'
  <2>1. rp' = rp /\ op'.call = "pad"
    BY <1>4 DEF Pad
  <2> QED
    BY <1>0, <2>1, OtherCall
<1>5. ASSUME NEW data, Unpad(data) PROVE WithinInv'
  <2>1. rp' = rp /\ op'.call = "unpad"
    BY <1>5 DEF Unpad
  <2> QED
    BY <1>0, <2>1, OtherCall
<1>6. ASSUME NEW m, MultiUnpad(m) PROVE WithinInv'
  <2>1. rp' = rp /\ op'.call = "multi_unpad"
    BY <1>6 DEF MultiUnpad
  <2> QED
    BY <1>0, <2>1, OtherCall
<1>7. ASSUME NEW m, NEW more, MultiPad(m, more) PROVE WithinInv'
  <2>1. rp' = rp /\ op'.call = "multi_pad"
    BY <1>7, MultiPadCall
  <2> QED
    BY <1>0, <2>1, OtherCall
<1>8. ASSUME NEW data \in ByteStrings, NEW sd \in BOOLEAN, ParseBytes(data, sd) PROVE WithinInv'
  <2>1. data \in Seq(Nat)
    BY RepacketizerAssumption, BytesAreNumbers
  <2>2. rp' = rp /\ op' = [call |-> "parse", data |-> data, sd |-> sd, p |-> Parse(data, sd)]
    BY <1>8 DEF ParseBytes
  <2>3. op'.data = data /\ op'.sd = sd /\ op'.p = Parse(data, sd)
    BY <2>2
  <2>4. RpInv(rp)'
    BY <1>0, <2>2
  <2> QED
    BY <2>1, <2>3, <2>4 DEF WithinInv, ParsedInv
<1> QED
  BY <1>1, <1>2, <1>3, <1>4, <1>5, <1>6, <1>7, <1>8 DEF Next

\* Neither the encoder nor the decoder has anything to do with these.
LEMMA StreamCalls ==
    ASSUME Encoder \/ OwnDecoder \/ ForeignDecoder
    PROVE  rp' = rp /\ op'.call \in {"enc_init", "refused", "encode", "header", "decode"}
<1>1. ASSUME NEW setup, EncInit(setup) PROVE rp' = rp /\ op'.call = "enc_init"
  BY <1>1 DEF EncInit
<1>2. ASSUME EncodeRefused PROVE rp' = rp /\ op'.call = "refused"
  BY <1>2 DEF EncodeRefused
<1>3. ASSUME NEW p, EncodeStream(p) PROVE rp' = rp /\ op'.call = "encode"
  BY <1>3, Zenon DEF EncodeStream
<1>4. ASSUME NEW p, Header(p) PROVE rp' = rp /\ op'.call = "header"
  BY <1>4 DEF Header
<1>5. ASSUME NEW data, Decode(data) PROVE rp' = rp /\ op'.call = "decode"
  BY <1>5 DEF Decode
<1> QED
  BY <1>1, <1>2, <1>3, <1>4, <1>5 DEF Encoder, OwnDecoder, ForeignDecoder

LEMMA StreamsWithin ==
    ASSUME WithinInv, Encoder \/ OwnDecoder \/ ForeignDecoder
    PROVE  WithinInv'
<1>1. rp' = rp /\ op'.call \in {"enc_init", "refused", "encode", "header", "decode"}
  BY StreamCalls
<1>2. op'.call # "parse"
  BY <1>1
<1> QED
  BY <1>1, <1>2, OtherCall DEF WithinInv

\* 48 frames of 2.5 ms are 120 ms.
LEMMA UpTo48 ==
    ASSUME NEW r, RpInv(r)
    PROVE  Len(r.frames) <= 48
<1>1. PICK n \in Nat : n = Len(r.frames)
  BY DEF RpInv
<1>2. PICK S \in {20, 40, 80, 160, 320, 480} : S = SamplesPerFrame(r.toc, 8000)
  BY FrameLength DEF RpInv
<1>3. n * S <= 960
  BY <1>1, <1>2 DEF RpInv
<1>4. n <= 48
  BY <1>2, <1>3
<1> QED
  BY <1>1, <1>4

LEMMA WithinFollows == ASSUME WithinInv PROVE ParseWithin
<1>0. RpInv(rp) /\ ParsedInv
  BY DEF WithinInv
<1>1. Len(rp.frames) <= 48
  BY <1>0, UpTo48
<1>2. Duration(Len(rp.frames), rp.toc) <= 960
  BY <1>0 DEF RpInv, Duration
<1>3. ASSUME op.call = "parse", op.p.ret >= 0
      PROVE  /\ op.p.ret = NbFrames(op.data) /\ Len(op.p.size) = op.p.ret
             /\ op.p.ret \in 1 .. 48
             /\ \A i \in 1 .. op.p.ret : op.p.size[i] >= 0
             /\ op.p.offset + SumSeq(op.p.size) <= op.p.packet_offset
             /\ op.p.packet_offset <= Len(op.data)
             /\ ~ op.sd => op.p.packet_offset = Len(op.data)
  <2>1. op.data \in Seq(Nat) /\ op.sd \in BOOLEAN /\ op.p = Parse(op.data, op.sd)
    BY <1>0, <1>3 DEF ParsedInv
  <2>2. PICK p : p = op.p
    OBVIOUS
  <2>3. ParseFor(op.data, op.sd, p) 
    BY <1>3, <2>1, <2>2, ParsedIsFor
  <2>4. p.ret \in Nat /\ p.ret >= 1 /\ p.ret <= 48 /\ p.size \in Seq(Nat) /\ Len(p.size) = p.ret
    BY <2>3 DEF ParseFor
  <2>9. PICK n \in Nat : n = p.ret /\ n >= 1 /\ n <= 48
    BY <2>4
  <2>5. p.ret \in 1 .. 48
    BY <2>9
  <2>6. \A i \in 1 .. p.ret : p.size[i] >= 0
    BY <2>4
  <2>7. ~ op.sd => p.packet_offset = Len(op.data)
    <3>1. ~ op.sd => op.sd = FALSE
      BY <2>1
    <3> QED
      BY <2>3, <3>1, Zenon DEF ParseFor
  <2>8. /\ p.ret = NbFrames(op.data)
        /\ p.offset + SumSeq(p.size) <= p.packet_offset
        /\ p.packet_offset <= Len(op.data)
    BY <2>3 DEF ParseFor
  <2> QED
    BY <2>2, <2>4, <2>5, <2>6, <2>7, <2>8
<1> QED
  BY <1>1, <1>2, <1>3 DEF ParseWithin

\* Whatever bytes are parsed: the frames lie in the packet and are no more than
\* the 48 entries of size[], and the repacketizer never holds more than 120 ms.
THEOREM FramesLieWithin == MSSpec => []ParseWithin
<1>1. MSInit => WithinInv
  <2>1. SUFFICES ASSUME MSInit PROVE WithinInv
    OBVIOUS
  <2>2. rp = NewRp /\ op.call = "none"
    BY <2>1 DEF MSInit, Init, NoOp
  <2>3. RpInv(rp)
    BY <2>2, NewRpInv DEF RpInv
  <2> QED
    BY <2>2, <2>3 DEF WithinInv, ParsedInv
<1>2. WithinInv /\ [MSNext]_allVars => WithinInv'
  <2>1. ASSUME WithinInv, UNCHANGED allVars PROVE WithinInv'
    <3>1. rp' = rp /\ op' = op
      BY <2>1 DEF allVars, vars
    <3> QED
      BY <2>1, <3>1 DEF WithinInv, ParsedInv
  <2> QED
    BY <2>1, ToolsWithin, StreamsWithin DEF MSNext, Tools
<1>3. WithinInv => ParseWithin
  BY WithinFollows
<1> QED
  BY <1>1, <1>2, <1>3, PTL DEF MSSpec

-----------------------------------------------------------------------------
(* The longest frames                                                      *)

Longest == 4 * 255 + 255

LEMMA BytesUpTo255 ==
    ASSUME NEW data \in Seq(Byte), NEW i \in 1 .. Len(data)
    PROVE  data[i] \in Nat /\ data[i] <= 255
<1>1. data[i] \in Byte
  OBVIOUS
<1>2. \A b \in Byte : b \in Nat /\ b <= 255
  BY DEF Byte
<1> QED
  BY <1>1, <1>2

LEMMA EscIs == Esc \in Nat /\ Esc >= 4 /\ Esc <= 252
BY PacketAssumption

\* A size of two bytes is at most that long.
LEMMA SizeUpTo ==
    ASSUME NEW data \in Seq(Byte), NEW at \in Nat, NEW len \in Nat, at + len <= Len(data),
           ParseSize(data, at, len).size >= 0
    PROVE  ParseSize(data, at, len).size <= Longest
<1> DEFINE p == ParseSize(data, at, len)
<1>1. CASE len < 1
  <2>1. p.size = -1
    BY <1>1 DEF ParseSize
  <2>2. -1 >= 0
    BY <2>1
  <2> QED
    BY <2>2
<1>2. CASE len >= 1
  <2>1. PICK a \in Nat : a = data[at + 1] /\ a <= 255
    <3>1. at + 1 \in 1 .. Len(data)
      BY <1>2
    <3> QED
      BY <3>1, BytesUpTo255
  <2>3. CASE a < Esc
    <3>1. p.size = a
      BY <1>2, <2>1, <2>3 DEF ParseSize
    <3> QED
      BY <2>1, <3>1 DEF Longest
  <2>4. CASE ~ (a < Esc) /\ len < 2
    <3>1. p.size = -1
      BY <1>2, <2>1, <2>4 DEF ParseSize
    <3>2. -1 >= 0
      BY <3>1
    <3> QED
      BY <3>2
  <2>5. CASE ~ (a < Esc) /\ len >= 2
    <3>1. PICK b \in Nat : b = data[at + 2] /\ b <= 255
      <4>1. at + 2 \in 1 .. Len(data)
        BY <2>5
      <4> QED
        BY <4>1, BytesUpTo255
    <3>2. p = [bytes |-> 2, size |-> 4 * b + a]
      BY <1>2, <2>1, <2>5, <3>1 DEF ParseSize
    <3>3. p.size = 4 * b + a
      BY <3>2
    <3>4. 4 * b + a <= Longest
      BY <2>1, <3>1, SMTT(30) DEF Longest
    <3> QED
      BY <3>3, <3>4
  <2> QED
    BY <2>3, <2>4, <2>5
<1> QED
  BY <1>1, <1>2

SizesUpTo(size, m) == \A i \in DOMAIN size : size[i] <= m

LEMMA AppendUpTo ==
    ASSUME NEW s \in Seq(Nat), NEW x \in Nat, NEW m \in Nat, SizesUpTo(s, m), x <= m
    PROVE  SizesUpTo(Append(s, x), m)
BY DEF SizesUpTo

LEMMA VbrUpTo ==
    ASSUME NEW data \in Seq(Byte), NEW at \in Nat, NEW len \in Nat, at + len <= Len(data),
           NEW n \in Nat, VbrSizes(data, at, len, n).ok = TRUE
    PROVE  SizesUpTo(VbrSizes(data, at, len, n).size, Longest)
<1>0. data \in Seq(Nat)
  BY BytesAreNumbers
<1>1. PICK f : IsVbr(f, data, at, len, n) /\ VbrSizes(data, at, len, n) = f[n]
  BY VbrIs
<1> DEFINE all == at + len
           Good(g, i) == /\ g.ok \in BOOLEAN
                         /\ g.ok = TRUE => SizesLeave(g, i, all) /\ SizesUpTo(g.size, Longest)
           P == {i \in 0 .. n : Good(f[i], i)}
<1>2. 0 \in P
  <2>1. f[0] = VbrStart(at, len)
    BY <1>1 DEF IsVbr
  <2>2. <<>> \in Seq(Nat) /\ Len(<<>>) = 0 /\ Total(<<>>, 0) = 0
    <3>1. \A i \in 1 .. 0 : <<>>[i] \in Int
      OBVIOUS
    <3>2. Total(<<>>, 0) = 0
      BY <3>1, TotalStep
    <3> QED
      BY <3>2
  <2>3. SizesLeave(VbrStart(at, len), 0, all) /\ VbrStart(at, len).ok = TRUE
    BY <2>2 DEF SizesLeave, VbrStart
  <2>4. SizesUpTo(VbrStart(at, len).size, Longest)
    BY DEF SizesUpTo, VbrStart
  <2>6. PICK g : g = VbrStart(at, len) /\ g = f[0]
    BY <2>1
  <2>7. Good(g, 0)
    BY <2>3, <2>4, <2>6
  <2>5. 0 \in 0 .. n /\ Good(f[0], 0)
    BY <2>6, <2>7
  <2> QED
    BY <2>5
<1>3. ASSUME NEW i \in 0 .. n - 1, i \in P PROVE i + 1 \in P
  <2>1. PICK g : g = f[i]
    OBVIOUS
  <2>2. PICK k : k = VbrNext(data, g) /\ k = f[i + 1]
    BY <1>1, <2>1 DEF IsVbr
  <2>3. Good(g, i)
    BY <1>3, <2>1
  <2>4. all \in Nat /\ i \in Nat /\ i + 1 \in 0 .. n /\ all <= Len(data)
    OBVIOUS
  <2> HIDE DEF all, P
  <2>5. k.ok \in BOOLEAN /\ (k.ok = TRUE => SizesLeave(k, i + 1, all))
    BY <1>0, <2>2, <2>3, <2>4, VbrStep, ZenonT(40)
  <2>6. CASE g.ok = FALSE
    <3>1. k = g
      BY <2>2, <2>6 DEF VbrNext
    <3> QED
      BY <2>2, <2>4, <2>5, <2>6, <3>1 DEF P
  <2>7. CASE g.ok = TRUE
    <3> DEFINE p == ParseSize(data, g.at, g.len)
    <3>1. SizesLeave(g, i, all) /\ SizesUpTo(g.size, Longest)
      BY <2>3, <2>7
    <3>2. k = [ok |-> p.size >= 0 /\ p.size <= g.len - p.bytes, at |-> g.at + p.bytes,
               len |-> g.len - p.bytes, last |-> g.last - p.bytes - p.size,
               size |-> Append(g.size, p.size)]
      BY <2>2, <2>7 DEF VbrNext
    <3>3. k.ok = (p.size >= 0 /\ p.size <= g.len - p.bytes) /\ k.size = Append(g.size, p.size)
      BY <3>2
    <3>4. ASSUME k.ok = TRUE PROVE SizesUpTo(k.size, Longest)
      <4>1. p.size >= 0
        BY <3>3, <3>4
      <4>2. g.at \in Nat /\ g.len \in Nat /\ g.at + g.len <= Len(data) /\ g.size \in Seq(Nat)
        BY <2>4, <3>1 DEF SizesLeave
      <4>3. p.size <= Longest
        BY <4>1, <4>2, SizeUpTo
      <4>4. p.size \in Nat
        BY <1>0, <4>1, <4>2, SizeFits
      <4>5. SizesUpTo(Append(g.size, p.size), Longest)
        <5> HIDE DEF p
        <5>1. Longest \in Nat
          BY DEF Longest
        <5> QED
          BY <3>1, <4>2, <4>3, <4>4, <5>1, AppendUpTo
      <4> QED
        BY <3>3, <4>5
    <3>5. Good(k, i + 1)
      BY <2>5, <3>4
    <3> QED
      BY <2>2, <2>4, <3>5 DEF P
  <2> QED
    BY <2>3, <2>6, <2>7
<1> HIDE DEF P
<1>4. \A i \in 0 .. n : i \in P
  BY <1>2, <1>3, InductionTo
<1>5. n \in P
  BY <1>4
<1> QED
  BY <1>1, <1>5 DEF P

LEMMA ParseUpTo ==
    ASSUME NEW data \in Seq(Byte), MaxFrame = Longest, Parse(data, FALSE).ret >= 0
    PROVE  SizesUpTo(Parse(data, FALSE).size, Longest)
<1> DEFINE c == Counted(data)
           s == Sized(data, c, FALSE)
<1>0. data \in Seq(Nat)
  BY BytesAreNumbers
<1>1. Parse(data, FALSE) # Invalid
  <2>1. SUFFICES ASSUME Parse(data, FALSE) = Invalid PROVE FALSE
    OBVIOUS
  <2>2. Invalid.ret = -4
    BY DEF Invalid, INVALID_PACKET
  <2>3. -4 >= 0
    BY <2>1, <2>2
  <2> QED
    BY <2>3
<1>2. data # <<>> /\ c.ok /\ Parse(data, FALSE) = ParsedAs(data, FALSE, c, s)
  BY <1>1 DEF Parse, ParsedCount
<1>3. CountedFor(data, c)
  BY <1>0, <1>2, CountedFits
<1>4. SizedFor(c, FALSE, s)
  BY <1>0, <1>3, SizedFits
<1> HIDE DEF c, s
<1>5. s.ok /\ ~ (s.last < 0) /\ ~ (s.last > MaxFrame)
      /\ Parse(data, FALSE) = Parsed(c, s.at, Append(s.size, s.last))
  BY <1>1, <1>2 DEF ParsedAs
<1>6. s.ok = TRUE
  BY <1>4, <1>5 DEF SizedFor
<1>7. SizesLeave(s, c.count - 1, FrameBytes(c))
  BY <1>4, <1>6 DEF SizedFor
<1>8. PICK last \in Nat : last = s.last /\ last <= Longest
  <2>1. s.last \in Int
    BY <1>7 DEF SizesLeave
  <2>2. Longest \in Nat
    BY DEF Longest
  <2> QED
    BY <1>5, <2>1, <2>2
<1>9. Parse(data, FALSE).size = Append(s.size, last)
  <2>1. Parsed(c, s.at, Append(s.size, s.last)).size = Append(s.size, s.last)
    BY DEF Parsed
  <2> QED
    BY <1>5, <1>8, <2>1, Zenon
<1>10. s.size \in Seq(Nat)
  BY <1>7 DEF SizesLeave
<1>11. SizesUpTo(s.size, Longest)
  <2>1. c.cbr \in BOOLEAN /\ c.vbr \in BOOLEAN
        /\ (c.cbr = FALSE /\ c.vbr = FALSE => c.count = 1)
    BY <1>3 DEF CountedFor
  <2>2. c.at \in Nat /\ c.len \in Nat /\ c.at + c.len <= Len(data)
        /\ c.count \in Nat \ {0} /\ c.count - 1 \in Nat
    BY <1>3 DEF CountedFor, CountedNumbers
  <2>3. CASE c.vbr = TRUE
    <3>1. s = VbrSizes(data, c.at, c.len, c.count - 1)
      BY <2>3 DEF s, Sized
    <3> QED
      BY <1>6, <2>2, <3>1, VbrUpTo
  <2>4. CASE c.vbr = FALSE /\ c.cbr = TRUE
    <3>1. s = EvenSizes(c.at, c.len, c.count)
      BY <2>4 DEF s, Sized
    <3>2. \A i \in 1 .. c.count - 1 : EvenSizes(c.at, c.len, c.count).size[i]
                                         = EvenSizes(c.at, c.len, c.count).last
      BY <2>2, EvenFits
    <3>3. \A i \in 1 .. c.count - 1 : s.size[i] = s.last
      BY <3>1, <3>2
    <3>4. PICK m \in Nat : m = c.count - 1
      BY <2>2
    <3>5. Len(s.size) = m
      BY <1>7, <3>4 DEF SizesLeave
    <3>6. DOMAIN s.size = 1 .. m
      BY <1>10, <3>5
    <3>7. \A i \in 1 .. m : s.size[i] = last
      BY <1>8, <3>3, <3>4
    <3> QED
      BY <1>8, <3>6, <3>7 DEF SizesUpTo
  <2>5. CASE c.vbr = FALSE /\ c.cbr = FALSE
    <3>1. s.size = <<>>
      BY <2>5 DEF s, Sized
    <3> QED
      BY <3>1 DEF SizesUpTo
  <2> QED
    BY <2>1, <2>3, <2>4, <2>5
<1>12. Longest \in Nat
  BY DEF Longest
<1> QED
  BY <1>8, <1>9, <1>10, <1>11, <1>12, AppendUpTo

\* No frame that is collected is longer.
FramesUpTo(frames) == \A i \in DOMAIN frames : Len(frames[i]) <= Longest

LEMMA CatUpTo ==
    ASSUME NEW r, RpInv(r), FramesUpTo(r.frames), NEW data \in Seq(Byte), MaxFrame = Longest
    PROVE  FramesUpTo(Catted(r, data, FALSE).frames)
<1>0. data \in Seq(Nat)
  BY BytesAreNumbers
<1> DEFINE new == FramesOf(data, Parse(data, FALSE))
<1>1. CASE Catted(r, data, FALSE).frames = r.frames
  BY <1>1
<1>2. CASE Catted(r, data, FALSE).frames # r.frames
  <2>1. data # <<>> /\ CanCat(r, data, FALSE) /\ Catted(r, data, FALSE).frames = r.frames \o new
    BY <1>2 DEF Catted
  <2>2. Parse(data, FALSE).ret >= 1
    BY <2>1 DEF CanCat
  <2>6. ParseFor(data, FALSE, Parse(data, FALSE))
    <3>1. CASE Parse(data, FALSE) = Invalid
      <4>1. Invalid.ret = -4
        BY DEF Invalid, INVALID_PACKET
      <4>2. -4 >= 1
        BY <2>2, <3>1, <4>1, Zenon
      <4> QED
        BY <4>2
    <3> QED
      BY <1>0, <3>1, ParseFits
  <2>7. PICK p : p = Parse(data, FALSE)
    OBVIOUS
  <2>3. p.ret \in Nat /\ p.ret >= 1 /\ p.size \in Seq(Nat) /\ Len(p.size) = p.ret
    BY <2>6, <2>7 DEF ParseFor
  <2>4. SizesUpTo(p.size, Longest)
    <3>1. p.ret >= 0
      BY <2>3
    <3> QED
      BY <2>7, <3>1, ParseUpTo
  <2>5. /\ new \in Seq(Seq(Nat)) /\ Len(new) = p.ret
        /\ \A i \in 1 .. p.ret : Len(new[i]) = p.size[i]
    BY <1>0, <2>6, <2>7, FramesFit
  <2> HIDE DEF new
  <2>8. PICK n \in Nat, s \in Seq(Nat) : n = p.ret /\ s = p.size /\ Len(s) = n
    BY <2>3
  <2>9. \A i \in 1 .. n : Len(new[i]) <= Longest
    BY <2>4, <2>5, <2>8 DEF SizesUpTo
  <2>10. PICK fs \in Seq(Seq(Nat)) : fs = r.frames
    BY DEF RpInv
  <2>11. PICK ns \in Seq(Seq(Nat)) : ns = new
    BY <2>5
  <2>12. \A i \in 1 .. Len(fs) : Len(fs[i]) <= Longest
    BY <2>10 DEF FramesUpTo
  <2>13. \A i \in 1 .. Len(ns) : Len(ns[i]) <= Longest
    BY <2>5, <2>8, <2>9, <2>11
  <2>14. \A i \in 1 .. Len(fs \o ns) : Len((fs \o ns)[i]) <= Longest
    <3>1. SUFFICES ASSUME NEW i \in 1 .. Len(fs \o ns) PROVE Len((fs \o ns)[i]) <= Longest
      OBVIOUS
    <3>2. CASE i \in 1 .. Len(fs)
      <4>1. (fs \o ns)[i] = fs[i]
        BY <3>2
      <4> QED
        BY <2>12, <3>2, <4>1
    <3>3. CASE ~ (i \in 1 .. Len(fs))
      <4>1. i - Len(fs) \in 1 .. Len(ns) /\ (fs \o ns)[i] = ns[i - Len(fs)]
        BY <3>1, <3>3
      <4> QED
        BY <2>13, <4>1
    <3> QED
      BY <3>2, <3>3
  <2>15. DOMAIN (fs \o ns) = 1 .. Len(fs \o ns)
    OBVIOUS
  <2> QED
    BY <2>1, <2>10, <2>11, <2>14, <2>15 DEF FramesUpTo, new
<1> QED
  BY <1>1, <1>2

LEMMA EncodedSize ==
    ASSUME NEW n \in Nat
    PROVE  /\ EncodeSize(n) \in Seq(Nat) /\ (Len(EncodeSize(n)) = 1 \/ Len(EncodeSize(n)) = 2)
           /\ n < Esc => Len(EncodeSize(n)) = 1
<1>1. Esc \in Nat /\ Esc % 4 = 0
  BY EscIs, PacketAssumption
<1>2. CASE n < Esc
  <2>1. EncodeSize(n) = <<n>>
    BY <1>2 DEF EncodeSize
  <2> QED
    BY <2>1
<1>3. CASE ~ (n < Esc)
  <2>1. PICK b \in Nat, q \in Nat : b = Esc + (n % 4) /\ q = (n - b) \div 4
    <3>1. Esc + (n % 4) \in Nat /\ Esc + (n % 4) <= n
      BY <1>1, <1>3
    <3>2. \A b \in Nat : b <= n => (n - b) \div 4 \in Nat
      OBVIOUS
    <3> QED
      BY <3>1, <3>2
  <2>2. EncodeSize(n) = <<b, q>>
    BY <1>3, <2>1 DEF EncodeSize
  <2> QED
    BY <1>3, <2>2
<1> QED
  BY <1>2, <1>3

\* The recursion of EncodedSizes.
IsEncoded(f, size, n) ==
    f = [i \in 0 .. n |-> IF i = 0 THEN <<>> ELSE f[i - 1] \o EncodeSize(size[i])]

LEMMA EncodedIs ==
    ASSUME NEW size, NEW n \in Nat, n = Len(size)
    PROVE  \E f : IsEncoded(f, size, n) /\ EncodedSizes(size) = f[n]
<1> DEFINE P == {m \in 0 .. n : \E f : IsEncoded(f, size, m)}
<1>1. 0 \in P
  <2> DEFINE f == [i \in 0 .. 0 |-> <<>>]
  <2>1. IsEncoded(f, size, 0)
    BY DEF IsEncoded
  <2> QED
    BY <2>1
<1>2. ASSUME NEW m \in 0 .. n - 1, m \in P PROVE m + 1 \in P
  <2>1. PICK f : IsEncoded(f, size, m)
    BY <1>2
  <2> DEFINE g == [i \in 0 .. m + 1 |-> IF i <= m THEN f[i] ELSE f[m] \o EncodeSize(size[i])]
  <2>2. IsEncoded(g, size, m + 1)
    <3>1. ASSUME NEW i \in 0 .. m + 1
          PROVE  g[i] = IF i = 0 THEN <<>> ELSE g[i - 1] \o EncodeSize(size[i])
      <4>1. CASE i = 0
        BY <2>1, <4>1 DEF IsEncoded
      <4>2. CASE i \in 1 .. m
        <5>1. i \in 0 .. m /\ i # 0 /\ i <= m /\ i - 1 \in 0 .. m + 1 /\ i - 1 <= m
          BY <4>2
        <5>2. f[i] = f[i - 1] \o EncodeSize(size[i])
          BY <2>1, <5>1 DEF IsEncoded
        <5>3. g[i] = f[i] /\ g[i - 1] = f[i - 1]
          BY <5>1
        <5> QED
          BY <5>1, <5>2, <5>3, Zenon
      <4>3. CASE i = m + 1
        BY <4>3
      <4> QED
        BY <4>1, <4>2, <4>3
    <3>2. g = [i \in 0 .. m + 1 |-> g[i]]
      OBVIOUS
    <3> HIDE DEF g
    <3>3. g = [i \in 0 .. m + 1 |-> IF i = 0 THEN <<>> ELSE g[i - 1] \o EncodeSize(size[i])]
      BY <3>1, <3>2
    <3> QED
      BY <3>3 DEF IsEncoded
  <2> QED
    BY <2>2
<1> HIDE DEF P
<1>3. n \in P
  BY <1>1, <1>2, InductionTo
<1>4. IsEncoded(CHOOSE f : IsEncoded(f, size, n), size, n)
  BY <1>3 DEF P
<1>5. EncodedSizes(size) = (CHOOSE f : IsEncoded(f, size, n))[n]
  BY DEF EncodedSizes, IsEncoded
<1> QED
  BY <1>4, <1>5

\* Two bytes for each size are enough.
LEMMA EncodedFits ==
    ASSUME NEW size \in Seq(Nat), NEW n \in Nat, n = Len(size)
    PROVE  EncodedSizes(size) \in Seq(Nat) /\ Len(EncodedSizes(size)) \in Nat /\ Len(EncodedSizes(size)) <= 2 * n
<1>1. PICK f : IsEncoded(f, size, n) /\ EncodedSizes(size) = f[n]
  BY EncodedIs
<1> DEFINE P == {i \in 0 .. n : f[i] \in Seq(Nat) /\ Len(f[i]) <= 2 * i}
<1>2. 0 \in P
  <2>1. f[0] = <<>>
    BY <1>1 DEF IsEncoded
  <2>2. <<>> \in Seq(Nat) /\ Len(<<>>) = 0
    OBVIOUS
  <2>3. f[0] \in Seq(Nat) /\ Len(f[0]) <= 2 * 0
    BY <2>1, <2>2
  <2> QED
    BY <2>3
<1>3. ASSUME NEW i \in 0 .. n - 1, i \in P PROVE i + 1 \in P
  <2>7. PICK k \in 1 .. n : k = i + 1 /\ k - 1 = i
    OBVIOUS
  <2>8. f[k] = f[k - 1] \o EncodeSize(size[k])
    BY <1>1 DEF IsEncoded
  <2>1. f[i + 1] = f[i] \o EncodeSize(size[i + 1])
    BY <2>7, <2>8
  <2>2. size[i + 1] \in Nat
    OBVIOUS
  <2>3. PICK e \in Seq(Nat) : e = EncodeSize(size[i + 1]) /\ (Len(e) = 1 \/ Len(e) = 2)
    BY <2>2, EncodedSize
  <2>4. PICK g \in Seq(Nat) : g = f[i] /\ Len(g) <= 2 * i
    BY <1>3
  <2>5. g \o e \in Seq(Nat) /\ Len(g \o e) <= 2 * (i + 1)
    <3>4. PICK a \in Nat : a = Len(g) /\ a <= 2 * i
      BY <2>4
    <3>6. Len(e) = 1 \/ Len(e) = 2
      BY <2>3
    <3>7. (1 \in Nat /\ 1 <= 2) /\ (2 \in Nat /\ 2 <= 2)
      OBVIOUS
    <3>5. PICK b \in Nat : b = Len(e) /\ b <= 2
      BY <3>6, <3>7, Zenon
    <3>1. a = Len(g) /\ a <= 2 * i /\ b = Len(e) /\ b <= 2
      BY <3>4, <3>5
    <3>2. g \o e \in Seq(Nat) /\ Len(g \o e) = a + b
      BY <3>1
    <3>3. a + b <= 2 * (i + 1)
      BY <3>1
    <3> QED
      BY <3>2, <3>3
  <2>6. i + 1 \in 0 .. n /\ f[i + 1] = g \o e
    BY <2>1, <2>3, <2>4
  <2> QED
    BY <2>5, <2>6
<1> HIDE DEF P
<1>4. n \in P
  <2>1. \A i \in 0 .. n : i \in P
    BY <1>2, <1>3, InductionTo
  <2> QED
    BY <2>1
<1> QED
  BY <1>1, <1>4 DEF P

\* The room that guarantees success.
RoomEnough(n, maxlen, top) == maxlen >= IF n = 1 THEN top + 1 ELSE (top + 2) * n

\* The header of n frames that make up sum bytes, at its shortest and under code 3.
ShortHead(size, sum, n, s) ==
    Simple(size, FALSE) = sum + s /\ s >= 1 /\ s <= 3 /\ (n = 1 => s = 1)
LongHead(size, sum, n, m) ==
    Multiple(size, FALSE) = sum + 2 + m /\ m <= 2 * (n - 1)

\* n frames that make up sum bytes.
Adds(size, n, sum) == n = Len(size) /\ sum = SumSeq(size)

LEMMA ShortHeadFits ==
    ASSUME NEW size \in Seq(Nat), NEW n \in Nat, NEW sum \in Nat, Adds(size, n, sum)
    PROVE  \E s \in Nat : ShortHead(size, sum, n, s)
<1>1. Len(SelfSize(size, FALSE)) = 0
  BY DEF SelfSize
<1>2. Len(size) = n /\ SumSeq(size) = sum
  BY DEF Adds
<1>3. PICK more : more = IF Len(size) = 2 /\ Vbr(size) THEN 1 + Len(EncodeSize(size[1])) ELSE 1
  OBVIOUS
<1>4. Simple(size, FALSE) = Len(SelfSize(size, FALSE)) + SumSeq(size) + more
  BY <1>3, Zenon DEF Simple
<1>5. Simple(size, FALSE) = 0 + sum + more
  BY <1>1, <1>2, <1>4, Zenon
<1>6. (more = 1 \/ more = 2 \/ more = 3) /\ (n = 1 => more = 1)
  <2>1. CASE Len(size) = 2 /\ Vbr(size)
    <3>1. size[1] \in Nat
      BY <2>1, SMTT(30)
    <3>2. PICK e \in {1, 2} : e = Len(EncodeSize(size[1]))
      BY <3>1, EncodedSize
    <3>3. more = 1 + e
      BY <1>3, <2>1, <3>2, Zenon
    <3>4. n = 2
      BY <1>2, <2>1
    <3>5. 1 + e = 2 \/ 1 + e = 3
      OBVIOUS
    <3>6. more = 2 \/ more = 3
      BY <3>3, <3>5, Zenon
    <3>7. n # 1
      BY <3>4
    <3> QED
      BY <3>6, <3>7, Zenon
  <2>2. CASE ~ (Len(size) = 2 /\ Vbr(size))
    <3>1. more = 1
      BY <1>3, <2>2, Zenon
    <3> QED
      BY <3>1
  <2> QED
    BY <2>1, <2>2
<1>7. PICK s \in Nat : s = more
  BY <1>6
<1>8. s >= 1 /\ s <= 3 /\ (n = 1 => s = 1)
  BY <1>6, <1>7
<1>9. Simple(size, FALSE) = 0 + sum + s
  BY <1>5, <1>7, Zenon
<1>10. 0 + sum + s = sum + s
  OBVIOUS
<1>11. Simple(size, FALSE) = sum + s
  BY <1>9, <1>10, Zenon
<1> QED
  BY <1>8, <1>11 DEF ShortHead

LEMMA LongHeadFits ==
    ASSUME NEW size \in Seq(Nat), NEW n \in Nat, n >= 1, NEW sum \in Nat, Adds(size, n, sum)
    PROVE  \E m \in Nat : LongHead(size, sum, n, m)
<1>1. Len(SelfSize(size, FALSE)) = 0
  BY DEF SelfSize
<1>2. Len(size) = n /\ SumSeq(size) = sum
  BY DEF Adds
<1>3. PICK k \in Nat : k = n - 1
  OBVIOUS
<1>4. AllButLast(size) \in Seq(Nat) /\ Len(AllButLast(size)) = k
  BY <1>2, <1>3 DEF AllButLast
<1>5. PICK e \in Nat : e = Len(EncodedSizes(AllButLast(size))) /\ e <= 2 * k
  BY <1>4, EncodedFits
<1>6. PICK m : m = IF Vbr(size) THEN Len(EncodedSizes(AllButLast(size))) ELSE 0
  OBVIOUS
<1>7. Multiple(size, FALSE) = Len(SelfSize(size, FALSE)) + SumSeq(size) + 2 + m
  BY <1>6, Zenon DEF Multiple
<1>8. Multiple(size, FALSE) = 0 + sum + 2 + m
  BY <1>1, <1>2, <1>7, Zenon
<1>9. m = e \/ m = 0
  BY <1>5, <1>6, Zenon
<1>10. m \in Nat /\ m <= 2 * k
  <2>1. e \in Nat /\ e <= 2 * k /\ 0 <= 2 * k
    BY <1>5
  <2> QED
    BY <1>9, <2>1
<1>11. 0 + sum + 2 + m = sum + 2 + m
  BY <1>10
<1>12. Multiple(size, FALSE) = sum + 2 + m
  BY <1>8, <1>11, Zenon
<1>13. m <= 2 * (n - 1)
  BY <1>3, <1>10
<1> QED
  BY <1>10, <1>12, <1>13 DEF LongHead

HasLen(size, n) == n = Len(size)

LEMMA PackedFits ==
    ASSUME NEW size \in Seq(Nat), NEW n \in Nat, n >= 1, HasLen(size, n),
           NEW top \in Nat, SizesUpTo(size, top),
           NEW maxlen \in Nat, RoomEnough(n, maxlen, top), NEW toc, NEW pad
    PROVE  Packed(toc, size, FALSE, maxlen, pad).ret > 0
<1>1. PICK sum \in Nat : sum = SumSeq(size) /\ sum <= top * n
  <2>1. DOMAIN size = 1 .. n /\ n \in 0 .. n
    BY DEF HasLen
  <2>2. \A i \in 1 .. n : size[i] \in Nat /\ size[i] \in 0 .. top
    BY <2>1 DEF SizesUpTo
  <2>3. SumSeq(size) = Total(size, n)
    BY <2>1, SumSeqIs
  <2>4. \A i \in 0 .. n : Total(size, i) \in Nat
    BY <2>2, TotalGrows
  <2>5. \A i \in 0 .. n : Total(size, i) <= top * i
    BY <2>2, TotalBound
  <2> QED
    BY <2>1, <2>3, <2>4, <2>5
<1>0. Adds(size, n, sum)
  BY <1>1 DEF Adds, HasLen
<1>2. PICK s \in Nat : ShortHead(size, sum, n, s)
  BY <1>0, ShortHeadFits
<1>3. PICK m \in Nat : LongHead(size, sum, n, m)
  BY <1>0, LongHeadFits
<1>4. PICK a \in Nat : a = sum + s
  OBVIOUS
<1>5. PICK b \in Nat : b = sum + 2 + m
  OBVIOUS
<1>10. s >= 1 /\ s <= 3 /\ (n = 1 => s = 1) /\ m <= 2 * (n - 1)
  BY <1>2, <1>3 DEF ShortHead, LongHead
<1>11. a = Simple(size, FALSE) /\ b = Multiple(size, FALSE)
  BY <1>2, <1>3, <1>4, <1>5, Zenon DEF ShortHead, LongHead
<1>6. a > 0 /\ b > 0 /\ a <= maxlen /\ maxlen > 0 /\ (a < maxlen \/ n # 1 => b <= maxlen)
  <2>1. maxlen >= IF n = 1 THEN top + 1 ELSE (top + 2) * n
    BY DEF RoomEnough
  <2>4. sum <= top * n
    BY <1>1
  <2>2. CASE n = 1
    <3>1. maxlen >= top + 1 /\ sum <= top /\ m <= 0 /\ s = 1
      BY <1>10, <2>1, <2>2, <2>4
    <3> QED
      BY <1>4, <1>5, <2>2, <3>1
  <2>3. CASE n # 1
    <3>1. (top + 2) * n = top * n + 2 * n
      OBVIOUS
    <3>2. PICK room \in Nat : room = top * n
      OBVIOUS
    <3>3. maxlen >= room + 2 * n /\ sum <= room /\ n >= 2
      BY <2>1, <2>3, <2>4, <3>1, <3>2
    <3> QED
      BY <1>4, <1>5, <1>10, <2>3, <3>3
  <2> QED
    BY <2>2, <2>3
<1> DEFINE q == Packed(toc, size, FALSE, maxlen, pad)
<1>7. q = IF n <= 2 /\ a > maxlen THEN [ret |-> BUFFER_TOO_SMALL]
          ELSE IF n <= 2 /\ ~ (pad /\ a < maxlen)
          THEN [ret |-> a, head |-> SimpleHead(toc, size, FALSE)]
          ELSE IF b > maxlen THEN [ret |-> BUFFER_TOO_SMALL]
          ELSE IF pad
          THEN [ret |-> maxlen, head |-> MultipleHead(toc, size, FALSE, maxlen - b)]
          ELSE [ret |-> b, head |-> MultipleHead(toc, size, FALSE, 0)]
  <2>1. Len(size) = n
    BY DEF HasLen
  <2> QED
    BY <1>11, <2>1, Zenon DEF Packed
<1> HIDE DEF q
<1>8. q.ret = a \/ q.ret = maxlen \/ q.ret = b
  <2>1. CASE n <= 2 /\ ~ (pad /\ a < maxlen)
    <3>1. q = [ret |-> a, head |-> SimpleHead(toc, size, FALSE)]
      BY <1>6, <1>7, <2>1
    <3> QED
      BY <3>1
  <2>2. CASE ~ (n <= 2 /\ ~ (pad /\ a < maxlen))
    <3>1. ~ (b > maxlen) /\ ~ (a > maxlen)
      BY <1>6, <2>2
    <3>2. q = IF pad THEN [ret |-> maxlen, head |-> MultipleHead(toc, size, FALSE, maxlen - b)]
              ELSE [ret |-> b, head |-> MultipleHead(toc, size, FALSE, 0)]
      BY <1>7, <2>2, <3>1
    <3> QED
      BY <3>2
  <2> QED
    BY <2>1, <2>2
<1>9. q.ret > 0
  BY <1>6, <1>8
<1> QED
  BY <1>9 DEF q

CollectedInv == RpInv(rp) /\ FramesUpTo(rp.frames)

LEMMA PartOf ==
    ASSUME NEW S, NEW s \in Seq(S), NEW a \in Nat, NEW n \in Nat, a + n <= Len(s)
    PROVE  SubSeq(s, a + 1, a + n) \in Seq(S) /\ Len(SubSeq(s, a + 1, a + n)) = n
           /\ \A i \in 1 .. n : SubSeq(s, a + 1, a + n)[i] = s[a + i]
OBVIOUS

LEMMA PartLengths ==
    ASSUME NEW r, RpInv(r), FramesUpTo(r.frames), NEW begin \in Nat, NEW end \in Nat,
           begin < end, end <= Len(r.frames)
    PROVE  LET part == SubSeq(r.frames, begin + 1, end)
           IN /\ Lengths(part) \in Seq(Nat) /\ Len(part) = end - begin
              /\ Len(Lengths(part)) = end - begin
              /\ SizesUpTo(Lengths(part), Longest)
<1>1. PICK fs \in Seq(Seq(Nat)) : fs = r.frames
  BY DEF RpInv
<1>2. PICK n \in Nat : n = end - begin /\ n >= 1
  OBVIOUS
<1>3. begin + 1 \in Nat /\ begin + n = end /\ end <= Len(fs)
  BY <1>1, <1>2
<1>10. /\ SubSeq(fs, begin + 1, end) \in Seq(Seq(Nat)) /\ Len(SubSeq(fs, begin + 1, end)) = n
       /\ \A i \in 1 .. n : SubSeq(fs, begin + 1, end)[i] = fs[begin + i]
  <2>1. begin + n <= Len(fs)
    BY <1>3
  <2>2. /\ SubSeq(fs, begin + 1, begin + n) \in Seq(Seq(Nat))
        /\ Len(SubSeq(fs, begin + 1, begin + n)) = n
        /\ \A i \in 1 .. n : SubSeq(fs, begin + 1, begin + n)[i] = fs[begin + i]
    BY <2>1, PartOf, ZenonT(40)
  <2> QED
    BY <1>3, <2>2, Zenon
<1>4. PICK part \in Seq(Seq(Nat)) : part = SubSeq(fs, begin + 1, end)
  BY <1>10
<1>5. Len(part) = n /\ \A i \in 1 .. n : part[i] = fs[begin + i]
  BY <1>4, <1>10
<1>6. ASSUME NEW i \in 1 .. n PROVE Len(part[i]) \in Nat /\ Len(part[i]) <= Longest
  <2>1. begin + i \in 1 .. Len(fs) /\ part[i] = fs[begin + i]
    BY <1>3, <1>5
  <2>2. Len(fs[begin + i]) <= Longest
    BY <1>1, <2>1 DEF FramesUpTo
  <2>3. Len(fs[begin + i]) \in Nat
    BY <2>1
  <2> QED
    BY <2>1, <2>2, <2>3
<1>7. Lengths(part) = [i \in 1 .. n |-> Len(part[i])]
  BY <1>5 DEF Lengths
<1>8. Lengths(part) \in Seq(Nat) /\ Len(Lengths(part)) = n
  BY <1>6, <1>7
<1>9. SizesUpTo(Lengths(part), Longest)
  BY <1>6, <1>7 DEF SizesUpTo
<1> QED
  BY <1>1, <1>2, <1>4, <1>5, <1>8, <1>9

LEMMA OutHasRoom ==
    ASSUME MaxFrame = Longest, CollectedInv, NEW begin \in Nat, NEW end \in Nat,
           NEW maxlen \in Nat, NEW sd \in BOOLEAN, NEW pad, OutRange(begin, end, maxlen, sd, pad)
    PROVE  RoomForFrames'
<1> DEFINE part == SubSeq(rp.frames, begin + 1, end)
           q    == Packed(rp.toc, Lengths(part), sd, maxlen, pad)
<1>1. PICK n \in Nat : n = end - begin /\ n >= 1
  BY DEF OutRange
<1>2. /\ Lengths(part) \in Seq(Nat) /\ Len(part) = n /\ Len(Lengths(part)) = n
      /\ SizesUpTo(Lengths(part), Longest)
  <2>1. PICK r : r = rp
    OBVIOUS
  <2>2. RpInv(r) /\ FramesUpTo(r.frames)
    BY <2>1 DEF CollectedInv
  <2>3. begin < end /\ end <= Len(r.frames)
    BY <2>1 DEF OutRange
  <2> QED
    BY <1>1, <2>1, <2>2, <2>3, PartLengths
<1> HIDE DEF part
<1>3. op'.frames = part /\ op'.maxlen = maxlen /\ op'.sd = sd /\ op'.ret = q.ret
  BY DEF OutRange, part
<1>4. ASSUME sd = FALSE, RoomEnough(n, maxlen, Longest)
      PROVE  q.ret > 0
  <2>1. Longest \in Nat
    BY DEF Longest
  <2>2. HasLen(Lengths(part), n)
    BY <1>2 DEF HasLen
  <2> QED
    BY <1>1, <1>2, <1>4, <2>1, <2>2, PackedFits
<1> HIDE DEF q
<1> SUFFICES ASSUME ~ sd, maxlen >= IF Len(part) = 1 THEN MaxFrame + 1
                                    ELSE (MaxFrame + 2) * Len(part)
             PROVE  q.ret > 0
  BY <1>3 DEF RoomForFrames
<1>5. RoomEnough(n, maxlen, Longest)
  <2>1. maxlen >= IF n = 1 THEN Longest + 1 ELSE (Longest + 2) * n
    BY <1>2, Zenon
  <2> QED
    BY <2>1 DEF RoomEnough
<1> QED
  BY <1>4, <1>5

\* Only two steps change what is collected, and one takes a range of it.
LEMMA ToolsCollect ==
    ASSUME MaxFrame = Longest, CollectedInv, RoomForFrames, Next
    PROVE  CollectedInv' /\ RoomForFrames'
<1>1. ASSUME NEW data \in ToSubmit, Cat(data) PROVE CollectedInv' /\ RoomForFrames'
  <2>1. data \in Seq(Byte) /\ data \in Seq(Nat)
    BY RepacketizerAssumption, BytesAreNumbers
  <2>2. PICK r : r = rp
    OBVIOUS
  <2>3. PICK k : k = Catted(r, data, FALSE)
    OBVIOUS
  <2>4. RpInv(k) /\ FramesUpTo(k.frames)
    <3>1. RpInv(r) /\ FramesUpTo(r.frames)
      BY <2>2 DEF CollectedInv
    <3> QED
      BY <2>1, <2>3, <3>1, CatInv, CatUpTo
  <2>5. rp' = k /\ op'.call = "cat"
    BY <1>1, <2>2, <2>3 DEF Cat
  <2>6. CollectedInv'
    BY <2>4, <2>5 DEF CollectedInv, RpInv, FramesUpTo
  <2>7. RoomForFrames'
    BY <2>5 DEF RoomForFrames
  <2> QED
    BY <2>6, <2>7
<1>2. ASSUME Reset PROVE CollectedInv' /\ RoomForFrames'
  <2>1. rp' = NewRp /\ op'.call = "none"
    BY <1>2 DEF Reset, NoOp
  <2>2. RpInv(NewRp) /\ FramesUpTo(NewRp.frames)
    BY NewRpInv DEF FramesUpTo, NewRp
  <2>3. CollectedInv'
    BY <2>1, <2>2 DEF CollectedInv, RpInv, FramesUpTo
  <2>4. RoomForFrames'
    BY <2>1 DEF RoomForFrames
  <2> QED
    BY <2>3, <2>4
<1>3. ASSUME NEW begin \in 0 .. Len(rp.frames), NEW end \in 0 .. Len(rp.frames),
             NEW maxlen \in MaxLens, NEW sd \in BOOLEAN, NEW pad \in BOOLEAN,
             OutRange(begin, end, maxlen, sd, pad)
      PROVE  CollectedInv' /\ RoomForFrames'
  <2>1. begin \in Nat /\ end \in Nat
    OBVIOUS
  <2>2. maxlen \in Nat
    BY RepacketizerAssumption
  <2>3. RoomForFrames'
    BY <1>3, <2>1, <2>2, OutHasRoom
  <2>4. rp' = rp
    BY <1>3 DEF OutRange
  <2> QED
    BY <2>3, <2>4 DEF CollectedInv
<1>4. ASSUME rp' = rp, op'.call # "out" PROVE CollectedInv' /\ RoomForFrames'
  <2>1. RoomForFrames'
    BY <1>4 DEF RoomForFrames
  <2> QED
    BY <1>4, <2>1 DEF CollectedInv
<1>5. ASSUME NEW data, NEW more, Pad(data, more) PROVE rp' = rp /\ op'.call = "pad"
  BY <1>5 DEF Pad
<1>6. ASSUME NEW data, Unpad(data) PROVE rp' = rp /\ op'.call = "unpad"
  BY <1>6 DEF Unpad
<1>7. ASSUME NEW m, MultiUnpad(m) PROVE rp' = rp /\ op'.call = "multi_unpad"
  BY <1>7 DEF MultiUnpad
<1>8. ASSUME NEW m, NEW more, MultiPad(m, more) PROVE rp' = rp /\ op'.call = "multi_pad"
  BY <1>8, MultiPadCall
<1>9. ASSUME NEW data, NEW sd, ParseBytes(data, sd) PROVE rp' = rp /\ op'.call = "parse"
  BY <1>9 DEF ParseBytes
<1>10. /\ "pad" # "out" /\ "unpad" # "out" /\ "multi_unpad" # "out" /\ "multi_pad" # "out"
       /\ "parse" # "out"
  OBVIOUS
<1> QED
  BY <1>1, <1>2, <1>3, <1>4, <1>5, <1>6, <1>7, <1>8, <1>9, <1>10 DEF Next

\* With frames of up to 1275 bytes, as the bitstream has them, the room opus.h
\* asks for always suffices: opus_repacketizer_out_range never fails for want of
\* it, whatever packets were collected and whichever range is taken.
THEOREM RoomGuaranteed == MaxFrame = 4 * 255 + 255 /\ MSSpec => []RoomForFrames
<1> SUFFICES ASSUME MaxFrame = Longest PROVE MSSpec => []RoomForFrames
  BY DEF Longest
<1>1. MSInit => CollectedInv /\ RoomForFrames
  <2>1. SUFFICES ASSUME MSInit PROVE CollectedInv /\ RoomForFrames
    OBVIOUS
  <2>2. rp = NewRp /\ op.call = "none"
    BY <2>1 DEF MSInit, Init, NoOp
  <2>3. RpInv(rp) /\ FramesUpTo(rp.frames)
    BY <2>2, NewRpInv DEF FramesUpTo, NewRp
  <2> QED
    BY <2>2, <2>3 DEF CollectedInv, RoomForFrames
<1>2. (CollectedInv /\ RoomForFrames) /\ [MSNext]_allVars
          => (CollectedInv /\ RoomForFrames)'
  <2>1. SUFFICES ASSUME CollectedInv, RoomForFrames, [MSNext]_allVars
                 PROVE  CollectedInv' /\ RoomForFrames'
    OBVIOUS
  <2>2. ASSUME UNCHANGED allVars PROVE CollectedInv' /\ RoomForFrames'
    <3>1. rp' = rp /\ op' = op
      BY <2>2 DEF allVars, vars
    <3> QED
      BY <2>1, <3>1 DEF CollectedInv, RoomForFrames
  <2>3. ASSUME Encoder \/ OwnDecoder \/ ForeignDecoder PROVE CollectedInv' /\ RoomForFrames'
    <3>1. rp' = rp /\ op'.call \in {"enc_init", "refused", "encode", "header", "decode"}
      BY <2>3, StreamCalls
    <3>2. op'.call # "out"
      BY <3>1
    <3>3. RoomForFrames'
      BY <3>2 DEF RoomForFrames
    <3> QED
      BY <2>1, <3>1, <3>3 DEF CollectedInv
  <2> QED
    BY <2>1, <2>2, <2>3, ToolsCollect DEF MSNext, Tools
<1> QED
  BY <1>1, <1>2, PTL DEF MSSpec

-----------------------------------------------------------------------------
(* Headers                                                                 *)

LEMMA MinIs ==
    ASSUME NEW T \in SUBSET Nat, T # {}
    PROVE  Min(T) \in T /\ \A y \in T : Min(T) <= y
<1>1. \E x \in T : \A y \in T : x <= y
  BY SmallestNumber
<1> QED
  BY <1>1 DEF Min

LEMMA MaxIs ==
    ASSUME NEW T \in SUBSET Nat, T # {}, NEW N \in Nat, \A y \in T : y <= N
    PROVE  Max(T) \in T /\ \A y \in T : y <= Max(T)
<1> DEFINE U == {N - y : y \in T}
<1>1. U \in SUBSET Nat /\ U # {}
  <2>1. \A y \in T : N - y \in Nat
    OBVIOUS
  <2> QED
    BY <2>1, Zenon
<1>2. PICK u \in U : \A v \in U : u <= v
  <2> HIDE DEF U
  <2> QED
    BY <1>1, SmallestNumber
<1>3. PICK x \in T : u = N - x
  BY <1>2
<1>4. ASSUME NEW y \in T PROVE x >= y
  <2>1. N - y \in U
    OBVIOUS
  <2>2. N - x <= N - y
    BY <1>2, <1>3, <2>1
  <2> QED
    BY <2>2
<1>5. \E z \in T : \A y \in T : z >= y
  BY <1>4
<1>6. Max(T) \in T /\ \A y \in T : Max(T) >= y
  BY <1>5 DEF Max
<1>7. Max(T) \in Nat
  BY <1>6
<1> QED
  BY <1>6, <1>7

\* The checks that passed, one after the other.
LEMMA PassedIs ==
    ASSUME NEW p
    PROVE  /\ Passed(p) \in Nat /\ Passed(p) <= 7
           /\ \A m \in 1 .. Passed(p) : Check(p, m)
           /\ \A k \in 0 .. 7 : (\A m \in 1 .. k : Check(p, m)) => k <= Passed(p)
<1> DEFINE T == {n \in 0 .. 7 : \A m \in 1 .. n : Check(p, m)}
<1>1. T \in SUBSET Nat /\ 0 \in T /\ \A y \in T : y <= 7
  OBVIOUS
<1>2. Passed(p) = Max(T)
  BY DEF Passed
<1>3. \A y \in T : y \in Nat /\ y <= 7 /\ \A m \in 1 .. y : Check(p, m)
  OBVIOUS
<1>4. \A k \in 0 .. 7 : (\A m \in 1 .. k : Check(p, m)) => k \in T
  OBVIOUS
<1> HIDE DEF T
<1>5. Max(T) \in T /\ \A y \in T : y <= Max(T)
  BY <1>1, MaxIs
<1> QED
  BY <1>2, <1>3, <1>4, <1>5

\* How much of the stream map is set.
LEMMA MappedFits ==
    ASSUME NEW p \in Seq(Nat), Len(p) >= 21
    PROVE  /\ Mapped(p) \in Nat /\ Mapped(p) <= p[10] /\ 21 + Mapped(p) <= Len(p)
           /\ \A i \in 1 .. Mapped(p) - 1 : ~ OutOfRange(p, i)
<1> DEFINE R == {p[10], Len(p) - 21}
           there == Min(R)
           T == {there} \cup {i \in 1 .. there : OutOfRange(p, i)}
<1>1. p[10] \in Nat /\ Len(p) - 21 \in Nat
  OBVIOUS
<1>2. R \in SUBSET Nat /\ R # {}
  BY <1>1
<1>3. there \in R /\ there <= p[10] /\ there <= Len(p) - 21
  <2>1. p[10] \in R /\ Len(p) - 21 \in R
    OBVIOUS
  <2> HIDE DEF R
  <2> QED
    BY <1>2, <2>1, MinIs
<1>4. there \in Nat
  BY <1>2, <1>3
<1>5. Mapped(p) = Min(T)
  BY DEF Mapped
<1> HIDE DEF there
<1>6. T \in SUBSET Nat /\ T # {}
  BY <1>4
<1>7. \A i \in T : i <= there
  BY <1>4
<1>8. there \in T /\ \A i \in 1 .. there : OutOfRange(p, i) => i \in T
  OBVIOUS
<1> HIDE DEF T
<1>9. Min(T) \in T /\ \A y \in T : Min(T) <= y
  BY <1>6, MinIs
<1>10. PICK m \in Nat : m = Mapped(p) /\ m <= there /\ m \in T /\ \A y \in T : m <= y
  BY <1>4, <1>5, <1>6, <1>7, <1>9
<1>11. m <= p[10] /\ 21 + m <= Len(p)
  BY <1>1, <1>3, <1>4, <1>10, SMTT(30)
<1>12. ASSUME NEW i \in 1 .. m - 1, OutOfRange(p, i) PROVE FALSE
  <2>1. i \in 1 .. there /\ i < m
    BY <1>4, <1>10
  <2>2. i \in T
    BY <1>8, <1>12, <2>1
  <2>3. m <= i
    BY <1>10, <2>2
  <2> QED
    BY <2>1, <2>3
<1> QED
  BY <1>10, <1>11, <1>12

LEMMA OverlayIs ==
    ASSUME NEW new \in Seq(Nat), NEW old \in Seq(Nat)
    PROVE  /\ Overlay(new, old) \in Seq(Nat) /\ Len(Overlay(new, old)) >= Len(new)
           /\ \A i \in 1 .. Len(new) : Overlay(new, old)[i] = new[i]
<1>1. CASE Len(old) <= Len(new)
  <2>1. SubSeq(old, Len(new) + 1, Len(old)) = <<>>
    BY <1>1
  <2> QED
    BY <2>1 DEF Overlay
<1>2. CASE ~ (Len(old) <= Len(new))
  <2>1. PICK a \in Nat, n \in Nat : a = Len(new) /\ n = Len(old) - a
    BY <1>2
  <2>2. a + n = Len(old)
    BY <2>1
  <2>3. SubSeq(old, a + 1, a + n) \in Seq(Nat)
    BY <2>2, PartOf
  <2>4. PICK rest \in Seq(Nat) : rest = SubSeq(old, Len(new) + 1, Len(old))
    BY <2>1, <2>2, <2>3
  <2>5. Overlay(new, old) = new \o rest
    BY <2>4 DEF Overlay
  <2>6. new \o rest \in Seq(Nat) /\ Len(new \o rest) >= Len(new)
        /\ \A i \in 1 .. Len(new) : (new \o rest)[i] = new[i]
    OBVIOUS
  <2> QED
    BY <2>5, <2>6
<1> QED
  BY <1>1, <1>2

\* What the checks say of the length.
LEMMA Lengthy ==
    ASSUME NEW p \in Seq(Nat), NEW n \in Nat, n <= 7, \A m \in 1 .. n : Check(p, m)
    PROVE  /\ n >= 1 => Len(p) >= 19 /\ SubSeq(p, 1, 8) = Magic
           /\ n >= 2 => p[9] < 16
           /\ n >= 3 => p[10] # 0
           /\ n >= 4 => IF p[19] = 0 THEN p[10] <= 2 ELSE Len(p) >= 20 /\ p[20] >= 1
           /\ n >= 5 => (p[19] # 0 => Len(p) >= 21 /\ p[21] <= p[20] /\ p[20] + p[21] <= 255)
<1>1. n >= 1 => Check(p, 1)
  OBVIOUS
<1>2. n >= 2 => Check(p, 2)
  OBVIOUS
<1>3. n >= 3 => Check(p, 3)
  OBVIOUS
<1>4. n >= 4 => Check(p, 4)
  OBVIOUS
<1>5. n >= 5 => Check(p, 5)
  OBVIOUS
<1>6. Check(p, 1) => Len(p) >= 19 /\ SubSeq(p, 1, 8) = Magic
  BY DEF Check
<1>7. Check(p, 2) => p[9] < 16
  BY DEF Check
<1>8. Check(p, 3) => p[10] # 0
  BY DEF Check
<1>9. Check(p, 4) => IF p[19] = 0 THEN p[10] <= 2 ELSE Len(p) >= 20 /\ p[20] >= 1
  BY DEF Check
<1>10. Check(p, 5) => (p[19] # 0 => Len(p) >= 21 /\ p[21] <= p[20] /\ p[20] + p[21] <= 255)
  BY DEF Check
<1> QED
  BY <1>1, <1>2, <1>3, <1>4, <1>5, <1>6, <1>7, <1>8, <1>9, <1>10, ZenonT(40)

HeaderType(g) ==
    g.channels \in Nat /\ g.streams \in Nat /\ g.coupled \in Int /\ g.map \in Seq(Nat)

LEMMA ReadType ==
    ASSUME NEW g, HeaderType(g), NEW p \in Seq(Nat)
    PROVE  HeaderType(Read(g, p))
<1>1. PICK n \in Nat : n = Passed(p) /\ n <= 7 /\ \A m \in 1 .. n : Check(p, m)
  BY PassedIs
<1>2. CASE n = 0
  BY <1>1, <1>2 DEF Read, ReadFields
<1>3. CASE n # 0
  <2> DEFINE multi == n >= 4 /\ p[19] # 0
             one   == n >= 4 /\ p[19] = 0
             r     == Read(g, p)
  <2>1. /\ r.channels = IF n >= 2 THEN p[10] ELSE g.channels
        /\ r.streams = IF multi THEN p[20] ELSE IF one THEN 1 ELSE g.streams
        /\ r.coupled = IF multi /\ n >= 5 THEN p[21]
                       ELSE IF one THEN p[10] - 1 ELSE g.coupled
        /\ r.map = IF multi /\ n >= 5
                   THEN Overlay(SubSeq(p, 22, 21 + Mapped(p)), g.map)
                   ELSE IF one THEN Overlay(<<0, 1>>, g.map) ELSE g.map
    BY <1>1, <1>3 DEF Read, ReadFields
  <2>2. Len(p) >= 19
    <3>1. n >= 1
      BY <1>3
    <3>2. n >= 1 => Len(p) >= 19 /\ SubSeq(p, 1, 8) = Magic
      BY <1>1, Lengthy
    <3> QED
      BY <3>1, <3>2
  <2>3. p[10] \in Nat
    BY <2>2
  <2>4. multi => p[20] \in Nat
    <3>1. multi => Len(p) >= 20
      BY <1>1, Lengthy
    <3> QED
      BY <3>1
  <2>5. multi /\ n >= 5 => Len(p) >= 21
    BY <1>1, Lengthy
  <2>6. multi /\ n >= 5 => p[21] \in Nat
    BY <2>5
  <2>7. g.channels \in Nat /\ g.streams \in Nat /\ g.coupled \in Int /\ g.map \in Seq(Nat)
    BY DEF HeaderType
  <2>8. multi /\ n >= 5 => Overlay(SubSeq(p, 22, 21 + Mapped(p)), g.map) \in Seq(Nat)
    <3>1. SUFFICES ASSUME multi, n >= 5 PROVE Overlay(SubSeq(p, 22, 21 + Mapped(p)), g.map) \in Seq(Nat)
      OBVIOUS
    <3>2. PICK k \in Nat : k = Mapped(p) /\ 21 + k <= Len(p)
      BY <2>5, <3>1, MappedFits
    <3>3. SubSeq(p, 21 + 1, 21 + k) \in Seq(Nat)
      BY <3>2, PartOf
    <3>4. 21 + 1 = 22
      OBVIOUS
    <3>5. SubSeq(p, 22, 21 + Mapped(p)) \in Seq(Nat)
      BY <3>2, <3>3, <3>4
    <3> QED
      BY <2>7, <3>5, OverlayIs
  <2>9. Overlay(<<0, 1>>, g.map) \in Seq(Nat)
    <3>1. <<0, 1>> \in Seq(Nat)
      OBVIOUS
    <3> QED
      BY <2>7, <3>1, OverlayIs
  <2>10. p[10] - 1 \in Int
    BY <2>3
  <2> HIDE DEF multi, one, r
  <2>11. r.channels \in Nat
    BY <2>1, <2>3, <2>7
  <2>12. r.streams \in Nat
    BY <2>1, <2>4, <2>7
  <2>13. r.coupled \in Int
    <3>1. p[21] \in Nat => p[21] \in Int
      OBVIOUS
    <3> QED
      BY <2>1, <2>6, <2>7, <2>10, <3>1, Zenon
  <2>14. r.map \in Seq(Nat)
    BY <2>1, <2>7, <2>8, <2>9, Zenon
  <2> QED
    BY <2>11, <2>12, <2>13, <2>14 DEF HeaderType, r
<1> QED
  BY <1>2, <1>3

-----------------------------------------------------------------------------
(* Packets of several streams                                              *)

Part == [at : Nat, data : Seq(Nat)]
NoStreams == [ok |-> TRUE, at |-> 0, parts |-> <<>>]
StreamNext(data, s, n, g) ==
    LET rest == SubSeq(data, g.at + 1, Len(data))
        p    == Parse(rest, s # n)
    IN IF ~ g.ok \/ p.ret < 0 THEN [g EXCEPT !.ok = FALSE]
       ELSE [ok |-> TRUE, at |-> g.at + p.packet_offset,
             parts |-> Append(g.parts, [at |-> g.at, data |-> SubSeq(rest, 1, p.packet_offset)])]
IsStreams(f, data, k, n) ==
    f = [s \in 0 .. k |-> IF s = 0 THEN NoStreams ELSE StreamNext(data, s, n, f[s - 1])]

LEMMA StreamsAre ==
    ASSUME NEW data, NEW k \in Nat, NEW n
    PROVE  \E f : IsStreams(f, data, k, n) /\ FirstStreams(data, k, n) = f[k]
<1> DEFINE P == {m \in 0 .. k : \E f : IsStreams(f, data, m, n)}
<1>1. 0 \in P
  <2> DEFINE f == [s \in 0 .. 0 |-> NoStreams]
  <2>1. IsStreams(f, data, 0, n)
    BY DEF IsStreams
  <2> QED
    BY <2>1
<1>2. ASSUME NEW m \in 0 .. k - 1, m \in P PROVE m + 1 \in P
  <2>1. PICK f : IsStreams(f, data, m, n)
    BY <1>2
  <2> DEFINE g == [s \in 0 .. m + 1 |-> IF s <= m THEN f[s] ELSE StreamNext(data, s, n, f[m])]
  <2>2. IsStreams(g, data, m + 1, n)
    <3>1. ASSUME NEW s \in 0 .. m + 1
          PROVE  g[s] = IF s = 0 THEN NoStreams ELSE StreamNext(data, s, n, g[s - 1])
      <4>1. CASE s = 0
        BY <2>1, <4>1 DEF IsStreams
      <4>2. CASE s \in 1 .. m
        BY <2>1, <4>2 DEF IsStreams
      <4>3. CASE s = m + 1
        BY <4>3
      <4> QED
        BY <4>1, <4>2, <4>3
    <3>2. g = [s \in 0 .. m + 1 |-> g[s]]
      OBVIOUS
    <3> HIDE DEF g
    <3>3. g = [s \in 0 .. m + 1 |-> IF s = 0 THEN NoStreams ELSE StreamNext(data, s, n, g[s - 1])]
      BY <3>1, <3>2
    <3> QED
      BY <3>3 DEF IsStreams
  <2> QED
    BY <2>2
<1> HIDE DEF P
<1>3. k \in P
  BY <1>1, <1>2, InductionTo
<1>4. IsStreams(CHOOSE f : IsStreams(f, data, k, n), data, k, n)
  BY <1>3 DEF P
<1>5. FirstStreams(data, k, n) = (CHOOSE f : IsStreams(f, data, k, n))[k]
  BY DEF FirstStreams, IsStreams, NoStreams, StreamNext
<1> QED
  BY <1>4, <1>5

\* The streams found so far lie in the packet.
StreamsFor(g, data, s) ==
    /\ g.ok \in BOOLEAN
    /\ g.ok = TRUE =>
          /\ g.at \in Nat /\ g.at <= Len(data)
          /\ g.parts \in Seq(Part) /\ Len(g.parts) = s

LEMMA StreamStep ==
    ASSUME NEW data \in Seq(Nat), NEW s \in Nat, NEW n, NEW t, NEW g, StreamsFor(g, data, s)
    PROVE  StreamsFor(StreamNext(data, t, n, g), data, s + 1)
<1> DEFINE rest == SubSeq(data, g.at + 1, Len(data))
           p    == Parse(rest, t # n)
           k    == StreamNext(data, t, n, g)
<1>1. CASE ~ g.ok \/ p.ret < 0
  <2>1. k = [g EXCEPT !.ok = FALSE]
    BY <1>1 DEF StreamNext
  <2>2. k.ok = FALSE
    <3>1. g.ok \in BOOLEAN
      BY DEF StreamsFor
    <3> QED
      BY <2>1
  <2> QED
    BY <2>2 DEF StreamsFor
<1>2. CASE ~ (~ g.ok \/ p.ret < 0)
  <2>1. k = [ok |-> TRUE, at |-> g.at + p.packet_offset,
             parts |-> Append(g.parts, [at |-> g.at, data |-> SubSeq(rest, 1, p.packet_offset)])]
    BY <1>2 DEF StreamNext
  <2>2. g.ok = TRUE
    BY <1>2 DEF StreamsFor
  <2>3. PICK at \in Nat, parts \in Seq(Part) :
           at = g.at /\ at <= Len(data) /\ parts = g.parts /\ Len(parts) = s
    BY <2>2 DEF StreamsFor
  <2>4. PICK len \in Nat : at + len = Len(data)
    <3>1. Len(data) - at \in Nat /\ at + (Len(data) - at) = Len(data)
      BY <2>3
    <3> QED
      BY <3>1, Zenon
  <2>5. PICK r \in Seq(Nat) : r = rest /\ Len(r) = len
    <3>1. SubSeq(data, at + 1, at + len) \in Seq(Nat) /\ Len(SubSeq(data, at + 1, at + len)) = len
      BY <2>4, PartOf, SMTT(30)
    <3> QED
      BY <2>3, <2>4, <3>1
  <2> HIDE DEF rest
  <2>6. PICK off \in Nat : off = p.packet_offset /\ off <= len
    <3>1. (t # n) \in BOOLEAN
      OBVIOUS
    <3>2. p = Invalid \/ ParseFor(r, t # n, p)
      BY <2>5, <3>1, ParseFits
    <3>3. p # Invalid
      <4>1. SUFFICES ASSUME p = Invalid PROVE FALSE
        OBVIOUS
      <4>2. p.ret = -4
        BY <4>1 DEF Invalid, INVALID_PACKET
      <4>3. -4 < 0
        OBVIOUS
      <4> QED
        BY <1>2, <4>2, <4>3, Zenon
    <3> QED
      BY <2>5, <3>2, <3>3 DEF ParseFor
  <2> HIDE DEF p
  <2>7. SubSeq(r, 1, off) \in Seq(Nat)
    <3>1. SubSeq(r, 0 + 1, 0 + off) \in Seq(Nat)
      BY <2>5, <2>6, PartOf
    <3> QED
      BY <3>1
  <2>8. PICK new \in Part : new = [at |-> at, data |-> SubSeq(r, 1, off)]
    BY <2>7 DEF Part
  <2>9. k.ok = TRUE /\ k.at = at + off /\ k.parts = Append(parts, new)
    BY <2>1, <2>3, <2>5, <2>6, <2>8
  <2> HIDE DEF k
  <2>10. at + off \in Nat /\ at + off <= Len(data)
    BY <2>4, <2>6
  <2>11. Append(parts, new) \in Seq(Part) /\ Len(Append(parts, new)) = s + 1
    BY <2>3
  <2>12. StreamsFor(k, data, s + 1)
    BY <2>9, <2>10, <2>11 DEF StreamsFor
  <2> QED
    BY <2>12 DEF k
<1> QED
  BY <1>1, <1>2

LEMMA StreamsFit ==
    ASSUME NEW data \in Seq(Nat), NEW k \in Nat, NEW n
    PROVE  StreamsFor(FirstStreams(data, k, n), data, k)
<1>1. PICK f : IsStreams(f, data, k, n) /\ FirstStreams(data, k, n) = f[k]
  BY StreamsAre
<1> DEFINE P == {s \in 0 .. k : StreamsFor(f[s], data, s)}
<1>2. 0 \in P
  <2>1. f[0] = NoStreams
    BY <1>1 DEF IsStreams
  <2>2. <<>> \in Seq(Part) /\ Len(<<>>) = 0
    OBVIOUS
  <2>3. StreamsFor(NoStreams, data, 0)
    BY <2>2 DEF StreamsFor, NoStreams
  <2>4. StreamsFor(f[0], data, 0)
    BY <2>1, <2>3
  <2> QED
    BY <2>4
<1>3. ASSUME NEW s \in 0 .. k - 1, s \in P PROVE s + 1 \in P
  <2>1. PICK t \in 1 .. k : t = s + 1 /\ t - 1 = s
    OBVIOUS
  <2>2. f[t] = StreamNext(data, t, n, f[t - 1])
    BY <1>1 DEF IsStreams
  <2>3. StreamsFor(StreamNext(data, t, n, f[s]), data, s + 1)
    BY <1>3, StreamStep
  <2>4. StreamsFor(f[s + 1], data, s + 1)
    BY <2>1, <2>2, <2>3
  <2> QED
    BY <2>4
<1> HIDE DEF P
<1>4. k \in P
  <2>1. \A s \in 0 .. k : s \in P
    BY <1>2, <1>3, InductionTo
  <2> QED
    BY <2>1
<1> QED
  BY <1>1, <1>4 DEF P

LEMMA SamplesAreInt ==
    ASSUME NEW p \in Seq(Nat)
    PROVE  NbSamples(p) \in Int
<1>1. CASE p = <<>>
  <2>1. NbFrames(p) = -1
    BY <1>1 DEF NbFrames, BAD_ARG
  <2>2. NbSamples(p) = -1
    BY <2>1 DEF NbSamples
  <2> QED
    BY <2>2
<1>2. CASE p # <<>>
  <2>1. p[1] \in Nat
    BY <1>2
  <2>2. PICK S \in Nat : S = SamplesPerFrame(p[1], 48000)
    <3>1. SamplesPerFrame(p[1], 8000) \in {20, 40, 80, 160, 320, 480}
          /\ SamplesPerFrame(p[1], 48000) = 6 * SamplesPerFrame(p[1], 8000)
      BY <2>1, FrameLength
    <3> QED
      BY <3>1
  <2>3. NbFrames(p) \in Int
    <3>1. Len(p) >= 2 => p[2] % 64 \in Nat
      <4>1. Len(p) >= 2 => p[2] \in Nat
        OBVIOUS
      <4> QED
        BY <4>1
    <3>2. Len(p) \in Nat
      OBVIOUS
    <3> QED
      BY <3>1, <3>2 DEF NbFrames, BAD_ARG, INVALID_PACKET
  <2>4. PICK m \in Int : m = NbFrames(p)
    BY <2>3
  <2>5. \/ NbSamples(p) = NbFrames(p) \/ NbSamples(p) = INVALID_PACKET
        \/ NbSamples(p) = NbFrames(p) * SamplesPerFrame(p[1], 48000)
    BY DEF NbSamples
  <2>7. NbSamples(p) = m \/ NbSamples(p) = INVALID_PACKET \/ NbSamples(p) = m * S
    BY <2>2, <2>4, <2>5
  <2>6. m * S \in Int
    OBVIOUS
  <2> QED
    BY <2>6, <2>7 DEF INVALID_PACKET
<1> QED
  BY <1>1, <1>2

LEMMA ValidatedIsInt ==
    ASSUME NEW data \in Seq(Nat), NEW n \in Nat, n >= 1
    PROVE  Validated(StreamsOf(data, n), n) \in Int
<1>1. PICK parts : parts = StreamsOf(data, n) /\ StreamsFor(parts, data, n)
  BY StreamsFit DEF StreamsOf
<1>2. CASE Validated(parts, n) = INVALID_PACKET
  BY <1>1, <1>2 DEF INVALID_PACKET
<1>3. CASE Validated(parts, n) # INVALID_PACKET
  <2>1. parts.ok /\ Validated(parts, n) = NbSamples(parts.parts[1].data)
    BY <1>3 DEF Validated
  <2>2. parts.ok = TRUE
    BY <1>1, <2>1 DEF StreamsFor
  <2>3. parts.parts \in Seq(Part) /\ Len(parts.parts) = n
    BY <1>1, <2>2 DEF StreamsFor
  <2>4. parts.parts[1] \in Part
    BY <2>3
  <2>5. parts.parts[1].data \in Seq(Nat)
    BY <2>4 DEF Part
  <2> QED
    BY <1>1, <2>1, <2>5, SamplesAreInt
<1> QED
  BY <1>2, <1>3

-----------------------------------------------------------------------------
(* What is written: its header, the frames and the padding                 *)

LEMMA PadLengthsFit ==
    ASSUME NEW n \in Nat
    PROVE  PadLengths(n) \in Seq(Nat) /\ Len(PadLengths(n)) \in Nat /\ Len(PadLengths(n)) <= n
<1>1. CASE n = 0
  <2>1. PadLengths(n) = <<>>
    BY <1>1 DEF PadLengths
  <2>2. <<>> \in Seq(Nat) /\ Len(<<>>) = 0
    OBVIOUS
  <2>3. 0 \in Nat /\ 0 <= 0
    OBVIOUS
  <2> QED
    BY <1>1, <2>1, <2>2, <2>3, Zenon
<1>2. CASE n # 0
  <2>1. PICK P \in Nat : P = PadMax /\ P >= 2
    BY PacketAssumption
  <2>2. PICK m \in Nat : m = n - 1
    BY <1>2
  <2>3. PICK k \in Nat : k = m \div P /\ k <= m
    <3>1. m \div P \in Nat
      BY <2>1
    <3>2. m = P * (m \div P) + (m % P) /\ (m % P) \in Nat
      BY <2>1
    <3>3. \A k \in Nat : P * k >= k
      BY <2>1
    <3>4. PICK k \in Nat : k = m \div P
      BY <3>1
    <3>5. PICK w \in Nat : w = P * k
      OBVIOUS
    <3>6. w >= k
      BY <3>3, <3>5
    <3>7. m = w + (m % P)
      BY <3>2, <3>4, <3>5
    <3>8. k <= m
      BY <3>2, <3>6, <3>7
    <3> QED
      BY <3>4, <3>8
  <2>4. PICK last \in Nat : last = n - P * k - 1
    <3>1. m = P * (m \div P) + (m % P) /\ (m % P) \in Nat
      BY <2>1
    <3>2. PICK w \in Nat : w = P * k
      OBVIOUS
    <3>3. m = w + (m % P)
      BY <2>3, <3>1, <3>2
    <3>4. n - w - 1 \in Nat
      BY <1>2, <2>2, <3>1, <3>3
    <3> QED
      BY <3>2, <3>4
  <2>5. PadLengths(n) = [i \in 1 .. k |-> P] \o <<last>>
    BY <1>2, <2>1, <2>2, <2>3, <2>4 DEF PadLengths
  <2>6. PICK ps \in Seq(Nat) : ps = [i \in 1 .. k |-> P] /\ Len(ps) = k
    <3>1. [i \in 1 .. k |-> P] \in Seq(Nat) /\ Len([i \in 1 .. k |-> P]) = k
      OBVIOUS
    <3> QED
      BY <3>1
  <2>7. <<last>> \in Seq(Nat) /\ Len(<<last>>) = 1
    OBVIOUS
  <2>8. ps \o <<last>> \in Seq(Nat) /\ Len(ps \o <<last>>) = k + 1
    BY <2>6, <2>7
  <2>9. k + 1 <= n
    BY <2>2, <2>3
  <2> QED
    BY <2>5, <2>6, <2>8, <2>9
<1> QED
  BY <1>1, <1>2

LEMMA Joined ==
    ASSUME NEW S, NEW a \in Seq(S), NEW b \in Seq(S)
    PROVE  a \o b \in Seq(S) /\ Len(a \o b) = Len(a) + Len(b)
OBVIOUS

\* The parts of a header that depend on the sizes.
SelfLen(size, sd, b) == SelfSize(size, sd) \in Seq(Nat) /\ Len(SelfSize(size, sd)) = b
LEMMA SelfSizeFits ==
    ASSUME NEW size \in Seq(Nat), size # <<>>, NEW sd \in BOOLEAN
    PROVE  \E b \in Nat : SelfLen(size, sd, b) /\ b <= 2 /\ (sd = FALSE => b = 0)
<1>1. CASE sd = TRUE
  <2>1. size[Len(size)] \in Nat
    OBVIOUS
  <2>2. SelfSize(size, sd) = EncodeSize(size[Len(size)])
    BY <1>1 DEF SelfSize
  <2>3. EncodeSize(size[Len(size)]) \in Seq(Nat)
        /\ (Len(EncodeSize(size[Len(size)])) = 1 \/ Len(EncodeSize(size[Len(size)])) = 2)
    BY <2>1, EncodedSize
  <2>4. 1 \in Nat /\ 1 <= 2 /\ 2 \in Nat /\ 2 <= 2
    OBVIOUS
  <2> QED
    BY <1>1, <2>2, <2>3, <2>4 DEF SelfLen
<1>2. CASE sd = FALSE
  <2>1. SelfSize(size, sd) = <<>>
    BY <1>2 DEF SelfSize
  <2>2. <<>> \in Seq(Nat) /\ Len(<<>>) = 0 /\ 0 \in Nat /\ 0 <= 2
    OBVIOUS
  <2> QED
    BY <1>2, <2>1, <2>2 DEF SelfLen
<1> QED
  BY <1>1, <1>2

LEMMA SimpleShape ==
    ASSUME NEW size \in Seq(Nat), NEW n \in Nat, NEW sum \in Nat, Adds(size, n, sum),
           n >= 1, n <= 2, NEW toc \in Nat, NEW sd \in BOOLEAN
    PROVE  /\ SimpleHead(toc, size, sd) \in Seq(Nat)
           /\ Simple(size, sd) = Len(SimpleHead(toc, size, sd)) + sum
<1>1. Len(size) = n /\ SumSeq(size) = sum /\ size # <<>>
  BY DEF Adds
<1>2. PICK b \in Nat : SelfLen(size, sd, b)
  BY <1>1, SelfSizeFits
<1>3. PICK self \in Seq(Nat) : self = SelfSize(size, sd) /\ Len(self) = b
  BY <1>2 DEF SelfLen
<1>4. Config(toc) \in Nat
  BY DEF Config
<1>5. PICK more : more = IF Len(size) = 2 /\ Vbr(size) THEN 1 + Len(EncodeSize(size[1])) ELSE 1
  OBVIOUS
<1>6. Simple(size, sd) = b + sum + more
  <2>1. Simple(size, sd) = Len(SelfSize(size, sd)) + SumSeq(size) + more
    BY <1>5, Zenon DEF Simple
  <2> QED
    BY <1>1, <1>3, <2>1, Zenon
<1>7. PICK front \in Seq(Nat) : SimpleHead(toc, size, sd) = front \o self /\ Len(front) = more
  <2>1. CASE n = 2 /\ Vbr(size)
    <3>1. SimpleHead(toc, size, sd) = (<<Config(toc) + 2>> \o EncodeSize(size[1])) \o self
      BY <1>1, <1>3, <2>1 DEF SimpleHead
    <3>2. size[1] \in Nat
      BY <1>1
    <3>3. PICK e \in Seq(Nat) : e = EncodeSize(size[1])
      BY <3>2, EncodedSize
    <3>4. PICK t \in Seq(Nat) : t = <<Config(toc) + 2>> /\ Len(t) = 1
      <4>1. <<Config(toc) + 2>> \in Seq(Nat) /\ Len(<<Config(toc) + 2>>) = 1
        BY <1>4
      <4> QED
        BY <4>1
    <3>5. t \o e \in Seq(Nat) /\ Len(t \o e) = 1 + Len(e)
      BY <3>4, Joined
    <3>6. more = 1 + Len(e)
      BY <1>1, <1>5, <2>1, <3>3, Zenon
    <3>7. SimpleHead(toc, size, sd) = (t \o e) \o self
      BY <3>1, <3>3, <3>4, Zenon
    <3>8. Len(t \o e) = more
      BY <3>5, <3>6, Zenon
    <3> QED
      BY <3>5, <3>7, <3>8
  <2>2. CASE ~ (n = 2 /\ Vbr(size))
    <3>1. more = 1
      BY <1>1, <1>5, <2>2, Zenon
    <3>2. n = 1 \/ n = 2
      OBVIOUS
    <3>3. SimpleHead(toc, size, sd) = <<Config(toc)>> \o self
          \/ SimpleHead(toc, size, sd) = <<Config(toc) + 1>> \o self
      BY <1>1, <1>3, <2>2, <3>2 DEF SimpleHead
    <3>4. /\ <<Config(toc)>> \in Seq(Nat) /\ Len(<<Config(toc)>>) = 1
          /\ <<Config(toc) + 1>> \in Seq(Nat) /\ Len(<<Config(toc) + 1>>) = 1
      BY <1>4
    <3> QED
      BY <3>1, <3>3, <3>4, Zenon
  <2> QED
    BY <2>1, <2>2
<1>8. front \o self \in Seq(Nat) /\ Len(front \o self) = Len(front) + Len(self)
  BY Joined
<1>9. PICK a \in Nat : a = Len(front)
  OBVIOUS
<1>10. b + sum + a = (a + b) + sum
  OBVIOUS
<1>11. Simple(size, sd) = (a + b) + sum
  BY <1>6, <1>7, <1>9, <1>10, Zenon
<1>12. Len(front \o self) = a + b
  BY <1>3, <1>8, <1>9, Zenon
<1> QED
  BY <1>7, <1>8, <1>11, <1>12, Zenon

\* A header of code 3 for frames of sum bytes, of which pad may be left for padding.
Headed(toc, size, sd, pad, sum) ==
    /\ MultipleHead(toc, size, sd, pad) \in Seq(Nat)
    /\ \E k \in Nat : /\ k <= pad
                      /\ Multiple(size, sd) + k = Len(MultipleHead(toc, size, sd, pad)) + sum

LEMMA MultipleShape ==
    ASSUME NEW size \in Seq(Nat), NEW n \in Nat, NEW sum \in Nat, Adds(size, n, sum),
           n >= 1, NEW toc \in Nat, NEW sd \in BOOLEAN, NEW pad \in Nat
    PROVE  Headed(toc, size, sd, pad, sum)
<1>1. Len(size) = n /\ SumSeq(size) = sum /\ size # <<>>
  BY DEF Adds
<1>2. PICK b \in Nat : SelfLen(size, sd, b)
  BY <1>1, SelfSizeFits
<1>3. PICK self \in Seq(Nat) : self = SelfSize(size, sd) /\ Len(self) = b
  BY <1>2 DEF SelfLen
<1>4. Config(toc) \in Nat
  BY SMTT(30) DEF Config
<1>5. PICK lens \in Seq(Nat) : lens = PadLengths(pad) /\ Len(lens) <= pad
  BY PadLengthsFit
<1>6. AllButLast(size) \in Seq(Nat)
  BY <1>1 DEF AllButLast
<1>7. EncodedSizes(AllButLast(size)) \in Seq(Nat)
  <2>1. PICK k \in Nat : k = Len(AllButLast(size))
    BY <1>6
  <2> QED
    BY <1>6, <2>1, EncodedFits
<1>8. PICK sizes \in Seq(Nat) :
          sizes = IF Vbr(size) THEN EncodedSizes(AllButLast(size)) ELSE <<>>
  <2>1. <<>> \in Seq(Nat)
    OBVIOUS
  <2> QED
    BY <1>7, <2>1
<1>9. PICK more : more = IF Vbr(size) THEN Len(EncodedSizes(AllButLast(size))) ELSE 0
  OBVIOUS
<1>10. Len(sizes) = more
  <2>1. Len(<<>>) = 0
    OBVIOUS
  <2>2. CASE Vbr(size)
    <3>1. sizes = EncodedSizes(AllButLast(size)) /\ more = Len(EncodedSizes(AllButLast(size)))
      BY <1>8, <1>9, <2>2, Zenon
    <3> QED
      BY <3>1
  <2>3. CASE ~ Vbr(size)
    <3>1. sizes = <<>> /\ more = 0
      BY <1>8, <1>9, <2>3, Zenon
    <3> QED
      BY <2>1, <3>1, Zenon
  <2> QED
    BY <2>2, <2>3
<1>11. Multiple(size, sd) = b + sum + 2 + more
  <2>1. Multiple(size, sd) = Len(SelfSize(size, sd)) + SumSeq(size) + 2 + more
    BY <1>9, Zenon DEF Multiple
  <2> QED
    BY <1>1, <1>3, <2>1, Zenon
<1> DEFINE t0 == <<Config(toc) + 3,
                   Len(size) + (IF Vbr(size) THEN 128 ELSE 0) + (IF pad # 0 THEN 64 ELSE 0)>>
<1>12. t0 \in Seq(Nat) /\ Len(t0) = 2
  BY <1>1, <1>4
<1>13. MultipleHead(toc, size, sd, pad) = t0 \o lens \o sizes \o self
  BY <1>3, <1>5, <1>8, Zenon DEF MultipleHead
<1> HIDE DEF t0
<1>14. t0 \o lens \in Seq(Nat) /\ Len(t0 \o lens) = Len(t0) + Len(lens)
  BY <1>12, Joined
<1>15. (t0 \o lens) \o sizes \in Seq(Nat) /\ Len((t0 \o lens) \o sizes) = Len(t0 \o lens) + Len(sizes)
  BY <1>14, Joined
<1>16. ((t0 \o lens) \o sizes) \o self \in Seq(Nat)
       /\ Len(((t0 \o lens) \o sizes) \o self) = Len((t0 \o lens) \o sizes) + Len(self)
  BY <1>15, Joined
<1>17. PICK k \in Nat, v \in Nat : k = Len(lens) /\ v = Len(sizes)
  OBVIOUS
<1>18. Len(((t0 \o lens) \o sizes) \o self) = 2 + k + v + b
  BY <1>3, <1>12, <1>14, <1>15, <1>16, <1>17, Zenon
<1>19. (b + sum + 2 + v) + k = (2 + k + v + b) + sum
  OBVIOUS
<1>20. Multiple(size, sd) + k = (2 + k + v + b) + sum
  BY <1>10, <1>11, <1>17, <1>19, Zenon
<1>21. k <= pad
  BY <1>5, <1>17
<1>22. Multiple(size, sd) + k = Len(MultipleHead(toc, size, sd, pad)) + sum
  BY <1>13, <1>18, <1>20, Zenon
<1>23. MultipleHead(toc, size, sd, pad) \in Seq(Nat)
  BY <1>13, <1>16, Zenon
<1> QED
  BY <1>21, <1>22, <1>23 DEF Headed

\* The fewest bytes n frames can be written in.
Shortest(size, sd) == IF Len(size) <= 2 THEN Simple(size, sd) ELSE Multiple(size, sd)

LEMMA OnlyOne ==
    ASSUME NEW s \in Seq(Nat), Len(s) = 1
    PROVE  s = <<s[1]>>
OBVIOUS

LEMMA FirstOf ==
    ASSUME NEW s \in Seq(Nat), 1 <= Len(s)
    PROVE  /\ SubSeq(s, 1, 1) \in Seq(Nat) /\ Len(SubSeq(s, 1, 1)) = 1
           /\ SubSeq(s, 1, 1)[1] = s[1]
<1>1. \A a \in Nat, n \in Nat :
         a + n <= Len(s) =>
            /\ SubSeq(s, a + 1, a + n) \in Seq(Nat) /\ Len(SubSeq(s, a + 1, a + n)) = n
            /\ \A i \in 1 .. n : SubSeq(s, a + 1, a + n)[i] = s[a + i]
  BY PartOf
<1> QED
  BY <1>1

LEMMA OneMore ==
    ASSUME NEW size \in Seq(Nat), NEW n \in Nat, NEW sum \in Nat, Adds(size, n, sum),
           n >= 1, NEW sd \in BOOLEAN
    PROVE  /\ Simple(size, sd) \in Nat /\ Multiple(size, sd) \in Nat
           /\ n <= 2 => Multiple(size, sd) = Simple(size, sd) + 1
           /\ Simple(size, sd) > 0 /\ Multiple(size, sd) > 0
<1>1. Len(size) = n /\ SumSeq(size) = sum /\ size # <<>>
  BY DEF Adds
<1>2. PICK b \in Nat : SelfLen(size, sd, b)
  BY <1>1, SelfSizeFits
<1>3. Len(SelfSize(size, sd)) = b
  BY <1>2 DEF SelfLen
<1>4. PICK s : s = IF Len(size) = 2 /\ Vbr(size) THEN 1 + Len(EncodeSize(size[1])) ELSE 1
  OBVIOUS
<1>5. PICK m : m = IF Vbr(size) THEN Len(EncodedSizes(AllButLast(size))) ELSE 0
  OBVIOUS
<1>6. Simple(size, sd) = b + sum + s
  <2>1. Simple(size, sd) = Len(SelfSize(size, sd)) + SumSeq(size) + s
    BY <1>4, Zenon DEF Simple
  <2> QED
    BY <1>1, <1>3, <2>1, Zenon
<1>7. Multiple(size, sd) = b + sum + 2 + m
  <2>1. Multiple(size, sd) = Len(SelfSize(size, sd)) + SumSeq(size) + 2 + m
    BY <1>5, Zenon DEF Multiple
  <2> QED
    BY <1>1, <1>3, <2>1, Zenon
<1>8. s \in Nat /\ s >= 1
  <2>1. CASE Len(size) = 2 /\ Vbr(size)
    <3>1. size[1] \in Nat
      BY <1>1
    <3>2. PICK e \in {1, 2} : e = Len(EncodeSize(size[1]))
      BY <3>1, EncodedSize
    <3>3. s = 1 + e
      BY <1>4, <2>1, <3>2, Zenon
    <3> QED
      BY <3>3
  <2>2. CASE ~ (Len(size) = 2 /\ Vbr(size))
    <3>1. s = 1
      BY <1>4, <2>2, Zenon
    <3> QED
      BY <3>1
  <2> QED
    BY <2>1, <2>2
<1>9. m \in Nat
  <2>1. CASE Vbr(size)
    <3>4. AllButLast(size) \in Seq(Nat)
      BY <1>1 DEF AllButLast
    <3>1. PICK a \in Seq(Nat) : a = AllButLast(size)
      BY <3>4
    <3>2. Len(EncodedSizes(a)) \in Nat
      <4>1. PICK k \in Nat : k = Len(a)
        OBVIOUS
      <4> QED
        BY <4>1, EncodedFits
    <3>3. m = Len(EncodedSizes(a))
      BY <1>5, <2>1, <3>1, Zenon
    <3> QED
      BY <3>2, <3>3
  <2>2. CASE ~ Vbr(size)
    <3>1. m = 0
      BY <1>5, <2>2, Zenon
    <3> QED
      BY <3>1
  <2> QED
    BY <2>1, <2>2
<1>10. ASSUME n <= 2 PROVE m + 1 = s
  <2>1. CASE Vbr(size)
    <3>1. PICK i \in 2 .. Len(size) : size[i] # size[1]
      BY <2>1 DEF Vbr
    <3>2. n = 2 /\ Len(size) = 2
      BY <1>1, <1>10, <3>1
    <3>3. PICK x \in Nat : x = size[1]
      BY <3>2
    <3>4. AllButLast(size) = <<x>>
      <4>1. PICK z \in Seq(Nat) : z = SubSeq(size, 1, 1) /\ Len(z) = 1 /\ z[1] = size[1]
        <5>1. 1 <= Len(size)
          BY <3>2
        <5> QED
          BY <5>1, FirstOf
      <4>2. z = <<z[1]>>
        BY <4>1, OnlyOne
      <4>3. AllButLast(size) = z
        <5>1. 2 - 1 = 1
          OBVIOUS
        <5> QED
          BY <3>2, <4>1, <5>1, Zenon DEF AllButLast
      <4> QED
        BY <3>3, <4>1, <4>2, <4>3, Zenon
    <3>5. EncodedSizes(<<x>>) = EncodeSize(x)
      <4>1. <<x>> \in Seq(Nat) /\ Len(<<x>>) = 1 /\ <<x>>[1] = x
        OBVIOUS
      <4>2. PICK f : IsEncoded(f, <<x>>, 1) /\ EncodedSizes(<<x>>) = f[1]
        BY <4>1, EncodedIs
      <4>3. f[0] = <<>>
        BY <4>2 DEF IsEncoded
      <4>4. f[1] = f[0] \o EncodeSize(<<x>>[1])
        BY <4>2, SMTT(30) DEF IsEncoded
      <4>5. PICK e \in Seq(Nat) : e = EncodeSize(x)
        BY EncodedSize
      <4>6. <<>> \o e = e
        OBVIOUS
      <4> QED
        BY <4>1, <4>2, <4>3, <4>4, <4>5, <4>6, Zenon
    <3>6. PICK e \in {1, 2} : e = Len(EncodeSize(x))
      BY EncodedSize
    <3>7. m = e
      BY <1>5, <2>1, <3>4, <3>5, <3>6, Zenon
    <3>8. s = 1 + e
      BY <1>4, <2>1, <3>2, <3>3, <3>6, Zenon
    <3>9. e + 1 = 1 + e
      OBVIOUS
    <3> QED
      BY <3>7, <3>8, <3>9, Zenon
  <2>2. CASE ~ Vbr(size)
    <3>1. s = 1 /\ m = 0
      BY <1>4, <1>5, <2>2, Zenon
    <3>2. 0 + 1 = 1
      OBVIOUS
    <3> QED
      BY <3>1, <3>2, Zenon
  <2> QED
    BY <2>1, <2>2
<1>11. /\ b + sum + s \in Nat /\ b + sum + s > 0
       /\ b + sum + 2 + m \in Nat /\ b + sum + 2 + m > 0
  BY <1>8, <1>9
<1>12. ASSUME n <= 2 PROVE b + sum + 2 + m = (b + sum + s) + 1
  BY <1>8, <1>9, <1>10, <1>12
<1> QED
  BY <1>6, <1>7, <1>11, <1>12, Zenon

\* What is written for the frames, of which head is the header.
Shape(q, sum, maxlen, pad, short) ==
    /\ q.ret = IF pad THEN maxlen ELSE short
    /\ q.head \in Seq(Nat) /\ q.ret \in Nat /\ q.ret > 0 /\ q.ret <= maxlen
    /\ \E gap \in Nat : q.ret = Len(q.head) + sum + gap

\* What Packed returns for frames that take short bytes at least.
PackedAs(q, sum, maxlen, pad, short) ==
    /\ short \in Nat
    /\ short > maxlen => q.ret = BUFFER_TOO_SMALL
    /\ short <= maxlen => Shape(q, sum, maxlen, pad, short)

LEMMA PackedIs ==
    ASSUME NEW size \in Seq(Nat), NEW n \in Nat, NEW sum \in Nat, Adds(size, n, sum),
           n >= 1, NEW toc \in Nat, NEW sd \in BOOLEAN, NEW maxlen \in Int, NEW pad \in BOOLEAN
    PROVE  PackedAs(Packed(toc, size, sd, maxlen, pad), sum, maxlen, pad, Shortest(size, sd))
<1>0. PICK short : short = Shortest(size, sd)
  OBVIOUS
<1> DEFINE q == Packed(toc, size, sd, maxlen, pad)
<1>1. Len(size) = n
  BY DEF Adds
<1>2. PICK a \in Nat, b \in Nat :
          a = Simple(size, sd) /\ b = Multiple(size, sd) /\ a > 0 /\ b > 0 /\ (n <= 2 => b = a + 1)
  BY OneMore
<1>3. q = IF n <= 2 /\ a > maxlen THEN [ret |-> BUFFER_TOO_SMALL]
          ELSE IF n <= 2 /\ ~ (pad /\ a < maxlen)
          THEN [ret |-> a, head |-> SimpleHead(toc, size, sd)]
          ELSE IF b > maxlen THEN [ret |-> BUFFER_TOO_SMALL]
          ELSE IF pad
          THEN [ret |-> maxlen, head |-> MultipleHead(toc, size, sd, maxlen - b)]
          ELSE [ret |-> b, head |-> MultipleHead(toc, size, sd, 0)]
  BY <1>1, <1>2, Zenon DEF Packed
<1>4. short = IF n <= 2 THEN a ELSE b
  BY <1>0, <1>1, <1>2, Zenon DEF Shortest
<1>5. short \in Nat /\ short > 0
  BY <1>2, <1>4
<1>6. ASSUME short > maxlen PROVE q.ret = BUFFER_TOO_SMALL
  <2>1. q = [ret |-> BUFFER_TOO_SMALL]
    <3>1. CASE n <= 2
      <4>1. a > maxlen
        BY <1>4, <1>6, <3>1
      <4> QED
        BY <1>3, <3>1, <4>1, Zenon
    <3>2. CASE ~ (n <= 2)
      <4>1. b > maxlen
        BY <1>4, <1>6, <3>2
      <4> QED
        BY <1>3, <3>2, <4>1, Zenon
    <3> QED
      BY <3>1, <3>2
  <2> QED
    BY <2>1
<1> HIDE DEF q
<1>10. \A room \in Nat : Headed(toc, size, sd, room, sum)
  BY MultipleShape
<1>7. ASSUME n <= 2, a <= maxlen, ~ (pad /\ a < maxlen)
      PROVE  Shape(q, sum, maxlen, pad, short)
  <2>1. ~ (a > maxlen)
    BY <1>2, <1>7
  <2>2. q = [ret |-> a, head |-> SimpleHead(toc, size, sd)]
    BY <1>3, <1>7, <2>1, Zenon
  <2>3. SimpleHead(toc, size, sd) \in Seq(Nat) /\ Simple(size, sd) = Len(SimpleHead(toc, size, sd)) + sum
    BY <1>7, SimpleShape
  <2>4. PICK head \in Seq(Nat) : head = SimpleHead(toc, size, sd)
    BY <2>3
  <2>5. a = Len(head) + sum
    BY <1>2, <2>3, <2>4, Zenon
  <2>6. q.ret = a /\ q.head = head
    BY <2>2, <2>4
  <2>7. a = Len(head) + sum + 0
    BY <2>5
  <2>8. a = IF pad THEN maxlen ELSE short
    <3>1. short = a
      BY <1>4, <1>7, Zenon
    <3>2. pad => a = maxlen
      BY <1>2, <1>7
    <3> QED
      BY <3>1, <3>2
  <2> QED
    BY <1>2, <1>7, <2>6, <2>7, <2>8 DEF Shape
<1>8. ASSUME b <= maxlen, n <= 2 => (pad /\ a < maxlen)
      PROVE  Shape(q, sum, maxlen, pad, short)
  <2>1. ~ (b > maxlen) /\ ~ (n <= 2 /\ a > maxlen) /\ ~ (n <= 2 /\ ~ (pad /\ a < maxlen))
    BY <1>2, <1>8
  <2>2. q = IF pad THEN [ret |-> maxlen, head |-> MultipleHead(toc, size, sd, maxlen - b)]
            ELSE [ret |-> b, head |-> MultipleHead(toc, size, sd, 0)]
    BY <1>3, <2>1, Zenon
  <2>3. PICK room \in Nat : room = IF pad THEN maxlen - b ELSE 0
    <3>1. maxlen - b \in Nat
      BY <1>2, <1>8
    <3>2. 0 \in Nat
      OBVIOUS
    <3> QED
      BY <3>1, <3>2
  <2>4. q.head = MultipleHead(toc, size, sd, room) /\ q.ret = IF pad THEN maxlen ELSE b
    BY <2>2, <2>3
  <2>5. /\ MultipleHead(toc, size, sd, room) \in Seq(Nat)
        /\ \E k \in Nat : /\ k <= room
                          /\ Multiple(size, sd) + k = Len(MultipleHead(toc, size, sd, room)) + sum
    BY <1>10 DEF Headed
  <2>6. PICK head \in Seq(Nat) : head = MultipleHead(toc, size, sd, room)
    BY <2>5
  <2>7. PICK k \in Nat : k <= room /\ b + k = Len(head) + sum
    BY <1>2, <2>5, <2>6, Zenon
  <2>8. q.head = head
    BY <2>4, <2>6
  <2>9. PICK w \in Nat : w = Len(head)
    OBVIOUS
  <2>10. PICK gap \in Nat : gap = room - k
    BY <2>7
  <2>11. PICK r \in Int : r = IF pad THEN maxlen ELSE b
    BY <1>2
  <2>12. r = w + sum + gap
    <3>1. r = b + room
      BY <1>2, <2>3, <2>11
    <3>2. b + k = w + sum
      BY <2>7, <2>9, Zenon
    <3> QED
      BY <2>10, <3>1, <3>2
  <2>13. q.ret = r /\ r > 0 /\ r <= maxlen /\ r \in Nat
    BY <1>2, <1>8, <2>4, <2>11
  <2>14. r = IF pad THEN maxlen ELSE short
    <3>1. ~ pad => short = b
      BY <1>4, <1>8, Zenon
    <3> QED
      BY <2>11, <3>1, Zenon
  <2>15. q.ret = Len(q.head) + sum + gap
    BY <2>8, <2>9, <2>12, <2>13, Zenon
  <2>16. q.ret \in Nat /\ q.ret > 0 /\ q.ret <= maxlen /\ q.head \in Seq(Nat)
    BY <2>8, <2>13, Zenon
  <2>17. q.ret = IF pad THEN maxlen ELSE short
    BY <2>13, <2>14, Zenon
  <2> QED
    BY <2>15, <2>16, <2>17, Zenon DEF Shape
<1>9. ASSUME short <= maxlen PROVE Shape(q, sum, maxlen, pad, short)
  <2>1. CASE n <= 2
    <3>1. a <= maxlen
      BY <1>4, <1>9, <2>1
    <3>2. pad /\ a < maxlen => b <= maxlen
      BY <1>2, <2>1
    <3> QED
      BY <1>7, <1>8, <2>1, <3>1, <3>2
  <2>2. CASE ~ (n <= 2)
    <3>1. b <= maxlen
      BY <1>4, <1>9, <2>2
    <3> QED
      BY <1>8, <2>2, <3>1
  <2> QED
    BY <2>1, <2>2
<1>11. PackedAs(q, sum, maxlen, pad, short)
  BY <1>5, <1>6, <1>9 DEF PackedAs
<1> QED
  BY <1>0, <1>11, Zenon DEF q

-----------------------------------------------------------------------------
(* Layouts                                                                 *)

\* A layout of n channels whose entries are all there.
LayoutFor(l, n) ==
    /\ l.streams \in Nat /\ l.streams >= 1
    /\ l.coupled \in Nat /\ l.coupled <= l.streams
    /\ l.mapping \in Seq(Nat) /\ Len(l.mapping) = n
    /\ \A c \in 1 .. n : l.mapping[c] < l.streams + l.coupled
    /\ n <= 2 => l.streams = 1 /\ l.coupled = n - 1 /\ \A c \in 1 .. n : l.mapping[c] = c - 1

LEMMA VorbisLayouts == \A n \in 1 .. 8 : LayoutFor(Vorbis[n], n)
<1>1. LayoutFor(Vorbis[1], 1)
  <2>1. PICK m \in Seq(Nat) : m = <<0>>
    <3>1. <<0>> \in Seq(Nat)
      OBVIOUS
    <3> QED
      BY <3>1, Zenon
  <2>2. Len(m) = 1 /\ m[1] = 0
    BY <2>1
  <2>3. PICK l : l = Vorbis[1]
    OBVIOUS
  <2>4. l.streams = 1 /\ l.coupled = 0 /\ l.mapping = m
    BY <2>1, <2>3 DEF Vorbis
  <2>5. \A c \in 1 .. 1 : c = 1
    OBVIOUS
  <2>6. \A c \in 1 .. 1 : m[c] < 1
    BY <2>2, <2>5
  <2>7. \A c \in 1 .. 1 : m[c] = c - 1
    BY <2>2, <2>5
  <2> QED
    BY <2>2, <2>3, <2>4, <2>6, <2>7 DEF LayoutFor
<1>2. LayoutFor(Vorbis[2], 2)
  <2>1. PICK m \in Seq(Nat) : m = <<0, 1>>
    <3>1. <<0, 1>> \in Seq(Nat)
      OBVIOUS
    <3> QED
      BY <3>1, Zenon
  <2>2. Len(m) = 2 /\ m[1] = 0 /\ m[2] = 1
    BY <2>1
  <2>3. PICK l : l = Vorbis[2]
    OBVIOUS
  <2>4. l.streams = 1 /\ l.coupled = 1 /\ l.mapping = m
    BY <2>1, <2>3 DEF Vorbis
  <2>5. \A c \in 1 .. 2 : c = 1 \/ c = 2
    OBVIOUS
  <2>6. \A c \in 1 .. 2 : m[c] < 2
    BY <2>2, <2>5
  <2>7. \A c \in 1 .. 2 : m[c] = c - 1
    BY <2>2, <2>5
  <2> QED
    BY <2>2, <2>3, <2>4, <2>6, <2>7 DEF LayoutFor
<1>3. LayoutFor(Vorbis[3], 3)
  <2>1. PICK m \in Seq(Nat) : m = <<0, 2, 1>>
    <3>1. <<0, 2, 1>> \in Seq(Nat)
      OBVIOUS
    <3> QED
      BY <3>1, Zenon
  <2>2. Len(m) = 3 /\ m[1] = 0 /\ m[2] = 2 /\ m[3] = 1
    BY <2>1
  <2>3. PICK l : l = Vorbis[3]
    OBVIOUS
  <2>4. l.streams = 2 /\ l.coupled = 1 /\ l.mapping = m
    BY <2>1, <2>3 DEF Vorbis
  <2>5. \A c \in 1 .. 3 : c = 1 \/ c = 2 \/ c = 3
    OBVIOUS
  <2>6. \A c \in 1 .. 3 : m[c] < 3
    BY <2>2, <2>5
  <2> QED
    BY <2>2, <2>3, <2>4, <2>6 DEF LayoutFor
<1>4. LayoutFor(Vorbis[4], 4)
  <2>1. PICK m \in Seq(Nat) : m = <<0, 1, 2, 3>>
    <3>1. <<0, 1, 2, 3>> \in Seq(Nat)
      OBVIOUS
    <3> QED
      BY <3>1, Zenon
  <2>2. Len(m) = 4 /\ m[1] = 0 /\ m[2] = 1 /\ m[3] = 2 /\ m[4] = 3
    BY <2>1
  <2>3. PICK l : l = Vorbis[4]
    OBVIOUS
  <2>4. l.streams = 2 /\ l.coupled = 2 /\ l.mapping = m
    BY <2>1, <2>3 DEF Vorbis
  <2>5. \A c \in 1 .. 4 : c = 1 \/ c = 2 \/ c = 3 \/ c = 4
    OBVIOUS
  <2>6. \A c \in 1 .. 4 : m[c] < 4
    BY <2>2, <2>5
  <2> QED
    BY <2>2, <2>3, <2>4, <2>6 DEF LayoutFor
<1>5. LayoutFor(Vorbis[5], 5)
  <2>1. PICK m \in Seq(Nat) : m = <<0, 4, 1, 2, 3>>
    <3>1. <<0, 4, 1, 2, 3>> \in Seq(Nat)
      OBVIOUS
    <3> QED
      BY <3>1, Zenon
  <2>2. Len(m) = 5 /\ m[1] = 0 /\ m[2] = 4 /\ m[3] = 1 /\ m[4] = 2 /\ m[5] = 3
    BY <2>1
  <2>3. PICK l : l = Vorbis[5]
    OBVIOUS
  <2>4. l.streams = 3 /\ l.coupled = 2 /\ l.mapping = m
    BY <2>1, <2>3 DEF Vorbis
  <2>5. \A c \in 1 .. 5 : c = 1 \/ c = 2 \/ c = 3 \/ c = 4 \/ c = 5
    OBVIOUS
  <2>6. \A c \in 1 .. 5 : m[c] < 5
    BY <2>2, <2>5
  <2> QED
    BY <2>2, <2>3, <2>4, <2>6 DEF LayoutFor
<1>6. LayoutFor(Vorbis[6], 6)
  <2>1. PICK m \in Seq(Nat) : m = <<0, 4, 1, 2, 3, 5>>
    <3>1. <<0, 4, 1, 2, 3, 5>> \in Seq(Nat)
      OBVIOUS
    <3> QED
      BY <3>1, Zenon
  <2>2. Len(m) = 6 /\ m[1] = 0 /\ m[2] = 4 /\ m[3] = 1 /\ m[4] = 2 /\ m[5] = 3 /\ m[6] = 5
    BY <2>1
  <2>3. PICK l : l = Vorbis[6]
    OBVIOUS
  <2>4. l.streams = 4 /\ l.coupled = 2 /\ l.mapping = m
    BY <2>1, <2>3 DEF Vorbis
  <2>5. \A c \in 1 .. 6 : c = 1 \/ c = 2 \/ c = 3 \/ c = 4 \/ c = 5 \/ c = 6
    OBVIOUS
  <2>6. \A c \in 1 .. 6 : m[c] < 6
    BY <2>2, <2>5
  <2> QED
    BY <2>2, <2>3, <2>4, <2>6 DEF LayoutFor
<1>7. LayoutFor(Vorbis[7], 7)
  <2>1. PICK m \in Seq(Nat) : m = <<0, 4, 1, 2, 3, 5, 6>>
    <3>1. <<0, 4, 1, 2, 3, 5, 6>> \in Seq(Nat)
      OBVIOUS
    <3> QED
      BY <3>1, Zenon
  <2>2. Len(m) = 7 /\ m[1] = 0 /\ m[2] = 4 /\ m[3] = 1 /\ m[4] = 2 /\ m[5] = 3 /\ m[6] = 5 /\ m[7] = 6
    BY <2>1
  <2>3. PICK l : l = Vorbis[7]
    OBVIOUS
  <2>4. l.streams = 4 /\ l.coupled = 3 /\ l.mapping = m
    BY <2>1, <2>3 DEF Vorbis
  <2>5. \A c \in 1 .. 7 : c = 1 \/ c = 2 \/ c = 3 \/ c = 4 \/ c = 5 \/ c = 6 \/ c = 7
    OBVIOUS
  <2>6. \A c \in 1 .. 7 : m[c] < 7
    BY <2>2, <2>5
  <2> QED
    BY <2>2, <2>3, <2>4, <2>6 DEF LayoutFor
<1>8. LayoutFor(Vorbis[8], 8)
  <2>1. PICK m \in Seq(Nat) : m = <<0, 6, 1, 2, 3, 4, 5, 7>>
    <3>1. <<0, 6, 1, 2, 3, 4, 5, 7>> \in Seq(Nat)
      OBVIOUS
    <3> QED
      BY <3>1, Zenon
  <2>2. Len(m) = 8 /\ m[1] = 0 /\ m[2] = 6 /\ m[3] = 1 /\ m[4] = 2 /\ m[5] = 3 /\ m[6] = 4 /\ m[7] = 5 /\ m[8] = 7
    BY <2>1
  <2>3. PICK l : l = Vorbis[8]
    OBVIOUS
  <2>4. l.streams = 5 /\ l.coupled = 3 /\ l.mapping = m
    BY <2>1, <2>3 DEF Vorbis
  <2>5. \A c \in 1 .. 8 : c = 1 \/ c = 2 \/ c = 3 \/ c = 4 \/ c = 5 \/ c = 6 \/ c = 7 \/ c = 8
    OBVIOUS
  <2>6. \A c \in 1 .. 8 : m[c] < 8
    BY <2>2, <2>5, SMTT(30)
  <2> QED
    BY <2>2, <2>3, <2>4, <2>6 DEF LayoutFor
<1> QED
  BY <1>1, <1>2, <1>3, <1>4, <1>5, <1>6, <1>7, <1>8

LEMMA LayoutIs ==
    ASSUME NEW n \in Nat, n >= 1
    PROVE  LayoutFor(SurroundLayout(n, Family(n)), n)
<1>1. CASE n > 8
  <2>1. Family(n) = 255
    BY <1>1 DEF Family
  <2> DEFINE l == SurroundLayout(n, Family(n))
  <2>2. l = [streams |-> n, coupled |-> 0, mapping |-> [c \in 1 .. n |-> c - 1]]
    BY <2>1 DEF SurroundLayout
  <2>3. PICK m \in Seq(Nat) : m = [c \in 1 .. n |-> c - 1]
    <3>1. [c \in 1 .. n |-> c - 1] \in Seq(Nat)
      OBVIOUS
    <3> QED
      BY <3>1
  <2>4. Len(m) = n /\ \A c \in 1 .. n : m[c] = c - 1
    BY <2>3
  <2>5. l.streams = n /\ l.coupled = 0 /\ l.mapping = m
    BY <2>2, <2>3
  <2> HIDE DEF l
  <2>6. \A c \in 1 .. n : m[c] < n + 0
    BY <2>4
  <2>7. LayoutFor(l, n)
    BY <1>1, <2>4, <2>5, <2>6 DEF LayoutFor
  <2> QED
    BY <2>7 DEF l
<1>2. CASE ~ (n > 8)
  <2>1. Family(n) # 255
    BY <1>2 DEF Family
  <2>2. SurroundLayout(n, Family(n)) = Vorbis[n]
    BY <2>1 DEF SurroundLayout
  <2>3. n \in 1 .. 8
    BY <1>2
  <2> QED
    BY <2>2, <2>3, VorbisLayouts
<1> QED
  BY <1>1, <1>2

LEMMA BytesAre == \A x \in Nat : x <= 255 => x \in Byte
  BY DEF Byte

\* The header of an encoder that was set up can be written.
LEMMA SetupWritable ==
    ASSUME NEW setup \in Setups,
           Accepted(setup, SurroundLayout(setup.channels, Family(setup.channels)))
    PROVE  Writable(HeaderOf(setup, SurroundLayout(setup.channels, Family(setup.channels))))
<1>0. PICK n \in Nat : n = setup.channels /\ n >= 1
  BY SetupAssumption DEF Accepted
<1>1. PICK l : /\ n = setup.channels /\ n >= 1
               /\ l = SurroundLayout(n, Family(n)) /\ LayoutFor(l, n)
               /\ Accepted(setup, l)
  BY <1>0, LayoutIs
<1>2. PICK r \in Nat : r = setup.rate /\ r <= 48000
  <2>1. setup.rate \in {8000, 12000, 16000, 24000, 48000}
    BY <1>1 DEF Accepted
  <2> QED
    BY <2>1
<1>3. PICK s \in Nat, k \in Nat, map \in Seq(Nat) :
         s = l.streams /\ k = l.coupled /\ map = l.mapping
  BY <1>1 DEF LayoutFor
<1>4. /\ s >= 1 /\ k <= s /\ Len(map) = n /\ \A c \in 1 .. n : map[c] < s + k
      /\ n <= 2 => s = 1 /\ k = n - 1 /\ \A c \in 1 .. n : map[c] = c - 1
  BY <1>1, <1>3 DEF LayoutFor
<1>5. n <= 255 /\ s <= 255 /\ s + k <= 255
  <2>1. ValidCounts(l) /\ ValidLayout(l)
    BY <1>1 DEF Accepted
  <2>2. Len(l.mapping) \in 1 .. 255 /\ l.streams + l.coupled <= 255
    BY <2>1 DEF ValidCounts, ValidLayout
  <2>3. Len(l.mapping) = n /\ l.streams = s /\ l.coupled = k
    BY <1>3, <1>4
  <2>4. n \in 1 .. 255 /\ s + k <= 255
    BY <2>2, <2>3
  <2> QED
    BY <2>4
<1> DEFINE g == HeaderOf(setup, l)
<1>6. g = [version |-> 0, channels |-> n, preskip |-> 0, rate |-> r, gain |-> 0,
           family |-> Family(n), streams |-> s, coupled |-> k, map |-> map]
  <2>1. HeaderOf(setup, l) = [NewHeader EXCEPT !.channels = n, !.rate = r,
                      !.family = Family(n), !.streams = s, !.coupled = k, !.map = map]
    <3>1. /\ setup.channels = n /\ setup.rate = r /\ l.streams = s /\ l.coupled = k
          /\ l.mapping = map /\ Family(setup.channels) = Family(n)
      BY <1>1, <1>2, <1>3
    <3> QED
      BY <3>1, Zenon DEF HeaderOf
  <2> QED
    BY <2>1 DEF NewHeader
<1>7. Family(n) \in Byte /\ (Family(n) = 0 => n <= 2)
  <2>1. Family(n) \in Nat /\ Family(n) <= 255 /\ (Family(n) = 0 => n <= 2)
    BY DEF Family
  <2> QED
    BY <2>1, BytesAre
<1>8. map \in Seq(Byte)
  <2>1. \A c \in 1 .. Len(map) : map[c] \in Byte
    <3> SUFFICES ASSUME NEW c \in 1 .. Len(map) PROVE map[c] \in Byte
      OBVIOUS
    <3>1. map[c] \in Nat /\ map[c] < s + k
      BY <1>4
    <3>2. map[c] <= 255
      BY <1>5, <3>1
    <3> QED
      BY <3>1, <3>2, BytesAre
  <2> QED
    BY <2>1
<1>9. n \in Byte \ {0} /\ s \in Byte \ {0} /\ k \in Byte /\ 0 \in Byte
  <2>1. n <= 255 /\ s <= 255 /\ k <= 255 /\ 0 <= 255 /\ n # 0 /\ s # 0
    BY <1>1, <1>4, <1>5
  <2> QED
    BY <2>1, BytesAre
<1>10. 0 \in Word /\ 0 \in Short
  BY DEF Word, Short
<1>11. g \in Headers
  BY <1>6, <1>7, <1>8, <1>9, <1>10 DEF Headers
<1>12. TwoWords(r)
  <2>1. r \div 65536 = 0
    BY <1>2
  <2>2. 0 \in Word
    BY <1>10
  <2>3. r \div 65536 \in Word
    BY <2>1, <2>2
  <2> QED
    BY <2>3 DEF TwoWords
<1>13. /\ g.rate = r /\ g.channels = n /\ g.family = Family(n) /\ g.streams = s /\ g.coupled = k
       /\ g.map = map
  BY <1>6
<1> HIDE DEF g
<1>14. \A c \in 1 .. n : map[c] <= s + k \/ map[c] = Muted
  BY <1>4
<1>15. s + k \in Byte
  BY <1>5, BytesAre
<1>16. Writable(g)
  BY <1>4, <1>7, <1>11, <1>12, <1>13, <1>14, <1>15 DEF Writable
<1> QED
  BY <1>1, <1>16 DEF g

-----------------------------------------------------------------------------
(* The OpusHead packet                                                     *)

\* r is q, of n elements, and then t, of m elements.
Both(r, q, t, n, m) ==
    /\ r \in Seq(Nat) /\ Len(r) = n + m
    /\ \A i \in Nat : i >= 1 /\ i <= n => r[i] = q[i]
    /\ \A i \in Nat : i >= 1 /\ i <= m => r[n + i] = t[i]

LEMMA JoinAt ==
    ASSUME NEW q \in Seq(Nat), NEW t \in Seq(Nat), NEW n, NEW m,
           Len(q) = n, Len(t) = m
    PROVE  Both(q \o t, q, t, n, m)
<1>1. q \o t \in Seq(Nat) /\ Len(q \o t) = Len(q) + Len(t)
  OBVIOUS
<1>2. \A i \in Nat : i >= 1 /\ i <= Len(q) => (q \o t)[i] = q[i]
  OBVIOUS
<1>3. \A i \in Nat : i >= 1 /\ i <= Len(t) => (q \o t)[Len(q) + i] = t[i]
  OBVIOUS
<1> QED
  BY <1>1, <1>2, <1>3, Zenon DEF Both

\* Two bytes of a number.
Two(t, lo, hi) == t \in Seq(Nat) /\ Len(t) = 2 /\ t[1] = lo /\ t[2] = hi

LEMMA TwoIs == \A lo, hi \in Nat : Two(<<lo, hi>>, lo, hi)
<1> SUFFICES ASSUME NEW lo \in Nat, NEW hi \in Nat PROVE Two(<<lo, hi>>, lo, hi)
  OBVIOUS
<1>1. <<lo, hi>> \in Seq(Nat)
  OBVIOUS
<1>2. Len(<<lo, hi>>) = 2 /\ <<lo, hi>>[1] = lo /\ <<lo, hi>>[2] = hi
  OBVIOUS
<1> QED
  BY <1>1, <1>2 DEF Two

LEMMA U16Is ==
    ASSUME NEW n \in Int
    PROVE  \E lo, hi \in Nat : /\ Two(U16(n), lo, hi) /\ lo = n % 256 /\ hi = (n \div 256) % 256
                               /\ lo <= 255 /\ hi <= 255
<1>1. PICK lo \in Nat, hi \in Nat : lo = n % 256 /\ hi = (n \div 256) % 256 /\ lo <= 255 /\ hi <= 255
  OBVIOUS
<1>2. U16(n) = <<lo, hi>>
  BY <1>1 DEF U16
<1>3. Two(<<lo, hi>>, lo, hi)
  BY TwoIs
<1>4. Two(U16(n), lo, hi)
  BY <1>2, <1>3
<1> QED
  BY <1>1, <1>4

Four(t, a, b, c, d) ==
    t \in Seq(Nat) /\ Len(t) = 4 /\ t[1] = a /\ t[2] = b /\ t[3] = c /\ t[4] = d

LEMMA FourIs ==
    ASSUME NEW s, NEW t, NEW a \in Nat, NEW b \in Nat, NEW c \in Nat, NEW d \in Nat,
           Two(s, a, b), Two(t, c, d)
    PROVE  Four(s \o t, a, b, c, d)
<1>1. s \in Seq(Nat) /\ t \in Seq(Nat) /\ Len(s) = 2 /\ Len(t) = 2
      /\ s[1] = a /\ s[2] = b /\ t[1] = c /\ t[2] = d
  BY DEF Two
<1>2. PICK q : q = s \o t
  OBVIOUS
<1>3. /\ q \in Seq(Nat) /\ Len(q) = 2 + 2
      /\ \A i \in Nat : i >= 1 /\ i <= 2 => q[i] = s[i]
      /\ \A i \in Nat : i >= 1 /\ i <= 2 => q[2 + i] = t[i]
  <2>1. Both(s \o t, s, t, 2, 2)
    BY <1>1, JoinAt, Zenon
  <2> QED
    BY <1>2, <2>1, Zenon DEF Both
<1>4. q[1] = a /\ q[2] = b
  BY <1>1, <1>3
<1>5. q[3] = c /\ q[4] = d
  <2>1. q[2 + 1] = c /\ q[2 + 2] = d
    BY <1>1, <1>3
  <2> QED
    BY <2>1
<1>6. Len(q) = 4
  BY <1>3
<1> QED
  BY <1>2, <1>3, <1>4, <1>5, <1>6, Zenon DEF Four

LEMMA BytesOfPair ==
    ASSUME NEW n \in Nat, NEW k \in Nat
    PROVE  \E a, b, c, d \in Nat :
              /\ Four(U16(n) \o U16(k), a, b, c, d)
              /\ a = n % 256 /\ b = (n \div 256) % 256
              /\ c = k % 256 /\ d = (k \div 256) % 256
<1>1. PICK a \in Nat, b \in Nat : /\ Two(U16(n), a, b) /\ a = n % 256 /\ b = (n \div 256) % 256
  BY U16Is
<1>2. PICK c \in Nat, d \in Nat : /\ Two(U16(k), c, d) /\ c = k % 256 /\ d = (k \div 256) % 256
  BY U16Is
<1>3. Four(U16(n) \o U16(k), a, b, c, d)
  BY <1>1, <1>2, FourIs
<1> QED
  BY <1>1, <1>2, <1>3

\* The four bytes of a number.
U32Bytes(n) ==
    \E a, b, c, d \in Nat :
        Four(U32(n), a, b, c, d) /\ n = a + 256 * (b + 256 * (c + 256 * d))

LEMMA U32Is ==
    ASSUME NEW n \in Nat, n \div 65536 <= 65535
    PROVE  U32Bytes(n)
<1>1. PICK k \in Nat : k = n \div 65536
  OBVIOUS
<1>2. U32(n) = U16(n) \o U16(k)
  BY <1>1 DEF U32
<1>3. PICK a \in Nat, b \in Nat, c \in Nat, d \in Nat :
         /\ Four(U16(n) \o U16(k), a, b, c, d)
         /\ a = n % 256 /\ b = (n \div 256) % 256
         /\ c = k % 256 /\ d = (k \div 256) % 256
  BY BytesOfPair
<1>4. k <= 65535
  BY <1>1
<1>5. d = k \div 256 /\ k = c + 256 * d
  BY <1>3, <1>4
<1>6. n = a + 256 * (b + 256 * k)
  BY <1>1, <1>3
<1>7. n = a + 256 * (b + 256 * (c + 256 * d))
  BY <1>5, <1>6
<1>8. Four(U32(n), a, b, c, d)
  BY <1>2, <1>3
<1> QED
  BY <1>7, <1>8 DEF U32Bytes

LEMMA RangeIs == \A a, b \in Int : \A n \in a .. b : n \in Int /\ a <= n /\ n <= b
  OBVIOUS

LEMMA SignedBack ==
    ASSUME NEW n \in Int, n + 32768 >= 0, n <= 32767
    PROVE  Signed((n % 256) + 256 * ((n \div 256) % 256)) = n
<1>0. n \in Int /\ n + 32768 >= 0 /\ n <= 32767
  OBVIOUS
<1>1. PICK k \in Int : k = n \div 256
  BY <1>0
<1>2. PICK a \in Nat : a = n % 256 /\ a <= 255
  BY <1>0
<1>3. n = 256 * k + a
  BY <1>0, <1>1, <1>2
<1>4. k + 128 >= 0 /\ k <= 127
  BY <1>0, <1>2, <1>3
<1>5. CASE n >= 0
  <2>1. k >= 0
    BY <1>0, <1>2, <1>3, <1>5
  <2>3. k % 256 = k
    BY <1>4, <2>1
  <2>2. a + 256 * (k % 256) = n
    BY <1>0, <1>3, <2>3
  <2> QED
    BY <1>1, <1>2, <1>5, <2>2 DEF Signed
<1>6. CASE n < 0
  <2>1. k < 0
    BY <1>0, <1>2, <1>3, <1>6
  <2>3. k % 256 = k + 256
    BY <1>4, <2>1
  <2>2. a + 256 * (k % 256) = n + 65536
    BY <1>0, <1>3, <2>3
  <2> QED
    BY <1>1, <1>2, <1>6, <2>2 DEF Signed
<1> QED
  BY <1>5, <1>6

\* The first 8 bytes, the version, the channels and what is in the middle.
Front(q, ch, a, b) ==
    /\ q \in Seq(Nat) /\ Len(q) = 12
    /\ \A i \in Nat : i >= 1 /\ i <= 8 => q[i] = Magic[i]
    /\ q[9] = 1 /\ q[10] = ch /\ q[11] = a /\ q[12] = b

LEMMA MagicIs == Magic \in Seq(Nat) /\ Len(Magic) = 8
<1>1. PICK m : m = Magic
  OBVIOUS
<1>2. <<79, 112, 117, 115, 72, 101, 97, 100>> \in Seq(Nat)
  OBVIOUS
<1>3. Len(<<79, 112, 117, 115, 72, 101, 97, 100>>) = 8
  OBVIOUS
<1> QED
  BY <1>2, <1>3 DEF Magic

LEMMA FrontIs ==
    ASSUME NEW ch \in Nat, NEW t, NEW a \in Nat, NEW b \in Nat, Two(t, a, b)
    PROVE  Front((Magic \o <<1, ch>>) \o t, ch, a, b)
<1>1. Two(<<1, ch>>, 1, ch)
  BY TwoIs
<1>2. PICK u, q, r : u = <<1, ch>> /\ q = Magic \o u /\ r = q \o t
  OBVIOUS
<1>3. u \in Seq(Nat) /\ Len(u) = 2 /\ u[1] = 1 /\ u[2] = ch
  BY <1>1, <1>2, Zenon DEF Two
<1>4. t \in Seq(Nat) /\ Len(t) = 2 /\ t[1] = a /\ t[2] = b
  BY Zenon DEF Two
<1>5. Both(q, Magic, u, 8, 2)
  BY <1>2, <1>3, MagicIs, JoinAt, Zenon
<1>6. /\ q \in Seq(Nat) /\ Len(q) = 10
      /\ \A i \in Nat : i >= 1 /\ i <= 8 => q[i] = Magic[i]
      /\ q[9] = 1 /\ q[10] = ch
  <2>1. q[8 + 1] = u[1] /\ q[8 + 2] = u[2]
    BY <1>5 DEF Both
  <2>2. q \in Seq(Nat) /\ Len(q) = 8 + 2 /\ \A i \in Nat : i >= 1 /\ i <= 8 => q[i] = Magic[i]
    BY <1>5, Zenon DEF Both
  <2> QED
    BY <1>3, <2>1, <2>2
<1>7. Both(r, q, t, 10, 2)
  BY <1>2, <1>4, <1>6, JoinAt, Zenon
<1>8. /\ r \in Seq(Nat) /\ Len(r) = 12
      /\ \A i \in Nat : i >= 1 /\ i <= 10 => r[i] = q[i]
      /\ r[11] = a /\ r[12] = b
  <2>1. r[10 + 1] = t[1] /\ r[10 + 2] = t[2]
    BY <1>7 DEF Both
  <2>2. r \in Seq(Nat) /\ Len(r) = 10 + 2 /\ \A i \in Nat : i >= 1 /\ i <= 10 => r[i] = q[i]
    BY <1>7, Zenon DEF Both
  <2> QED
    BY <1>4, <2>1, <2>2
<1>9. \A i \in Nat : i >= 1 /\ i <= 8 => r[i] = Magic[i]
  BY <1>6, <1>8
<1>10. r[9] = 1 /\ r[10] = ch
  BY <1>6, <1>8
<1>11. Front(r, ch, a, b)
  BY <1>8, <1>9, <1>10 DEF Front
<1> QED
  BY <1>2, <1>11, Zenon

\* The rate, the gain and the mapping family.
Back(r, q, a, b, c, d, e, f, fam) ==
    /\ r \in Seq(Nat) /\ Len(r) = 19
    /\ \A i \in Nat : i >= 1 /\ i <= 12 => r[i] = q[i]
    /\ r[13] = a /\ r[14] = b /\ r[15] = c /\ r[16] = d /\ r[17] = e /\ r[18] = f
    /\ r[19] = fam

LEMMA BackIs ==
    ASSUME NEW q \in Seq(Nat), Len(q) = 12, NEW t, NEW u, NEW a \in Nat, NEW b \in Nat,
           NEW c \in Nat, NEW d \in Nat, NEW e \in Nat, NEW f \in Nat, NEW fam \in Nat,
           Four(t, a, b, c, d), Two(u, e, f)
    PROVE  Back(((q \o t) \o u) \o <<fam>>, q, a, b, c, d, e, f, fam)
<1>1. PICK v, x, y, z : v = <<fam>> /\ x = q \o t /\ y = x \o u /\ z = y \o v
  OBVIOUS
<1>2. v \in Seq(Nat) /\ Len(v) = 1 /\ v[1] = fam
  BY <1>1
<1>3. t \in Seq(Nat) /\ Len(t) = 4 /\ t[1] = a /\ t[2] = b /\ t[3] = c /\ t[4] = d
  BY Zenon DEF Four
<1>4. u \in Seq(Nat) /\ Len(u) = 2 /\ u[1] = e /\ u[2] = f
  BY Zenon DEF Two
<1>5. Both(x, q, t, 12, 4)
  BY <1>1, <1>3, JoinAt, Zenon
<1>6. /\ x \in Seq(Nat) /\ Len(x) = 16
      /\ \A i \in Nat : i >= 1 /\ i <= 12 => x[i] = q[i]
      /\ x[13] = a /\ x[14] = b /\ x[15] = c /\ x[16] = d
  <2>1. x[12 + 1] = t[1] /\ x[12 + 2] = t[2] /\ x[12 + 3] = t[3] /\ x[12 + 4] = t[4]
    BY <1>5 DEF Both
  <2>2. x \in Seq(Nat) /\ Len(x) = 12 + 4 /\ \A i \in Nat : i >= 1 /\ i <= 12 => x[i] = q[i]
    BY <1>5, Zenon DEF Both
  <2> QED
    BY <1>3, <2>1, <2>2
<1>7. Both(y, x, u, 16, 2)
  BY <1>1, <1>4, <1>6, JoinAt, Zenon
<1>8. /\ y \in Seq(Nat) /\ Len(y) = 18
      /\ \A i \in Nat : i >= 1 /\ i <= 16 => y[i] = x[i]
      /\ y[17] = e /\ y[18] = f
  <2>1. y[16 + 1] = u[1] /\ y[16 + 2] = u[2]
    BY <1>7 DEF Both
  <2>2. y \in Seq(Nat) /\ Len(y) = 16 + 2 /\ \A i \in Nat : i >= 1 /\ i <= 16 => y[i] = x[i]
    BY <1>7, Zenon DEF Both
  <2> QED
    BY <1>4, <2>1, <2>2
<1>9. Both(z, y, v, 18, 1)
  BY <1>1, <1>2, <1>8, JoinAt, Zenon
<1>10. /\ z \in Seq(Nat) /\ Len(z) = 19
       /\ \A i \in Nat : i >= 1 /\ i <= 18 => z[i] = y[i]
       /\ z[19] = fam
  <2>1. z[18 + 1] = v[1]
    BY <1>9 DEF Both
  <2>2. z \in Seq(Nat) /\ Len(z) = 18 + 1 /\ \A i \in Nat : i >= 1 /\ i <= 18 => z[i] = y[i]
    BY <1>9, Zenon DEF Both
  <2> QED
    BY <1>2, <2>1, <2>2
<1>11. \A i \in Nat : i >= 1 /\ i <= 12 => z[i] = q[i]
  BY <1>6, <1>8, <1>10, SMTT(30)
<1>12. z[13] = a /\ z[14] = b /\ z[15] = c /\ z[16] = d
  BY <1>6, <1>8, <1>10
<1>13. z[17] = e /\ z[18] = f
  BY <1>8, <1>10
<1>14. Back(z, q, a, b, c, d, e, f, fam)
  BY <1>10, <1>11, <1>12, <1>13, Zenon DEF Back
<1> QED
  BY <1>1, <1>14, Zenon

\* The bytes of a header, and what the parser makes of them.
Written(p, g) ==
    /\ p \in Seq(Nat) /\ Len(p) = IF g.family = 0 THEN 19 ELSE 21 + g.channels
    /\ \A i \in Nat : i >= 1 /\ i <= 8 => p[i] = Magic[i]
    /\ p[9] = 1 /\ p[10] = g.channels /\ p[11] + 256 * p[12] = g.preskip
    /\ p[13] + 256 * (p[14] + 256 * (p[15] + 256 * p[16])) = g.rate
    /\ Signed(p[17] + 256 * p[18]) = g.gain /\ p[19] = g.family
    /\ g.family # 0 => /\ p[20] = g.streams /\ p[21] = g.coupled
                       /\ \A c \in Nat : c >= 1 /\ c <= g.channels => p[21 + c] = g.map[c]

\* The 19 bytes every header has.
Fixed(p, g) ==
    /\ p \in Seq(Nat) /\ Len(p) = 19
    /\ \A i \in Nat : i >= 1 /\ i <= 8 => p[i] = Magic[i]
    /\ p[9] = 1 /\ p[10] = g.channels /\ p[11] + 256 * p[12] = g.preskip
    /\ p[13] + 256 * (p[14] + 256 * (p[15] + 256 * p[16])) = g.rate
    /\ Signed(p[17] + 256 * p[18]) = g.gain /\ p[19] = g.family

FixedBytes(g) ==
    Magic \o <<1, g.channels>> \o U16(g.preskip) \o U32(g.rate) \o U16(g.gain) \o <<g.family>>

\* What a header that can be written consists of.
LEMMA WritableIs ==
    ASSUME NEW g, Writable(g)
    PROVE  /\ g.channels \in Byte \ {0} /\ g.preskip \in Word /\ g.rate \in Nat
           /\ TwoWords(g.rate) /\ g.gain \in Short /\ g.family \in Byte
           /\ g.streams \in Byte \ {0} /\ g.coupled \in Byte /\ g.map \in Seq(Byte)
           /\ g.coupled <= g.streams /\ g.streams + g.coupled \in Byte
           /\ Len(g.map) >= g.channels
           /\ \A c \in 1 .. g.channels : g.map[c] <= g.streams + g.coupled \/ g.map[c] = Muted
           /\ g.family = 0 => /\ g.channels <= 2 /\ g.streams = 1 /\ g.coupled = g.channels - 1
                              /\ \A c \in 1 .. g.channels : g.map[c] = c - 1
<1>1. g \in Headers
  BY Zenon DEF Writable
<1>2. /\ g.channels \in Byte \ {0} /\ g.preskip \in Word /\ g.rate \in Nat
      /\ g.gain \in Short /\ g.family \in Byte /\ g.streams \in Byte \ {0}
      /\ g.coupled \in Byte /\ g.map \in Seq(Byte)
  BY <1>1 DEF Headers
<1> QED
  BY <1>2, Zenon DEF Writable

LEMMA IsByte == \A x \in Byte : x \in Nat /\ x <= 255
  BY RangeIs DEF Byte

LEMMA IsWord == \A x \in Word : x \in Nat /\ x <= 65535
<1>1. PICK a \in Int, b \in Int : a = 0 /\ b = 65535
  OBVIOUS
<1>2. Word = a .. b
  BY <1>1 DEF Word
<1>3. \A x \in Word : x \in Int /\ a <= x /\ x <= b
  BY <1>2, RangeIs
<1> QED
  BY <1>1, <1>3

LEMMA IsShort == \A x \in Short : x \in Int /\ x + 32768 >= 0 /\ x <= 32767
<1>1. PICK a \in Int, b \in Int : a = -32768 /\ b = 32767
  OBVIOUS
<1>2. Short = a .. b
  BY <1>1 DEF Short
<1>3. \A x \in Short : x \in Int /\ a <= x /\ x <= b
  BY <1>2, RangeIs
<1> QED
  BY <1>1, <1>3

LEMMA FixedIs ==
    ASSUME NEW g, Writable(g)
    PROVE  Fixed(FixedBytes(g), g)
<1>1. PICK ch \in Nat, ps \in Nat, rate \in Nat, gain \in Int, fam \in Nat :
         /\ ch = g.channels /\ ps = g.preskip /\ rate = g.rate /\ gain = g.gain /\ fam = g.family
         /\ ps <= 65535 /\ rate \div 65536 <= 65535 /\ gain + 32768 >= 0 /\ gain <= 32767
  <2>1. /\ g.channels \in Byte \ {0} /\ g.preskip \in Word /\ g.rate \in Nat
        /\ TwoWords(g.rate) /\ g.gain \in Short /\ g.family \in Byte
    BY WritableIs, Zenon
  <2>2. g.channels \in Nat /\ g.family \in Nat
    BY <2>1, IsByte
  <2>3. g.preskip \in Nat /\ g.preskip <= 65535
    BY <2>1, IsWord
  <2>4. g.gain \in Int /\ g.gain + 32768 >= 0 /\ g.gain <= 32767
    BY <2>1, IsShort
  <2>5. g.rate \in Nat /\ g.rate \div 65536 <= 65535
    <3>1. g.rate \in Nat /\ g.rate \div 65536 \in Word
      BY <2>1 DEF TwoWords
    <3> QED
      BY <3>1, IsWord
  <2> QED
    BY <2>2, <2>3, <2>4, <2>5, SMTT(30)
<1>2. PICK a \in Nat, b \in Nat : Two(U16(ps), a, b) /\ a = ps % 256 /\ b = (ps \div 256) % 256
  BY U16Is
<1>3. a + 256 * b = ps
  BY <1>1, <1>2
<1>4. PICK c1 \in Nat, c2 \in Nat, c3 \in Nat, c4 \in Nat :
         Four(U32(rate), c1, c2, c3, c4) /\ rate = c1 + 256 * (c2 + 256 * (c3 + 256 * c4))
  <2>1. U32Bytes(rate)
    BY <1>1, U32Is
  <2> QED
    BY <2>1 DEF U32Bytes
<1>5. PICK e \in Nat, f \in Nat :
         Two(U16(gain), e, f) /\ e = gain % 256 /\ f = (gain \div 256) % 256
  BY U16Is
<1>6. Signed(e + 256 * f) = gain
  BY <1>1, <1>5, SignedBack
<1>7. PICK q : q = (Magic \o <<1, ch>>) \o U16(ps)
  OBVIOUS
<1>8. Front(q, ch, a, b)
  BY <1>2, <1>7, FrontIs
<1>9. PICK r : r = ((q \o U32(rate)) \o U16(gain)) \o <<fam>>
  OBVIOUS
<1>10. q \in Seq(Nat) /\ Len(q) = 12
  BY <1>8 DEF Front
<1>11. Back(r, q, c1, c2, c3, c4, e, f, fam)
  <2>1. Four(U32(rate), c1, c2, c3, c4)
    BY <1>4
  <2>2. Two(U16(gain), e, f)
    BY <1>5
  <2>3. Back(((q \o U32(rate)) \o U16(gain)) \o <<fam>>, q, c1, c2, c3, c4, e, f, fam)
    BY <1>10, <2>1, <2>2, BackIs
  <2> QED
    BY <1>9, <2>3
<1>12. FixedBytes(g) = r
  BY <1>1, <1>7, <1>9 DEF FixedBytes
<1>13. /\ r \in Seq(Nat) /\ Len(r) = 19 /\ \A i \in Nat : i >= 1 /\ i <= 12 => r[i] = q[i]
  BY <1>11 DEF Back
<1>14. \A i \in Nat : i >= 1 /\ i <= 8 => r[i] = Magic[i]
  <2>1. \A i \in Nat : i >= 1 /\ i <= 8 => q[i] = Magic[i]
    BY <1>8 DEF Front
  <2> QED
    BY <1>13, <2>1
<1>15. r[9] = 1 /\ r[10] = ch /\ r[11] = a /\ r[12] = b
  <2>1. q[9] = 1 /\ q[10] = ch /\ q[11] = a /\ q[12] = b
    BY <1>8 DEF Front
  <2> QED
    BY <1>13, <2>1
<1>16. /\ r[13] = c1 /\ r[14] = c2 /\ r[15] = c3 /\ r[16] = c4 /\ r[17] = e /\ r[18] = f
       /\ r[19] = fam
  BY <1>11 DEF Back
<1>17. r[11] + 256 * r[12] = ps
  BY <1>3, <1>15
<1>18. r[13] + 256 * (r[14] + 256 * (r[15] + 256 * r[16])) = rate
  BY <1>4, <1>16
<1>19. Signed(r[17] + 256 * r[18]) = gain
  BY <1>6, <1>16
<1>20. Fixed(r, g)
  BY <1>1, <1>13, <1>14, <1>15, <1>16, <1>17, <1>18, <1>19 DEF Fixed
<1> QED
  BY <1>12, <1>20

\* What is written after the mapping family.
MapPart(t, g) ==
    /\ t \in Seq(Nat) /\ Len(t) = IF g.family = 0 THEN 0 ELSE 2 + g.channels
    /\ g.family # 0 => /\ t[1] = g.streams /\ t[2] = g.coupled
                       /\ \A c \in Nat : c >= 1 /\ c <= g.channels => t[2 + c] = g.map[c]

TailBytes(g) ==
    IF g.family = 0 THEN <<>> ELSE <<g.streams, g.coupled>> \o SubSeq(g.map, 1, g.channels)

LEMMA TailIs ==
    ASSUME NEW g, Writable(g)
    PROVE  MapPart(TailBytes(g), g)
<1>1. PICK ch \in Nat, s \in Nat, k \in Nat, map \in Seq(Nat) :
         /\ ch = g.channels /\ s = g.streams /\ k = g.coupled /\ map = g.map /\ Len(map) >= ch
  <2>1. /\ g.channels \in Byte \ {0} /\ g.streams \in Byte \ {0} /\ g.coupled \in Byte
        /\ g.map \in Seq(Byte) /\ Len(g.map) >= g.channels
    BY WritableIs, Zenon
  <2>2. g.channels \in Nat /\ g.streams \in Nat /\ g.coupled \in Nat
    BY <2>1, IsByte
  <2>3. g.map \in Seq(Nat)
    BY <2>1, IsByte
  <2> QED
    BY <2>1, <2>2, <2>3
<1>2. CASE g.family = 0
  <2>1. <<>> \in Seq(Nat) /\ Len(<<>>) = 0
    OBVIOUS
  <2>2. TailBytes(g) = <<>>
    BY <1>2, Zenon DEF TailBytes
  <2> QED
    BY <1>2, <2>1, <2>2, Zenon DEF MapPart
<1>3. CASE g.family # 0
  <2>1. Two(<<s, k>>, s, k)
    BY TwoIs
  <2>2. PICK u, v, t : u = <<s, k>> /\ v = SubSeq(map, 1, ch) /\ t = u \o v
    OBVIOUS
  <2>3. u \in Seq(Nat) /\ Len(u) = 2 /\ u[1] = s /\ u[2] = k
    BY <2>1, <2>2, Zenon DEF Two
  <2>4. v \in Seq(Nat) /\ Len(v) = ch /\ \A c \in Nat : c >= 1 /\ c <= ch => v[c] = map[c]
    <3>1. 0 + 1 = 1 /\ 0 + ch = ch
      OBVIOUS
    <3>2. 0 \in Nat /\ 0 + ch <= Len(map)
      BY <1>1
    <3>3. /\ SubSeq(map, 0 + 1, 0 + ch) \in Seq(Nat) /\ Len(SubSeq(map, 0 + 1, 0 + ch)) = ch
          /\ \A i \in 1 .. ch : SubSeq(map, 0 + 1, 0 + ch)[i] = map[0 + i]
      BY <3>2, PartOf
    <3>4. v \in Seq(Nat) /\ Len(v) = ch /\ \A i \in 1 .. ch : v[i] = map[0 + i]
      BY <2>2, <3>1, <3>3, Zenon
    <3> QED
      BY <3>4
  <2>5. Both(t, u, v, 2, ch)
    BY <2>2, <2>3, <2>4, JoinAt, Zenon
  <2>6. t \in Seq(Nat) /\ Len(t) = 2 + ch
    BY <2>5, Zenon DEF Both
  <2>7. t[1] = s /\ t[2] = k
    BY <2>3, <2>5 DEF Both
  <2>8. \A c \in Nat : c >= 1 /\ c <= ch => t[2 + c] = map[c]
    BY <2>4, <2>5 DEF Both
  <2>9. TailBytes(g) = t
    <3>1. TailBytes(g) = <<g.streams, g.coupled>> \o SubSeq(g.map, 1, g.channels)
      BY <1>3, Zenon DEF TailBytes
    <3> QED
      BY <1>1, <2>2, <3>1, Zenon
  <2> QED
    BY <1>1, <1>3, <2>6, <2>7, <2>8, <2>9, Zenon DEF MapPart
<1> QED
  BY <1>2, <1>3

\* opus_header_to_packet writes a header that can be written.
LEMMA WrittenIs ==
    ASSUME NEW g, Writable(g)
    PROVE  Written(HeaderBytes(g), g)
<1>0. PICK f \in Seq(Nat), t \in Seq(Nat), n \in Nat, ch \in Nat :
         f = FixedBytes(g) /\ t = TailBytes(g) /\ n = Len(t) /\ ch = g.channels /\ ch <= 255
  <2>1. FixedBytes(g) \in Seq(Nat)
    BY FixedIs, Zenon DEF Fixed
  <2>2. TailBytes(g) \in Seq(Nat)
    BY TailIs, Zenon DEF MapPart
  <2>3. g.channels \in Byte
    BY WritableIs
  <2>4. g.channels \in Nat /\ g.channels <= 255
    BY <2>3, IsByte
  <2>5. Len(TailBytes(g)) \in Nat
    BY <2>2
  <2> QED
    BY <2>1, <2>2, <2>4, <2>5, Zenon
<1>1. PICK q :
         /\ f = FixedBytes(g) /\ t = TailBytes(g) /\ n = Len(t) /\ ch = g.channels /\ ch <= 255
         /\ q = f \o t
  BY <1>0, Zenon
<1>2. Fixed(f, g) /\ MapPart(t, g)
  BY <1>1, FixedIs, TailIs, Zenon
<1>3. Len(f) = 19
  BY <1>2, Zenon DEF Fixed
<1>4. n = IF g.family = 0 THEN 0 ELSE 2 + ch
  BY <1>1, <1>2, Zenon DEF MapPart
<1>5. Both(q, f, t, 19, n)
  BY <1>1, <1>3, JoinAt, Zenon
<1>6. q \in Seq(Nat) /\ Len(q) = 19 + n /\ \A i \in Nat : i >= 1 /\ i <= 19 => q[i] = f[i]
  BY <1>5, Zenon DEF Both
<1>7. Len(q) = (IF g.family = 0 THEN 19 ELSE 21 + ch) /\ ~ (Len(q) > Room)
  BY <1>1, <1>4, <1>6, SMTT(30) DEF Room
<1>8. HeaderBytes(g) = q
  <2>1. HeaderBytes(g) = IF Len(FixedBytes(g) \o TailBytes(g)) > Room
                         THEN <<>> ELSE FixedBytes(g) \o TailBytes(g)
    BY Zenon DEF HeaderBytes, FixedBytes, TailBytes
  <2>2. HeaderBytes(g) = IF Len(q) > Room THEN <<>> ELSE q
    BY <1>1, <2>1, Zenon
  <2> QED
    BY <1>7, <2>2, Zenon
<1>9. /\ q[9] = f[9] /\ q[10] = f[10] /\ q[11] = f[11] /\ q[12] = f[12] /\ q[13] = f[13]
      /\ q[14] = f[14] /\ q[15] = f[15] /\ q[16] = f[16] /\ q[17] = f[17] /\ q[18] = f[18]
      /\ q[19] = f[19]
  BY <1>6
<1>10. \A i \in Nat : i >= 1 /\ i <= 8 => q[i] = Magic[i]
  <2>1. \A i \in Nat : i >= 1 /\ i <= 8 => f[i] = Magic[i]
    BY <1>2, Zenon DEF Fixed
  <2> QED
    BY <1>6, <2>1
<1>11. /\ q[9] = 1 /\ q[10] = g.channels /\ q[11] + 256 * q[12] = g.preskip
       /\ q[13] + 256 * (q[14] + 256 * (q[15] + 256 * q[16])) = g.rate
       /\ Signed(q[17] + 256 * q[18]) = g.gain /\ q[19] = g.family
  BY <1>2, <1>9, ZenonT(40) DEF Fixed
<1>12. g.family # 0 => /\ q[20] = g.streams /\ q[21] = g.coupled
                       /\ \A c \in Nat : c >= 1 /\ c <= g.channels => q[21 + c] = g.map[c]
  <2>1. SUFFICES ASSUME g.family # 0
                 PROVE  /\ q[20] = g.streams /\ q[21] = g.coupled
                        /\ \A c \in Nat : c >= 1 /\ c <= ch => q[21 + c] = g.map[c]
    BY <1>1, Zenon
  <2>2. n = 2 + ch
    BY <1>4, <2>1, Zenon
  <2>3. /\ t[1] = g.streams /\ t[2] = g.coupled
        /\ \A c \in Nat : c >= 1 /\ c <= ch => t[2 + c] = g.map[c]
    BY <1>1, <1>2, <2>1, Zenon DEF MapPart
  <2>4. \A i \in Nat : i >= 1 /\ i <= n => q[19 + i] = t[i]
    BY <1>5, Zenon DEF Both
  <2>5. q[19 + 1] = t[1] /\ q[19 + 2] = t[2]
    BY <2>2, <2>4
  <2>6. ASSUME NEW c \in Nat, c >= 1, c <= ch PROVE q[21 + c] = t[2 + c]
    <3>1. q[19 + (2 + c)] = t[2 + c]
      BY <2>2, <2>4, <2>6
    <3>2. 19 + (2 + c) = 21 + c
      OBVIOUS
    <3> QED
      BY <3>1, <3>2, Zenon
  <2>7. 19 + 1 = 20 /\ 19 + 2 = 21
    OBVIOUS
  <2> QED
    BY <2>3, <2>5, <2>6, <2>7, Zenon
<1>13. Len(q) = IF g.family = 0 THEN 19 ELSE 21 + g.channels
  BY <1>1, <1>7, Zenon
<1>14. Written(q, g)
  BY <1>6, <1>10, <1>11, <1>12, <1>13, Zenon DEF Written
<1> QED
  BY <1>8, <1>14, Zenon

\* A packet that was written, in numbers.
LEMMA WrittenNumbers ==
    ASSUME NEW g, Writable(g), NEW p, Written(p, g)
    PROVE  /\ p \in Seq(Nat) /\ Len(p) >= 19 /\ Len(p) = IF p[19] = 0 THEN 19 ELSE 21 + p[10]
           /\ p[10] \in Nat /\ p[10] >= 1 /\ p[19] \in Nat
           /\ p[19] = 0 => p[10] <= 2
           /\ p[19] # 0 => /\ Len(p) >= 21 /\ p[20] \in Nat /\ p[21] \in Nat /\ p[20] >= 1
                           /\ p[21] <= p[20] /\ p[20] + p[21] <= 255
                           /\ \A i \in 1 .. p[10] : ~ OutOfRange(p, i)
<1>1. /\ p \in Seq(Nat) /\ Len(p) = IF g.family = 0 THEN 19 ELSE 21 + g.channels
      /\ p[10] = g.channels /\ p[19] = g.family
      /\ g.family # 0 => /\ p[20] = g.streams /\ p[21] = g.coupled
                         /\ \A c \in Nat : c >= 1 /\ c <= g.channels => p[21 + c] = g.map[c]
  BY Zenon DEF Written
<1>2. /\ g.channels \in Byte \ {0} /\ g.family \in Byte /\ g.streams \in Byte \ {0}
      /\ g.coupled \in Byte /\ g.coupled <= g.streams /\ g.streams + g.coupled \in Byte
      /\ \A c \in 1 .. g.channels : g.map[c] <= g.streams + g.coupled \/ g.map[c] = Muted
      /\ g.family = 0 => g.channels <= 2
  BY WritableIs, Zenon
<1>3. /\ g.channels \in Nat /\ g.channels # 0 /\ g.family \in Nat /\ g.streams \in Nat
      /\ g.streams # 0 /\ g.coupled \in Nat /\ g.streams + g.coupled <= 255
  BY <1>2, IsByte
<1>4. Len(p) >= 19
  BY <1>1, <1>3
<1>5. p[19] # 0 => \A i \in 1 .. p[10] : ~ OutOfRange(p, i)
  <2>1. SUFFICES ASSUME g.family # 0, NEW i \in 1 .. g.channels PROVE ~ OutOfRange(p, i)
    BY <1>1, Zenon
  <2>2. i \in Nat /\ i >= 1 /\ i <= g.channels
    BY <1>3
  <2>3. p[21 + i] = g.map[i] /\ p[20] = g.streams /\ p[21] = g.coupled
    BY <1>1, <2>1, <2>2, Zenon
  <2>4. p[21 + i] <= p[20] + p[21] \/ p[21 + i] = Muted
    BY <1>2, <2>3, Zenon
  <2>5. p[20] \in Nat /\ p[21] \in Nat
    BY <1>3, <2>3
  <2>6. p[21 + i] \in Nat
    <3>1. Len(p) = 21 + g.channels
      BY <1>1, <2>1, Zenon
    <3>2. 21 + i \in 1 .. Len(p)
      BY <1>3, <2>2, <3>1
    <3>3. \A j \in 1 .. Len(p) : p[j] \in Nat
      BY <1>1
    <3> QED
      BY <3>2, <3>3, Zenon
  <2> QED
    BY <2>4, <2>5, <2>6 DEF OutOfRange
<1>6. p[19] # 0 => /\ Len(p) >= 21 /\ p[20] \in Nat /\ p[21] \in Nat /\ p[20] >= 1
                   /\ p[21] <= p[20] /\ p[20] + p[21] <= 255
  <2>1. SUFFICES ASSUME g.family # 0
                 PROVE  /\ Len(p) >= 21 /\ p[20] \in Nat /\ p[21] \in Nat /\ p[20] >= 1
                        /\ p[21] <= p[20] /\ p[20] + p[21] <= 255
    BY <1>1, Zenon
  <2>2. p[20] = g.streams /\ p[21] = g.coupled /\ Len(p) = 21 + g.channels
    BY <1>1, <2>1, Zenon
  <2>3. Len(p) >= 21 /\ g.streams >= 1
    BY <1>3, <2>2
  <2> QED
    BY <1>2, <1>3, <2>2, <2>3, Zenon
<1>7. p[10] \in Nat /\ p[10] >= 1 /\ p[19] \in Nat
  BY <1>1, <1>3
<1> QED
  BY <1>1, <1>2, <1>4, <1>5, <1>6, <1>7, Zenon

\* With no entry out of range the whole stream map is set.
LEMMA MappedAll ==
    ASSUME NEW p \in Seq(Nat), p[10] \in Nat, Len(p) = 21 + p[10],
           \A i \in 1 .. p[10] : ~ OutOfRange(p, i)
    PROVE  Mapped(p) = p[10]
<1>1. PICK n \in Nat : n = p[10]
  OBVIOUS
<1>2. Len(p) - 21 = n
  BY <1>1
<1>3. {p[10], Len(p) - 21} = {n}
  BY <1>1, <1>2, Zenon
<1>4. Min({n}) = n
  BY DEF Min
<1>5. {i \in 1 .. n : OutOfRange(p, i)} = {}
  BY <1>1, Zenon
<1>6. {n} \cup {i \in 1 .. n : OutOfRange(p, i)} = {n}
  BY <1>5, Zenon
<1>7. Mapped(p) = Min({n} \cup {i \in 1 .. n : OutOfRange(p, i)})
  BY <1>3, <1>4, Zenon DEF Mapped
<1> QED
  BY <1>1, <1>4, <1>6, <1>7, Zenon

LEMMA MagicFirst ==
    ASSUME NEW p \in Seq(Nat), Len(p) >= 19, \A i \in Nat : i >= 1 /\ i <= 8 => p[i] = Magic[i]
    PROVE  SubSeq(p, 1, 8) = Magic
<1>1. PICK n \in Nat : n = 8
  OBVIOUS
<1>2. 0 + 1 = 1 /\ 0 + n = n
  OBVIOUS
<1>3. /\ SubSeq(p, 0 + 1, 0 + n) \in Seq(Nat) /\ Len(SubSeq(p, 0 + 1, 0 + n)) = n
      /\ \A i \in 1 .. n : SubSeq(p, 0 + 1, 0 + n)[i] = p[0 + i]
  <2>1. 0 \in Nat /\ 0 + n <= Len(p)
    BY <1>1
  <2> QED
    BY <2>1, PartOf
<1>4. PICK s \in Seq(Nat), m \in Seq(Nat) : s = SubSeq(p, 1, n) /\ m = Magic
  BY <1>2, <1>3, MagicIs, Zenon
<1>5. Len(s) = n /\ Len(m) = n /\ \A i \in 1 .. n : s[i] = p[0 + i]
  BY <1>1, <1>2, <1>3, <1>4, MagicIs, Zenon
<1>6. \A i \in 1 .. n : s[i] = m[i]
  <2>1. SUFFICES ASSUME NEW i \in 1 .. n PROVE s[i] = m[i]
    OBVIOUS
  <2>2. i \in Nat /\ i >= 1 /\ i <= 8 /\ 0 + i = i
    BY <1>1
  <2> QED
    BY <1>4, <1>5, <2>2, Zenon
<1> HIDE <1>1, <1>2, <1>3, <1>4
<1>7. s = m
  BY <1>5, <1>6
<1> QED
  BY <1>1, <1>4, <1>7, Zenon

LEMMA WrittenPasses ==
    ASSUME NEW g, Writable(g), NEW p, Written(p, g)
    PROVE  Passed(p) = 7
<1>1. /\ p \in Seq(Nat) /\ Len(p) >= 19 /\ Len(p) = IF p[19] = 0 THEN 19 ELSE 21 + p[10]
      /\ p[10] \in Nat /\ p[10] >= 1 /\ p[19] \in Nat
      /\ p[19] = 0 => p[10] <= 2
      /\ p[19] # 0 => /\ Len(p) >= 21 /\ p[20] \in Nat /\ p[21] \in Nat /\ p[20] >= 1
                      /\ p[21] <= p[20] /\ p[20] + p[21] <= 255
                      /\ \A i \in 1 .. p[10] : ~ OutOfRange(p, i)
  BY WrittenNumbers, Zenon
<1>2. p[9] = 1 /\ \A i \in Nat : i >= 1 /\ i <= 8 => p[i] = Magic[i]
  BY Zenon DEF Written
<1>3. Check(p, 1)
  BY <1>1, <1>2, MagicFirst, SMTT(30) DEF Check
<1>4. Check(p, 2)
  BY <1>2 DEF Check
<1>5. Check(p, 3)
  BY <1>1 DEF Check
<1>6. Check(p, 4)
  BY <1>1 DEF Check
<1>7. Check(p, 5)
  BY <1>1 DEF Check
<1>8. Check(p, 6)
  <2>1. p[19] # 0 => Mapped(p) = p[10]
    BY <1>1, MappedAll, Zenon
  <2> QED
    BY <1>1, <2>1 DEF Check
<1>9. Check(p, 7)
  BY <1>1 DEF Check
<1>10. \A m \in 1 .. 7 : m = 1 \/ m = 2 \/ m = 3 \/ m = 4 \/ m = 5 \/ m = 6 \/ m = 7
  OBVIOUS
<1>11. \A m \in 1 .. 7 : Check(p, m)
  BY <1>3, <1>4, <1>5, <1>6, <1>7, <1>8, <1>9, <1>10, Zenon
<1>12. 7 \in 0 .. 7
  OBVIOUS
<1>13. 7 <= Passed(p) /\ Passed(p) \in Nat /\ Passed(p) <= 7
  BY <1>11, <1>12, PassedIs, Zenon
<1> QED
  BY <1>13

LEMMA SameStart ==
    ASSUME NEW a \in Seq(Nat), NEW b \in Seq(Nat), NEW n \in Nat, n <= Len(a), n <= Len(b),
           \A i \in 1 .. n : a[i] = b[i]
    PROVE  SubSeq(a, 1, n) = SubSeq(b, 1, n)
<1>1. 0 + 1 = 1 /\ 0 + n = n /\ 0 \in Nat /\ 0 + n <= Len(a) /\ 0 + n <= Len(b)
  OBVIOUS
<1>2. /\ SubSeq(a, 0 + 1, 0 + n) \in Seq(Nat) /\ Len(SubSeq(a, 0 + 1, 0 + n)) = n
      /\ \A i \in 1 .. n : SubSeq(a, 0 + 1, 0 + n)[i] = a[0 + i]
  BY <1>1, PartOf
<1>3. /\ SubSeq(b, 0 + 1, 0 + n) \in Seq(Nat) /\ Len(SubSeq(b, 0 + 1, 0 + n)) = n
      /\ \A i \in 1 .. n : SubSeq(b, 0 + 1, 0 + n)[i] = b[0 + i]
  BY <1>1, PartOf
<1>4. PICK s \in Seq(Nat), t \in Seq(Nat) : s = SubSeq(a, 1, n) /\ t = SubSeq(b, 1, n)
  BY <1>1, <1>2, <1>3, Zenon
<1>5. /\ Len(s) = n /\ Len(t) = n
      /\ \A i \in 1 .. n : s[i] = a[0 + i]
      /\ \A i \in 1 .. n : t[i] = b[0 + i]
  BY <1>1, <1>2, <1>3, <1>4, Zenon
<1>6. \A i \in 1 .. n : 0 + i = i
  OBVIOUS
<1>7. \A i \in 1 .. n : s[i] = t[i]
  BY <1>5, <1>6, Zenon
<1> HIDE <1>4
<1>8. s = t
  BY <1>5, <1>7
<1> QED
  BY <1>4, <1>8, Zenon

Kept(r, g) ==
    [r EXCEPT !.map = SubSeq(@, 1, g.channels)]
        = [g EXCEPT !.version = 1, !.map = SubSeq(@, 1, g.channels)]

\* The stream map is read back, whatever was there before.
LEMMA MapBack ==
    ASSUME NEW g, Writable(g), NEW p, Written(p, g), NEW old, HeaderType(old), NEW map,
           map = IF g.family # 0 THEN Overlay(SubSeq(p, 22, 21 + Mapped(p)), old.map)
                                 ELSE Overlay(<<0, 1>>, old.map)
    PROVE  SubSeq(map, 1, g.channels) = SubSeq(g.map, 1, g.channels)
<1>1. PICK ch \in Nat, gm \in Seq(Nat) : /\ ch = g.channels /\ gm = g.map /\ ch <= Len(gm)
  <2>1. g.channels \in Byte /\ g.map \in Seq(Byte) /\ Len(g.map) >= g.channels
    BY WritableIs
  <2>2. g.channels \in Nat /\ g.map \in Seq(Nat)
    BY <2>1, IsByte
  <2> QED
    BY <2>1, <2>2
<1>2. PICK om \in Seq(Nat) : om = old.map
  BY DEF HeaderType
<1>3. CASE g.family # 0
  <2>1. /\ p \in Seq(Nat) /\ Len(p) = 21 + ch /\ p[10] = ch
        /\ \A c \in Nat : c >= 1 /\ c <= ch => p[21 + c] = gm[c]
    BY <1>1, <1>3, Zenon DEF Written
  <2>2. \A i \in 1 .. p[10] : ~ OutOfRange(p, i)
    <3>1. p[19] # 0
      BY <1>3, Zenon DEF Written
    <3> QED
      BY <3>1, WrittenNumbers, Zenon
  <2>3. Mapped(p) = ch
    BY <2>1, <2>2, MappedAll
  <2>4. 21 \in Nat /\ 21 + ch <= Len(p) /\ 21 + 1 = 22
    BY <2>1
  <2>5. /\ SubSeq(p, 21 + 1, 21 + ch) \in Seq(Nat) /\ Len(SubSeq(p, 21 + 1, 21 + ch)) = ch
        /\ \A i \in 1 .. ch : SubSeq(p, 21 + 1, 21 + ch)[i] = p[21 + i]
    BY <2>1, <2>4, PartOf
  <2>6. PICK new \in Seq(Nat) : new = SubSeq(p, 22, 21 + Mapped(p))
    BY <2>3, <2>4, <2>5, Zenon
  <2>7. Len(new) = ch /\ \A i \in 1 .. ch : new[i] = p[21 + i]
    BY <2>3, <2>4, <2>5, <2>6, Zenon
  <2>8. map = Overlay(new, om)
    BY <1>2, <1>3, <2>6, Zenon
  <2>9. /\ Overlay(new, om) \in Seq(Nat) /\ Len(Overlay(new, om)) >= Len(new)
        /\ \A i \in 1 .. Len(new) : Overlay(new, om)[i] = new[i]
    BY OverlayIs
  <2>10. map \in Seq(Nat) /\ Len(map) >= ch /\ \A i \in 1 .. ch : map[i] = new[i]
    BY <2>7, <2>8, <2>9, Zenon
  <2>11. \A i \in 1 .. ch : map[i] = gm[i]
    <3>1. \A i \in 1 .. ch : i \in Nat /\ i >= 1 /\ i <= ch
      OBVIOUS
    <3> QED
      BY <2>1, <2>7, <2>10, <3>1, Zenon
  <2> QED
    BY <1>1, <2>10, <2>11, SameStart
<1>4. CASE ~ (g.family # 0)
  <2>1. ch <= 2 /\ \A c \in 1 .. ch : gm[c] = c - 1
    BY <1>1, <1>4, WritableIs, Zenon
  <2>2. PICK new \in Seq(Nat) : new = <<0, 1>>
    <3>1. <<0, 1>> \in Seq(Nat)
      OBVIOUS
    <3> QED
      BY <3>1, Zenon
  <2>3. Len(new) = 2 /\ new[1] = 0 /\ new[2] = 1
    BY <2>2
  <2>4. map = Overlay(new, om)
    BY <1>2, <1>4, <2>2, Zenon
  <2>5. /\ Overlay(new, om) \in Seq(Nat) /\ Len(Overlay(new, om)) >= Len(new)
        /\ \A i \in 1 .. Len(new) : Overlay(new, om)[i] = new[i]
    BY OverlayIs
  <2>6. map \in Seq(Nat) /\ Len(map) >= 2 /\ \A i \in 1 .. 2 : map[i] = new[i]
    BY <2>3, <2>4, <2>5, Zenon
  <2>7. \A i \in 1 .. ch : map[i] = gm[i]
    <3>1. \A i \in 1 .. ch : i = 1 \/ i = 2
      BY <2>1
    <3>2. map[1] = 0 /\ map[2] = 1
      BY <2>3, <2>6
    <3> QED
      BY <2>1, <3>1, <3>2
  <2>8. ch <= Len(map)
    BY <2>1, <2>6
  <2> QED
    BY <1>1, <2>6, <2>7, <2>8, SameStart
<1> QED
  BY <1>3, <1>4

Fields(v, ch, ps, rate, gain, fam, s, k, m) ==
    [version |-> v, channels |-> ch, preskip |-> ps, rate |-> rate, gain |-> gain,
     family |-> fam, streams |-> s, coupled |-> k, map |-> m]

\* What was written is read back.
LEMMA ReadBack ==
    ASSUME NEW g, Writable(g), NEW p, Written(p, g), NEW old, HeaderType(old)
    PROVE  Kept(Read(old, p), g)
<1>1. Passed(p) = 7
  BY WrittenPasses
<1>2. /\ p[9] = 1 /\ p[10] = g.channels /\ p[11] + 256 * p[12] = g.preskip
      /\ p[13] + 256 * (p[14] + 256 * (p[15] + 256 * p[16])) = g.rate
      /\ Signed(p[17] + 256 * p[18]) = g.gain /\ p[19] = g.family
      /\ g.family # 0 => p[20] = g.streams /\ p[21] = g.coupled
  BY Zenon DEF Written
<1>3. g.family = 0 => g.streams = 1 /\ g.coupled = g.channels - 1
  BY WritableIs, Zenon
<1>4. PICK map : map = IF g.family # 0 THEN Overlay(SubSeq(p, 22, 21 + Mapped(p)), old.map)
                                       ELSE Overlay(<<0, 1>>, old.map)
  OBVIOUS
<1>5. Read(old, p) = [version |-> 1, channels |-> g.channels, preskip |-> g.preskip,
                      rate |-> g.rate, gain |-> g.gain, family |-> g.family,
                      streams |-> g.streams, coupled |-> g.coupled, map |-> map]
  <2>1. 7 # 0 /\ 7 >= 2 /\ 7 >= 3 /\ 7 >= 4 /\ 7 >= 5
    OBVIOUS
  <2>2. PICK n : n = 7
    OBVIOUS
  <2>3. n # 0 /\ n >= 2 /\ n >= 3 /\ n >= 4 /\ n >= 5
    BY <2>1, <2>2
  <2>4. Read(old, p) = ReadFields(old, p, n)
    BY <1>1, <2>2, Zenon DEF Read
  <2>5. ReadFields(old, p, n) =
          [version  |-> p[9],
           channels |-> p[10],
           preskip  |-> p[11] + 256 * p[12],
           rate     |-> p[13] + 256 * (p[14] + 256 * (p[15] + 256 * p[16])),
           gain     |-> Signed(p[17] + 256 * p[18]),
           family   |-> p[19],
           streams  |-> IF p[19] # 0 THEN p[20] ELSE 1,
           coupled  |-> IF p[19] # 0 THEN p[21] ELSE p[10] - 1,
           map      |-> IF p[19] # 0 THEN Overlay(SubSeq(p, 22, 21 + Mapped(p)), old.map)
                        ELSE Overlay(<<0, 1>>, old.map)]
    BY <2>3 DEF ReadFields
  <2>6. (IF p[19] # 0 THEN p[20] ELSE 1) = g.streams
    BY <1>2, <1>3, Zenon
  <2>7. (IF p[19] # 0 THEN p[21] ELSE p[10] - 1) = g.coupled
    BY <1>2, <1>3, Zenon
  <2> QED
    BY <1>2, <1>4, <2>4, <2>5, <2>6, <2>7
<1>6. SubSeq(map, 1, g.channels) = SubSeq(g.map, 1, g.channels)
  BY <1>4, MapBack
<1>7. g = [version |-> g.version, channels |-> g.channels, preskip |-> g.preskip,
           rate |-> g.rate, gain |-> g.gain, family |-> g.family,
           streams |-> g.streams, coupled |-> g.coupled, map |-> g.map]
  <2>1. g \in Headers
    BY Zenon DEF Writable
  <2> QED
    BY <2>1 DEF Headers
<1>8. PICK ch, ps, rate, gain, fam, s, k, gm, v :
         /\ ch = g.channels /\ ps = g.preskip /\ rate = g.rate /\ gain = g.gain
         /\ fam = g.family /\ s = g.streams /\ k = g.coupled /\ gm = g.map /\ v = g.version
  OBVIOUS
<1>9. Read(old, p) = [version |-> 1, channels |-> ch, preskip |-> ps,
                      rate |-> rate, gain |-> gain, family |-> fam,
                      streams |-> s, coupled |-> k, map |-> map]
  BY <1>5, <1>8, Zenon
<1>10. g = [version |-> v, channels |-> ch, preskip |-> ps,
            rate |-> rate, gain |-> gain, family |-> fam,
            streams |-> s, coupled |-> k, map |-> gm]
  BY <1>7, <1>8, Zenon
<1>11. PICK m : m = SubSeq(map, 1, ch) /\ m = SubSeq(gm, 1, ch)
  BY <1>6, <1>8
<1>12. PICK r : r = Read(old, p)
  OBVIOUS
<1>13. r.map = map /\ g.map = gm /\ g.channels = ch
  BY <1>8, <1>9, <1>12
<1>14. [r EXCEPT !.map = m] = [g EXCEPT !.version = 1, !.map = m]
  <2>1. [r EXCEPT !.map = m] = Fields(1, ch, ps, rate, gain, fam, s, k, m)
    BY <1>9, <1>12 DEF Fields
  <2>2. [g EXCEPT !.version = 1] = Fields(1, ch, ps, rate, gain, fam, s, k, gm)
    BY <1>10 DEF Fields
  <2>3. [[g EXCEPT !.version = 1] EXCEPT !.map = m] = Fields(1, ch, ps, rate, gain, fam, s, k, m)
    <3>1. PICK x : x = Fields(1, ch, ps, rate, gain, fam, s, k, gm)
      OBVIOUS
    <3>2. [x EXCEPT !.map = m] = Fields(1, ch, ps, rate, gain, fam, s, k, m)
      BY <3>1 DEF Fields
    <3> QED
      BY <2>2, <3>1, <3>2, Zenon
  <2>4. [g EXCEPT !.version = 1, !.map = m] = [[g EXCEPT !.version = 1] EXCEPT !.map = m]
    OBVIOUS
  <2> QED
    BY <2>1, <2>3, <2>4, Zenon
<1>15. /\ SubSeq(r.map, 1, g.channels) = m /\ SubSeq(g.map, 1, g.channels) = m
  BY <1>11, <1>13, Zenon
<1>16. Kept(r, g)
  BY <1>14, <1>15, Zenon DEF Kept
<1> QED
  BY <1>12, <1>16, Zenon

\* The calls of Repacketizer have nothing to do with streams.
LEMMA ToolCalls ==
    ASSUME Tools
    PROVE  /\ enc' = enc /\ sent' = sent /\ h' = h /\ dec' = dec
           /\ op'.call \notin {"enc_init", "refused", "encode", "header", "decode"}
<1>1. ASSUME NEW data, Cat(data) PROVE op'.call = "cat"
  BY <1>1 DEF Cat
<1>2. ASSUME Reset PROVE op'.call = "none"
  BY <1>2 DEF Reset, NoOp
<1>3. ASSUME NEW begin, NEW end, NEW maxlen, NEW sd, NEW pad, OutRange(begin, end, maxlen, sd, pad)
      PROVE op'.call = "out"
  BY <1>3 DEF OutRange
<1>4. ASSUME NEW data, NEW more, Pad(data, more) PROVE op'.call = "pad"
  BY <1>4 DEF Pad
<1>5. ASSUME NEW data, Unpad(data) PROVE op'.call = "unpad"
  BY <1>5 DEF Unpad
<1>6. ASSUME NEW m, MultiUnpad(m) PROVE op'.call = "multi_unpad"
  BY <1>6 DEF MultiUnpad
<1>7. ASSUME NEW m, NEW more, MultiPad(m, more) PROVE op'.call = "multi_pad"
  BY <1>7, MultiPadCall
<1>8. ASSUME NEW data, NEW sd, ParseBytes(data, sd) PROVE op'.call = "parse"
  BY <1>8 DEF ParseBytes
<1>9. op'.call \in {"cat", "none", "out", "pad", "unpad", "multi_unpad", "multi_pad", "parse"}
  BY <1>1, <1>2, <1>3, <1>4, <1>5, <1>6, <1>7, <1>8 DEF Tools, Next
<1>10. enc' = enc /\ sent' = sent /\ h' = h /\ dec' = dec
  BY DEF Tools, msVars
<1> QED
  BY <1>9, <1>10

\* A header that was read: out of which packet, into which record.
HeaderRead(o, r) ==
    \E old : HeaderType(old) /\ r = Read(old, o.data) /\ (o.ok = (Passed(o.data) = 7))

HeaderInv ==
    /\ HeaderType(h)
    /\ enc # None => Writable(enc.header)
    /\ op.call = "header" => HeaderRead(op, h)

LEMMA HeaderWritten == \A g : Writable(g) => HeaderBytes(g) \in Seq(Nat)
  BY WrittenIs DEF Written

LEMMA HeaderStep ==
    ASSUME HeaderInv, NEW p \in Seq(Nat), Header(p)
    PROVE  HeaderInv'
<1>1. /\ h' = Read(h, p) /\ enc' = enc
      /\ op' = [call |-> "header", data |-> p, ok |-> Passed(p) = 7]
  BY DEF Header
<1>2. op'.data = p /\ (op'.ok = (Passed(p) = 7))
  BY <1>1
<1>3. PICK old : old = h
  OBVIOUS
<1>4. HeaderType(old) /\ h' = Read(old, p)
  BY <1>1, <1>3, Zenon DEF HeaderInv
<1>5. PICK new : new = Read(old, p)
  OBVIOUS
<1>6. HeaderType(new)
  BY <1>4, <1>5, ReadType
<1>7. HeaderType(h)'
  BY <1>4, <1>5, <1>6, Zenon DEF HeaderType
<1>8. HeaderRead(op, h)'
  BY <1>2, <1>4, Zenon DEF HeaderRead
<1> QED
  BY <1>1, <1>7, <1>8, Zenon DEF HeaderInv, Writable

LEMMA HeaderUnread ==
    ASSUME HeaderInv, h' = h, enc' = enc, op'.call # "header" \/ op' = op
    PROVE  HeaderInv'
<1>1. HeaderType(h)' = HeaderType(h) /\ HeaderRead(op, h) = HeaderRead(op, h)
  BY Zenon DEF HeaderType
<1>2. op' = op => HeaderRead(op, h)' = HeaderRead(op, h)
  BY Zenon DEF HeaderRead
<1>3. Writable(enc.header)' = Writable(enc.header)
  BY Zenon DEF Writable
<1> QED
  BY <1>1, <1>2, <1>3, Zenon DEF HeaderInv

LEMMA InitHeader ==
    ASSUME HeaderInv, NEW setup \in Setups, EncInit(setup)
    PROVE  HeaderInv'
<1> DEFINE l == SurroundLayout(setup.channels, Family(setup.channels))
<1>1. h' = h /\ op'.call = "enc_init"
  BY DEF EncInit
<1>2. CASE Accepted(setup, l)
  <2>1. enc' = [streams |-> l.streams, layout |-> l, setup |-> setup,
                header |-> HeaderOf(setup, l), budget |-> Budget(setup, l)]
    BY <1>2 DEF EncInit
  <2>2. PICK g : g = HeaderOf(setup, l) /\ Writable(g)
    BY <1>2, SetupWritable
  <2>3. enc'.header = g
    BY <2>1, <2>2
  <2>4. Writable(enc.header)'
    BY <2>2, <2>3, Zenon DEF Writable
  <2>5. HeaderType(h)'
    BY <1>1, Zenon DEF HeaderInv, HeaderType
  <2> QED
    BY <1>1, <2>4, <2>5 DEF HeaderInv
<1>3. CASE ~ Accepted(setup, l)
  <2>1. enc' = None
    BY <1>3 DEF EncInit
  <2>2. HeaderType(h)'
    BY <1>1, Zenon DEF HeaderInv, HeaderType
  <2> QED
    BY <1>1, <2>1, <2>2 DEF HeaderInv
<1> QED
  BY <1>2, <1>3

LEMMA HeaderStreams ==
    ASSUME HeaderInv, Encoder \/ OwnDecoder \/ ForeignDecoder
    PROVE  HeaderInv'
<1>1. ASSUME NEW setup \in Setups, EncInit(setup) PROVE HeaderInv'
  BY <1>1, InitHeader
<1>2. ASSUME EncodeRefused PROVE HeaderInv'
  <2>1. h' = h /\ enc' = enc /\ op'.call = "refused"
    BY <1>2 DEF EncodeRefused, msVars
  <2> QED
    BY <2>1, HeaderUnread
<1>3. ASSUME NEW p, EncodeStream(p) PROVE HeaderInv'
  <2>1. h' = h /\ enc' = enc /\ op'.call = "encode"
    BY <1>3, Zenon DEF EncodeStream
  <2> QED
    BY <2>1, HeaderUnread
<1>4. ASSUME NEW data, Decode(data) PROVE HeaderInv'
  <2>1. h' = h /\ enc' = enc /\ op'.call = "decode"
    BY <1>4 DEF Decode, msVars
  <2> QED
    BY <2>1, HeaderUnread
<1>5. ASSUME enc # None, Header(HeaderBytes(enc.header)) PROVE HeaderInv'
  <2>1. Writable(enc.header)
    BY <1>5 DEF HeaderInv
  <2>2. PICK p \in Seq(Nat) : p = HeaderBytes(enc.header)
    BY <2>1, HeaderWritten
  <2>3. Header(p)
    BY <1>5, <2>2
  <2> QED
    BY <2>3, HeaderStep
<1>6. ASSUME NEW p \in ForeignHeaders, Header(p) PROVE HeaderInv'
  <2>1. p \in Seq(Nat)
    BY StreamAssumption, BytesAreNumbers
  <2> QED
    BY <1>6, <2>1, HeaderStep
<1>7. ASSUME NEW g \in AnyHeaders, Header(HeaderBytes(g)) PROVE HeaderInv'
  <2>1. Writable(g)
    BY StreamAssumption
  <2>2. PICK p \in Seq(Nat) : p = HeaderBytes(g)
    BY <2>1, HeaderWritten
  <2>3. Header(p)
    BY <1>7, <2>2
  <2> QED
    BY <2>3, HeaderStep
<1>8. CASE Encoder
  BY <1>1, <1>2, <1>3, <1>8 DEF Encoder
<1>9. CASE OwnDecoder
  BY <1>4, <1>5, <1>9 DEF OwnDecoder, EncoderDone
<1>10. CASE ForeignDecoder
  BY <1>4, <1>6, <1>7, <1>10 DEF ForeignDecoder
<1> QED
  BY <1>8, <1>9, <1>10

LEMMA HeaderFollows == ASSUME HeaderInv PROVE HeaderKept
<1>1. ASSUME op.call = "header",
             NEW g \in AnyHeaders \cup IF enc = None THEN {} ELSE {enc.header},
             op.data = HeaderBytes(g)
      PROVE  op.ok /\ Kept(h, g)
  <2>1. Writable(g)
    BY StreamAssumption DEF HeaderInv
  <2>2. PICK old : HeaderType(old) /\ h = Read(old, op.data) /\ (op.ok = (Passed(op.data) = 7))
    BY <1>1 DEF HeaderInv, HeaderRead
  <2>3. PICK p : p = op.data
    OBVIOUS
  <2>4. Written(p, g)
    BY <1>1, <2>1, <2>3, WrittenIs
  <2>5. Passed(p) = 7
    BY <2>1, <2>4, WrittenPasses
  <2>6. Kept(Read(old, p), g)
    BY <2>1, <2>2, <2>4, ReadBack
  <2>7. op.ok
    BY <2>2, <2>3, <2>5, Zenon
  <2> QED
    BY <2>2, <2>3, <2>6, <2>7, Zenon
<1> QED
  BY <1>1, Zenon DEF HeaderKept, Kept

\* Every header that can be written, 255 channels and negative gains included,
\* is read back as it was, into a record that any headers may have been parsed
\* into before; so is the one of every encoder that could be set up.
THEOREM HeaderIsReadBack == MSSpec => []HeaderKept
<1>1. MSInit => HeaderInv
  <2>1. SUFFICES ASSUME MSInit PROVE HeaderInv
    OBVIOUS
  <2>2. enc = None /\ h = NewHeader /\ op.call = "none"
    BY <2>1 DEF MSInit, Init, NoOp
  <2>3. HeaderType(NewHeader)
    <3>1. <<>> \in Seq(Nat)
      OBVIOUS
    <3> QED
      BY <3>1 DEF HeaderType, NewHeader
  <2> QED
    BY <2>2, <2>3 DEF HeaderInv
<1>2. HeaderInv /\ [MSNext]_allVars => HeaderInv'
  <2>1. ASSUME HeaderInv, UNCHANGED allVars PROVE HeaderInv'
    <3>1. h' = h /\ enc' = enc /\ op' = op
      BY <2>1 DEF allVars, vars, msVars
    <3> QED
      BY <2>1, <3>1, HeaderUnread
  <2>2. ASSUME HeaderInv, Tools PROVE HeaderInv'
    <3>1. h' = h /\ enc' = enc /\ op'.call # "header"
      BY <2>2, ToolCalls
    <3> QED
      BY <2>2, <3>1, HeaderUnread
  <2> QED
    BY <2>1, <2>2, HeaderStreams DEF MSNext
<1>3. HeaderInv => HeaderKept
  BY HeaderFollows
<1> QED
  BY <1>1, <1>2, <1>3, PTL DEF MSSpec

-----------------------------------------------------------------------------
(* What the encoder sends                                                  *)

\* The recursion of Flat.
IsFlat(f, frames, n) ==
    f = [i \in 0 .. n |-> IF i = 0 THEN <<>> ELSE f[i - 1] \o frames[i]]

LEMMA FlatIs ==
    ASSUME NEW frames, NEW n \in Nat, n = Len(frames)
    PROVE  \E f : IsFlat(f, frames, n) /\ Flat(frames) = f[n]
<1> DEFINE P == {m \in 0 .. n : \E f : IsFlat(f, frames, m)}
<1>1. 0 \in P
  <2> DEFINE f == [i \in 0 .. 0 |-> <<>>]
  <2>1. IsFlat(f, frames, 0)
    BY DEF IsFlat
  <2> QED
    BY <2>1
<1>2. ASSUME NEW m \in 0 .. n - 1, m \in P PROVE m + 1 \in P
  <2>1. PICK f : IsFlat(f, frames, m)
    BY <1>2
  <2> DEFINE g == [i \in 0 .. m + 1 |-> IF i <= m THEN f[i] ELSE f[m] \o frames[i]]
  <2>2. IsFlat(g, frames, m + 1)
    <3>1. ASSUME NEW i \in 0 .. m + 1
          PROVE  g[i] = IF i = 0 THEN <<>> ELSE g[i - 1] \o frames[i]
      <4>1. CASE i = 0
        BY <2>1, <4>1 DEF IsFlat
      <4>2. CASE i \in 1 .. m
        <5>1. i \in 0 .. m /\ i # 0 /\ i <= m /\ i - 1 \in 0 .. m + 1 /\ i - 1 <= m
          BY <4>2
        <5>2. f[i] = f[i - 1] \o frames[i]
          BY <2>1, <5>1 DEF IsFlat
        <5>3. g[i] = f[i] /\ g[i - 1] = f[i - 1]
          BY <5>1
        <5> QED
          BY <5>1, <5>2, <5>3, Zenon
      <4>3. CASE i = m + 1
        BY <4>3
      <4> QED
        BY <4>1, <4>2, <4>3
    <3>2. g = [i \in 0 .. m + 1 |-> g[i]]
      OBVIOUS
    <3> HIDE DEF g
    <3>3. g = [i \in 0 .. m + 1 |-> IF i = 0 THEN <<>> ELSE g[i - 1] \o frames[i]]
      BY <3>1, <3>2
    <3> QED
      BY <3>3 DEF IsFlat
  <2> QED
    BY <2>2
<1> HIDE DEF P
<1>3. n \in P
  BY <1>1, <1>2, InductionTo
<1>4. IsFlat(CHOOSE f : IsFlat(f, frames, n), frames, n)
  BY <1>3 DEF P
<1>5. Flat(frames) = (CHOOSE f : IsFlat(f, frames, n))[n]
  BY DEF Flat, IsFlat
<1> QED
  BY <1>4, <1>5

\* All frames one behind the other are as long as their lengths add up to.
LEMMA FlatFits ==
    ASSUME NEW frames \in Seq(Seq(Nat)), NEW n \in Nat, n = Len(frames), NEW size,
           \A i \in 1 .. n : size[i] \in Nat /\ Len(frames[i]) = size[i]
    PROVE  Flat(frames) \in Seq(Nat) /\ Len(Flat(frames)) = Total(size, n)
<1>1. PICK f : IsFlat(f, frames, n) /\ Flat(frames) = f[n]
  BY FlatIs
<1>2. /\ Total(size, 0) = 0 /\ \A i \in 0 .. n : Total(size, i) \in Int
      /\ \A i \in 0 .. n - 1 : Total(size, i + 1) = Total(size, i) + size[i + 1]
  <2>1. \A i \in 1 .. n : size[i] \in Int
    OBVIOUS
  <2> QED
    BY <2>1, TotalStep
<1> DEFINE P == {i \in 0 .. n : f[i] \in Seq(Nat) /\ Len(f[i]) = Total(size, i)}
<1>3. 0 \in P
  <2>1. f[0] = <<>>
    BY <1>1 DEF IsFlat
  <2>2. <<>> \in Seq(Nat) /\ Len(<<>>) = 0
    OBVIOUS
  <2>3. f[0] \in Seq(Nat) /\ Len(f[0]) = Total(size, 0)
    BY <1>2, <2>1, <2>2, Zenon
  <2> QED
    BY <2>3
<1>4. ASSUME NEW i \in 0 .. n - 1, i \in P PROVE i + 1 \in P
  <2>1. PICK k \in 1 .. n : k = i + 1 /\ k - 1 = i
    OBVIOUS
  <2>2. f[k] = f[k - 1] \o frames[k]
    <3>1. k \in 0 .. n /\ k # 0
      OBVIOUS
    <3>2. f = [j \in 0 .. n |-> IF j = 0 THEN <<>> ELSE f[j - 1] \o frames[j]]
      BY <1>1 DEF IsFlat
    <3> QED
      BY <3>1, <3>2, Zenon
  <2>3. PICK e \in Seq(Nat) : e = frames[k]
    OBVIOUS
  <2>4. PICK g \in Seq(Nat) : g = f[i] /\ Len(g) = Total(size, i)
    BY <1>4
  <2>5. g \o e \in Seq(Nat) /\ Len(g \o e) = Len(g) + Len(e)
    BY Joined
  <2>6. Len(e) = size[k]
    BY <2>3
  <2>7. Total(size, k) = Total(size, i) + size[k]
    BY <1>2, <2>1
  <2>8. f[k] \in Seq(Nat) /\ Len(f[k]) = Total(size, k)
    BY <2>1, <2>2, <2>3, <2>4, <2>5, <2>6, <2>7, Zenon
  <2>9. k \in 0 .. n
    BY <2>1
  <2>10. k \in P
    BY <2>8, <2>9
  <2> QED
    BY <2>1, <2>10, Zenon
<1> HIDE DEF P
<1>5. n \in P
  <2>1. \A i \in 0 .. n : i \in P
    BY <1>3, <1>4, InductionTo
  <2> QED
    BY <2>1
<1> QED
  BY <1>1, <1>5 DEF P

\* The zeros behind what is written.
LEMMA Lengthened ==
    ASSUME NEW data \in Seq(Nat), NEW out \in Seq(Nat), NEW n \in Nat, Len(out) <= n
    PROVE  /\ data \o out \o [i \in 1 .. n - Len(out) |-> 0] \in Seq(Nat)
           /\ Len(data \o out \o [i \in 1 .. n - Len(out) |-> 0]) = Len(data) + n
<1>1. PICK a \in Nat, b \in Nat, k \in Nat : a = Len(data) /\ b = Len(out) /\ k = n - b
  OBVIOUS
<1>2. [i \in 1 .. k |-> 0] \in Seq(Nat) /\ Len([i \in 1 .. k |-> 0]) = k
  OBVIOUS
<1>3. PICK zeros \in Seq(Nat) : zeros = [i \in 1 .. n - Len(out) |-> 0] /\ Len(zeros) = k
  BY <1>1, <1>2
<1>4. data \o out \in Seq(Nat) /\ Len(data \o out) = a + b
  BY <1>1, Joined
<1>5. (data \o out) \o zeros \in Seq(Nat) /\ Len((data \o out) \o zeros) = (a + b) + k
  BY <1>3, <1>4, Joined, Zenon
<1>6. (a + b) + k = a + n
  BY <1>1
<1> QED
  BY <1>1, <1>3, <1>5, <1>6, Zenon

\* w bytes are written behind data for the packet that was packed as q.
Appended(data, q, out, w) ==
    /\ q.ret = w /\ w > 0
    /\ data \o out \o [i \in 1 .. q.ret - Len(out) |-> 0] \in Seq(Nat)
    /\ Len(data \o out \o [i \in 1 .. q.ret - Len(out) |-> 0]) = Len(data) + w

\* What a packet that can be submitted consists of.
Frames(p, pp, size, n, sum, flat) ==
    /\ ParseFor(p, FALSE, pp) /\ size = pp.size /\ Adds(size, n, sum)
    /\ flat = Flat(FramesOf(p, pp)) /\ Len(flat) = sum

LEMMA SubmittedIs ==
    ASSUME NEW p \in Seq(Nat), CanCat(NewRp, p, FALSE)
    PROVE  \E size, flat \in Seq(Nat), n, sum \in Nat :
              n >= 1 /\ Frames(p, Parse(p, FALSE), size, n, sum, flat)
<1>1. PICK pp : pp = Parse(p, FALSE)
  OBVIOUS
<1>2. ParseFor(p, FALSE, pp)
  <2>1. pp.ret >= 1
    BY <1>1 DEF CanCat
  <2>2. ParseFor(p, FALSE, pp) \/ pp = Invalid
    BY <1>1, ParseFits
  <2>3. pp # Invalid
    BY <2>1 DEF Invalid, INVALID_PACKET
  <2> QED
    BY <2>2, <2>3
<1>3. PICK size \in Seq(Nat), n \in Nat : size = pp.size /\ n = pp.ret /\ n >= 1 /\ Len(size) = n
  BY <1>2 DEF ParseFor
<1>4. \A i \in 1 .. n : size[i] \in Nat
  BY <1>3
<1>5. SumSeq(size) = Total(size, n)
  BY <1>3, SumSeqIs
<1>6. PICK sum \in Nat : sum = Total(size, n)
  <2>1. n \in 0 .. n
    OBVIOUS
  <2> QED
    BY <1>4, <2>1, TotalGrows
<1>7. PICK frames \in Seq(Seq(Nat)) : frames = FramesOf(p, pp) /\ Len(frames) = n
                                      /\ \A i \in 1 .. n : Len(frames[i]) = size[i]
  BY <1>2, <1>3, FramesFit, ZenonT(40)
<1>8. Flat(frames) \in Seq(Nat) /\ Len(Flat(frames)) = sum
  <2>1. \A i \in 1 .. n : size[i] \in Nat /\ Len(frames[i]) = size[i]
    BY <1>4, <1>7
  <2>2. n = Len(frames)
    BY <1>7
  <2>3. Flat(frames) \in Seq(Nat) /\ Len(Flat(frames)) = Total(size, n)
    BY <2>1, <2>2, FlatFits
  <2> QED
    BY <1>6, <2>3
<1>9. PICK flat \in Seq(Nat) : flat = Flat(frames) /\ Len(flat) = sum
  BY <1>8
<1>10. Adds(size, n, sum)
  BY <1>3, <1>5, <1>6, Zenon DEF Adds
<1>11. Frames(p, pp, size, n, sum, flat)
  BY <1>2, <1>3, <1>7, <1>9, <1>10, Zenon DEF Frames
<1> QED
  BY <1>1, <1>3, <1>11, Zenon

\* The room a packet takes is what it is padded to, or the least it needs.
LEMMA StreamWritten ==
    ASSUME NEW p \in Seq(Nat), CanCat(NewRp, p, FALSE), NEW data \in Seq(Nat),
           NEW sd \in BOOLEAN, NEW room \in Int, NEW pad \in BOOLEAN,
           NEW q, q = Packed(p[1], Parse(p, FALSE).size, sd, room, pad),
           NEW out, out = q.head \o Flat(FramesOf(p, Parse(p, FALSE))),
           NEW short, short = Shortest(Parse(p, FALSE).size, sd)
    PROVE  /\ short \in Nat
           /\ short > room => q.ret = BUFFER_TOO_SMALL
           /\ short <= room => Appended(data, q, out, IF pad THEN room ELSE short)
<1>1. PICK size \in Seq(Nat), flat \in Seq(Nat), n \in Nat, sum \in Nat :
         n >= 1 /\ Frames(p, Parse(p, FALSE), size, n, sum, flat)
  BY SubmittedIs
<1>2. /\ size = Parse(p, FALSE).size /\ Adds(size, n, sum)
      /\ flat = Flat(FramesOf(p, Parse(p, FALSE))) /\ Len(flat) = sum
  BY <1>1, Zenon DEF Frames
<1>3. PICK toc \in Nat : toc = p[1]
  <2>1. p # <<>>
    BY DEF CanCat
  <2> QED
    BY <2>1
<1>4. q = Packed(toc, size, sd, room, pad) /\ short = Shortest(size, sd) /\ out = q.head \o flat
  BY <1>2, <1>3, Zenon
<1>5. /\ short \in Nat
      /\ short > room => q.ret = BUFFER_TOO_SMALL
      /\ short <= room => Shape(q, sum, room, pad, short)
  <2>1. Adds(size, n, sum) /\ n >= 1
    BY <1>1, <1>2
  <2>2. PackedAs(Packed(toc, size, sd, room, pad), sum, room, pad, Shortest(size, sd))
    BY <2>1, PackedIs
  <2> QED
    BY <1>4, <2>2, Zenon DEF PackedAs
<1>6. ASSUME short <= room PROVE Appended(data, q, out, IF pad THEN room ELSE short)
  <2>1. Shape(q, sum, room, pad, short)
    BY <1>5, <1>6
  <2>2. PICK head \in Seq(Nat), w \in Nat, gap \in Nat :
           /\ head = q.head /\ w = q.ret /\ w = IF pad THEN room ELSE short
           /\ w > 0 /\ w = Len(head) + sum + gap
    BY <2>1 DEF Shape
  <2>3. PICK o \in Seq(Nat) : o = out /\ Len(o) = Len(head) + Len(flat)
    BY <1>4, <2>2, Joined
  <2>4. Len(o) <= w
    <3>1. PICK a \in Nat : a = Len(head)
      OBVIOUS
    <3>2. w = a + sum + gap /\ Len(o) = a + sum
      BY <1>2, <2>2, <2>3, <3>1, Zenon
    <3> QED
      BY <3>2
  <2>5. /\ data \o o \o [i \in 1 .. w - Len(o) |-> 0] \in Seq(Nat)
        /\ Len(data \o o \o [i \in 1 .. w - Len(o) |-> 0]) = Len(data) + w
    BY <2>4, Lengthened
  <2> QED
    BY <2>2, <2>3, <2>5, Zenon DEF Appended
<1> QED
  BY <1>5, <1>6

-----------------------------------------------------------------------------
(* The decoder                                                             *)

\* A decoder that was made.
DecType(l) ==
    /\ l.streams \in Nat /\ l.streams >= 1 /\ l.coupled \in Nat /\ l.coupled <= l.streams
    /\ l.streams + l.coupled <= 255
    /\ l.mapping \in Seq(Nat)
    /\ \A c \in DOMAIN l.mapping : l.mapping[c] < l.streams + l.coupled \/ l.mapping[c] = Muted

LEMMA CreatedIs ==
    ASSUME NEW g, HeaderType(g), Created(g) # None
    PROVE  DecType(Created(g))
<1> DEFINE l == [streams |-> g.streams, coupled |-> g.coupled,
                 mapping |-> [c \in 1 .. g.channels |->
                                 IF c <= Len(g.map) THEN g.map[c] ELSE 0]]
<1>1. Created(g) = l /\ ValidCounts(l) /\ ValidLayout(l)
  BY DEF Created
<1>2. g.channels \in Nat /\ g.streams \in Nat /\ g.coupled \in Int /\ g.map \in Seq(Nat)
  BY DEF HeaderType
<1>3. l.mapping \in Seq(Nat)
  <2>1. PICK n \in Nat, m \in Seq(Nat) : n = g.channels /\ m = g.map
    BY <1>2
  <2>2. \A c \in 1 .. n : (IF c <= Len(m) THEN m[c] ELSE 0) \in Nat
    OBVIOUS
  <2>3. [c \in 1 .. n |-> IF c <= Len(m) THEN m[c] ELSE 0] \in Seq(Nat)
    BY <2>2
  <2> QED
    BY <2>1, <2>3
<1>4. l.streams = g.streams /\ l.coupled = g.coupled
  OBVIOUS
<1> HIDE DEF l
<1>5. /\ l.streams >= 1 /\ l.coupled \in 0 .. l.streams /\ l.streams + l.coupled <= 255
      /\ \A c \in DOMAIN l.mapping : l.mapping[c] < l.streams + l.coupled \/ l.mapping[c] = Muted
  BY <1>1 DEF ValidCounts, ValidLayout
<1>6. DecType(l)
  BY <1>2, <1>3, <1>4, <1>5 DEF DecType
<1> QED
  BY <1>1, <1>6

Copy(c, s, d) == [chan |-> c, stream |-> s, side |-> d]

\* Which copies there are.
LEMMA CopiesAre ==
    ASSUME NEW l, DecType(l), NEW w
    PROVE  w \in Copies(l) <=>
              \E c \in DOMAIN l.mapping :
                 \/ \E s \in 0 .. l.streams - 1 :
                       \/ s < l.coupled /\ l.mapping[c] = 2 * s /\ w = Copy(c, s + 1, 1)
                       \/ s < l.coupled /\ l.mapping[c] = 2 * s + 1 /\ w = Copy(c, s + 1, 2)
                       \/ ~ (s < l.coupled) /\ l.mapping[c] = s + l.coupled /\ w = Copy(c, s + 1, 1)
                 \/ l.mapping[c] = Muted /\ w = Copy(c, 0, 1)
<1> DEFINE Of(s) == IF s < l.coupled
                    THEN [chan : Left(l, s), stream : {s + 1}, side : {1}]
                         \cup [chan : Right(l, s), stream : {s + 1}, side : {2}]
                    ELSE [chan : Mono(l, s), stream : {s + 1}, side : {1}]
<1>1. w \in Copies(l) <=> \/ \E s \in 0 .. l.streams - 1 : w \in Of(s)
                          \/ w \in [chan : ChannelsOf(l, Muted), stream : {0}, side : {1}]
  <2>1. PICK R : R = [chan : ChannelsOf(l, Muted), stream : {0}, side : {1}]
    OBVIOUS
  <2>2. PICK M : M = {Of(s) : s \in 0 .. l.streams - 1}
    OBVIOUS
  <2>3. Copies(l) = (UNION M) \cup R
    BY <2>1, <2>2 DEF Copies
  <2>4. w \in UNION M <=> \E X \in M : w \in X
    OBVIOUS
  <2>5. (\E X \in M : w \in X) <=> \E s \in 0 .. l.streams - 1 : w \in Of(s)
    <3> HIDE DEF Of
    <3> QED
      BY <2>2, Zenon
  <2>6. w \in Copies(l) <=> w \in UNION M \/ w \in R
    BY <2>3, Zenon
  <2> HIDE DEF Of
  <2> QED
    BY <2>1, <2>4, <2>5, <2>6, Zenon
<1>2. \A S, a, b : w \in [chan : S, stream : {a}, side : {b}] <=> \E c \in S : w = Copy(c, a, b)
  BY DEF Copy
<1>3. ASSUME NEW s \in 0 .. l.streams - 1
      PROVE  w \in Of(s) <=>
                \E c \in DOMAIN l.mapping :
                    \/ s < l.coupled /\ l.mapping[c] = 2 * s /\ w = Copy(c, s + 1, 1)
                    \/ s < l.coupled /\ l.mapping[c] = 2 * s + 1 /\ w = Copy(c, s + 1, 2)
                    \/ ~ (s < l.coupled) /\ l.mapping[c] = s + l.coupled /\ w = Copy(c, s + 1, 1)
  <2>1. w \in Of(s) <=>
           \/ s < l.coupled /\ \E c \in Left(l, s) : w = Copy(c, s + 1, 1)
           \/ s < l.coupled /\ \E c \in Right(l, s) : w = Copy(c, s + 1, 2)
           \/ ~ (s < l.coupled) /\ \E c \in Mono(l, s) : w = Copy(c, s + 1, 1)
    BY <1>2
  <2> QED
    BY <2>1, Zenon DEF Left, Right, Mono, ChannelsOf
<1>4. w \in [chan : ChannelsOf(l, Muted), stream : {0}, side : {1}] <=>
         \E c \in DOMAIN l.mapping : l.mapping[c] = Muted /\ w = Copy(c, 0, 1)
  <2>1. w \in [chan : ChannelsOf(l, Muted), stream : {0}, side : {1}] <=>
           \E c \in ChannelsOf(l, Muted) : w = Copy(c, 0, 1)
    BY <1>2
  <2> QED
    BY <2>1, Zenon DEF ChannelsOf
<1> HIDE DEF Of
<1> QED
  BY <1>1, <1>3, <1>4, Zenon

\* One copy to each channel.
LEMMA OneCopy ==
    ASSUME NEW l, DecType(l), NEW c \in DOMAIN l.mapping
    PROVE  \E x : {w \in Copies(l) : w.chan = c} = {x}
<1>1. PICK n \in Nat, k \in Nat, m \in Nat :
         /\ n = l.streams /\ k = l.coupled /\ m = l.mapping[c] /\ k <= n /\ n + k <= 255
         /\ m < n + k \/ m = 255
  <2>1. l.mapping[c] \in Nat
    BY DEF DecType
  <2> QED
    BY <2>1 DEF DecType, Muted
<1>2. \A a, s, d : Copy(a, s, d).chan = a
  BY DEF Copy
<1>3. ASSUME NEW w
      PROVE  w \in Copies(l) /\ w.chan = c <=>
                \/ \E s \in 0 .. n - 1 :
                      \/ s < k /\ m = 2 * s /\ w = Copy(c, s + 1, 1)
                      \/ s < k /\ m = 2 * s + 1 /\ w = Copy(c, s + 1, 2)
                      \/ ~ (s < k) /\ m = s + k /\ w = Copy(c, s + 1, 1)
                \/ m = Muted /\ w = Copy(c, 0, 1)
  <2>1. w \in Copies(l) <=>
           \E a \in DOMAIN l.mapping :
              \/ \E s \in 0 .. n - 1 :
                    \/ s < k /\ l.mapping[a] = 2 * s /\ w = Copy(a, s + 1, 1)
                    \/ s < k /\ l.mapping[a] = 2 * s + 1 /\ w = Copy(a, s + 1, 2)
                    \/ ~ (s < k) /\ l.mapping[a] = s + k /\ w = Copy(a, s + 1, 1)
              \/ l.mapping[a] = Muted /\ w = Copy(a, 0, 1)
    BY <1>1, CopiesAre
  <2>2. ASSUME w \in Copies(l), w.chan = c
        PROVE  \/ \E s \in 0 .. n - 1 :
                     \/ s < k /\ m = 2 * s /\ w = Copy(c, s + 1, 1)
                     \/ s < k /\ m = 2 * s + 1 /\ w = Copy(c, s + 1, 2)
                     \/ ~ (s < k) /\ m = s + k /\ w = Copy(c, s + 1, 1)
               \/ m = Muted /\ w = Copy(c, 0, 1)
    <3>1. PICK a \in DOMAIN l.mapping :
              \/ \E s \in 0 .. n - 1 :
                    \/ s < k /\ l.mapping[a] = 2 * s /\ w = Copy(a, s + 1, 1)
                    \/ s < k /\ l.mapping[a] = 2 * s + 1 /\ w = Copy(a, s + 1, 2)
                    \/ ~ (s < k) /\ l.mapping[a] = s + k /\ w = Copy(a, s + 1, 1)
              \/ l.mapping[a] = Muted /\ w = Copy(a, 0, 1)
      BY <2>1, <2>2, Zenon
    <3>2. w.chan = a
      <4>1. \E b, d : w = Copy(a, b, d)
        BY <3>1, Zenon
      <4> QED
        BY <1>2, <4>1, Zenon
    <3>3. a = c /\ l.mapping[a] = m
      BY <1>1, <2>2, <3>2, Zenon
    <3> QED
      BY <3>1, <3>3, Zenon
  <2>3. ASSUME \/ \E s \in 0 .. n - 1 :
                     \/ s < k /\ m = 2 * s /\ w = Copy(c, s + 1, 1)
                     \/ s < k /\ m = 2 * s + 1 /\ w = Copy(c, s + 1, 2)
                     \/ ~ (s < k) /\ m = s + k /\ w = Copy(c, s + 1, 1)
               \/ m = Muted /\ w = Copy(c, 0, 1)
        PROVE  w \in Copies(l) /\ w.chan = c
    <3>1. w.chan = c
      <4>1. \E b, d : w = Copy(c, b, d)
        BY <2>3, Zenon
      <4> QED
        BY <1>2, <4>1, Zenon
    <3>2. w \in Copies(l)
      <4>1. \/ \E s \in 0 .. n - 1 :
                  \/ s < k /\ l.mapping[c] = 2 * s /\ w = Copy(c, s + 1, 1)
                  \/ s < k /\ l.mapping[c] = 2 * s + 1 /\ w = Copy(c, s + 1, 2)
                  \/ ~ (s < k) /\ l.mapping[c] = s + k /\ w = Copy(c, s + 1, 1)
            \/ l.mapping[c] = Muted /\ w = Copy(c, 0, 1)
        <5>1. PICK e : e = l.mapping[c]
          OBVIOUS
        <5>2. m = e
          BY <1>1, <5>1
        <5> QED
          BY <2>3, <5>1, <5>2, Zenon
      <4> QED
        BY <2>1, <4>1, Zenon
    <3> QED
      BY <3>1, <3>2
  <2> QED
    BY <2>2, <2>3, Zenon
<1>4. CASE m = 255
  <2>1. ~ \E s \in 0 .. n - 1 :
             (s < k /\ m = 2 * s) \/ (s < k /\ m = 2 * s + 1) \/ (~ (s < k) /\ m = s + k)
    BY <1>1, <1>4
  <2>2. m = Muted
    BY <1>4 DEF Muted
  <2>3. \A w : w \in Copies(l) /\ w.chan = c <=> w = Copy(c, 0, 1)
    BY <1>3, <2>1, <2>2, Zenon
  <2>4. {w \in Copies(l) : w.chan = c} = {Copy(c, 0, 1)}
    BY <2>3, Zenon
  <2> QED
    BY <2>4, Zenon
<1>5. CASE m # 255 /\ m >= 2 * k
  <2>1. PICK t \in 0 .. n - 1 : m = t + k /\ ~ (t < k)
    <3>1. m - k \in 0 .. n - 1 /\ m = (m - k) + k /\ ~ (m - k < k)
      BY <1>1, <1>5
    <3> QED
      BY <3>1, Zenon
  <2>2. \A s \in 0 .. n - 1 : /\ ~ (s < k /\ m = 2 * s) /\ ~ (s < k /\ m = 2 * s + 1)
                              /\ m = s + k => s = t
    BY <1>1, <1>5, <2>1
  <2>3. m # Muted
    BY <1>5 DEF Muted
  <2>4. \A w : w \in Copies(l) /\ w.chan = c <=> w = Copy(c, t + 1, 1)
    BY <1>3, <2>1, <2>2, <2>3, Zenon
  <2>5. {w \in Copies(l) : w.chan = c} = {Copy(c, t + 1, 1)}
    BY <2>4, Zenon
  <2> QED
    BY <2>5, Zenon
<1>6. CASE m # 255 /\ ~ (m >= 2 * k)
  <2>1. PICK t \in 0 .. n - 1 : t < k /\ (m = 2 * t \/ m = 2 * t + 1)
    <3>1. m \div 2 \in 0 .. n - 1 /\ m \div 2 < k /\ (m = 2 * (m \div 2) \/ m = 2 * (m \div 2) + 1)
      BY <1>1, <1>6
    <3> QED
      BY <3>1, Zenon
  <2>2. m # Muted
    BY <1>6 DEF Muted
  <2>3. CASE m = 2 * t
    <3>1. \A s \in 0 .. n - 1 : /\ m = 2 * s => s = t
                                /\ ~ (s < k /\ m = 2 * s + 1) /\ ~ (~ (s < k) /\ m = s + k)
      BY <1>1, <1>6, <2>3
    <3>2. \A w : w \in Copies(l) /\ w.chan = c <=> w = Copy(c, t + 1, 1)
      BY <1>3, <2>1, <2>2, <2>3, <3>1, Zenon
    <3>3. {w \in Copies(l) : w.chan = c} = {Copy(c, t + 1, 1)}
      BY <3>2, Zenon
    <3> QED
      BY <3>3, Zenon
  <2>4. CASE m = 2 * t + 1
    <3>1. \A s \in 0 .. n - 1 : /\ m = 2 * s + 1 => s = t
                                /\ ~ (s < k /\ m = 2 * s) /\ ~ (~ (s < k) /\ m = s + k)
      BY <1>1, <1>6, <2>4
    <3>2. \A w : w \in Copies(l) /\ w.chan = c <=> w = Copy(c, t + 1, 2)
      BY <1>3, <2>1, <2>2, <2>4, <3>1, Zenon
    <3>3. {w \in Copies(l) : w.chan = c} = {Copy(c, t + 1, 2)}
      BY <3>2, Zenon
    <3> QED
      BY <3>3, Zenon
  <2> QED
    BY <2>1, <2>3, <2>4
<1> QED
  BY <1>4, <1>5, <1>6

LEMMA OnceIs ==
    ASSUME NEW l, DecType(l), NEW c \in DOMAIN l.mapping
    PROVE  Cardinality({w \in Copies(l) : w.chan = c}) = 1
<1>1. PICK x : {w \in Copies(l) : w.chan = c} = {x}
  BY OneCopy
<1> QED
  BY <1>1, FS_Singleton

-----------------------------------------------------------------------------
(* The encoder                                                             *)

LayoutOf(setup) == SurroundLayout(setup.channels, Family(setup.channels))

EncOf(setup, l) ==
    [streams |-> l.streams, layout |-> l, setup |-> setup,
     header |-> HeaderOf(setup, l), budget |-> Budget(setup, l)]

\* An encoder was set up and accepted.
IsEncoder(e) ==
    \E setup \in Setups : Accepted(setup, LayoutOf(setup)) /\ e = EncOf(setup, LayoutOf(setup))

LEMMA AtLeastOne == \A x, f \in Nat : f >= 1 /\ x >= f => x \div f \in Nat /\ x \div f >= 1
<1> SUFFICES ASSUME NEW x \in Nat, NEW f \in Nat, f >= 1, x >= f
             PROVE  x \div f \in Nat /\ x \div f >= 1
  OBVIOUS
<1>1. PICK q \in Int, r \in Int : q = x \div f /\ r = x % f /\ r < f
  OBVIOUS
<1>2. PICK w \in Int : w = f * q
  OBVIOUS
<1>3. x = w + r
  BY <1>1, <1>2
<1>4. w > 0
  BY <1>1, <1>3
<1>5. CASE q <= 0
  <2>1. f * q <= 0
    BY <1>5
  <2> QED
    BY <1>2, <1>4, <2>1
<1>6. CASE q >= 1
  BY <1>1, <1>6
<1> QED
  BY <1>5, <1>6

LEMMA QuotientIs == \A x, k \in Nat : k >= 1 => x \div k \in Nat
  OBVIOUS

LEMMA LayoutOfIs ==
    ASSUME NEW setup \in Setups, Accepted(setup, LayoutOf(setup))
    PROVE  LayoutFor(LayoutOf(setup), setup.channels)
<1>1. PICK n \in Nat : n = setup.channels /\ n >= 1
  BY SetupAssumption DEF Accepted
<1> QED
  BY <1>1, LayoutIs DEF LayoutOf

\* Frames of a length that is allowed are not empty, and not longer than a second.
LEMMA FrameSizeIs ==
    ASSUME NEW setup \in Setups, Accepted(setup, LayoutOf(setup)), FrameAllowed(setup)
    PROVE  /\ FrameSize48(setup) \in Nat /\ FrameSize48(setup) >= 1
           /\ setup.rate \in Nat /\ FrameSize48(setup) <= 24 * setup.rate
<1>1. PICK r \in Nat : r = setup.rate /\ r >= 8000 /\ r <= 48000
  <2>1. setup.rate \in {8000, 12000, 16000, 24000, 48000}
    BY DEF Accepted
  <2> QED
    BY <2>1
<1>2. PICK ms \in Nat : ms = setup.ms /\ ms >= 5 /\ ms <= 120
  <2>1. setup.ms \in {5, 10, 20, 40, 60, 80, 100, 120}
    BY DEF FrameAllowed
  <2> QED
    BY <2>1
<1>3. PICK w \in Nat : w = ms * r
  OBVIOUS
<1>4. w >= 5 * r /\ w <= 120 * r
  BY <1>2, <1>3
<1>5. w \div 1000 \in Nat /\ w \div 1000 >= 1 /\ w \div 1000 <= 24 * r
  BY <1>1, <1>4
<1>6. FrameSize48(setup) = w \div 1000
  BY <1>1, <1>2, <1>3 DEF FrameSize48
<1> QED
  BY <1>1, <1>5, <1>6

\* The budget is what the smallest packet needs at least.
LEMMA BudgetIs ==
    ASSUME NEW setup \in Setups, Accepted(setup, LayoutOf(setup)), FrameAllowed(setup)
    PROVE  /\ Budget(setup, LayoutOf(setup)) \in Nat
           /\ Smallest(setup, LayoutOf(setup)) \in Nat
           /\ Smallest(setup, LayoutOf(setup)) <= Budget(setup, LayoutOf(setup))
<1>1. PICK l : l = LayoutOf(setup)
  OBVIOUS
<1>2. PICK s \in Nat : s = l.streams /\ s >= 1
  BY <1>1, LayoutOfIs DEF LayoutFor
<1>3. PICK m \in Nat : m = Smallest(setup, l) /\ m <= 3 * s
  BY <1>2 DEF Smallest
<1>4. PICK o \in Nat : o = OFrameBytes(l) /\ m <= o
  <2>1. PICK M \in Nat : M = MaxFrame
    BY PacketAssumption, EscIs
  <2>2. PICK w \in Nat : w = M * 3 + 7
    OBVIOUS
  <2>3. w * s \in Nat /\ w * s >= 3 * s
    BY <2>2
  <2>4. OFrameBytes(l) = w * s
    BY <1>2, <2>1, <2>2 DEF OFrameBytes
  <2> QED
    BY <1>3, <2>3, <2>4
<1>5. CASE setup.cbr = FALSE
  <2>1. Budget(setup, l) = o
    BY <1>4, <1>5, SMT DEF Budget
  <2> QED
    BY <1>1, <1>3, <1>4, <2>1
<1>6. CASE setup.cbr = TRUE
  <2>1. PICK b \in Nat, ch \in Nat : b = BitRate(setup, l) /\ ch = setup.channels
    <3>1. setup.channels \in Nat
      BY SetupAssumption
    <3>2. BitRate(setup, l) \in 500 .. 1024000 * setup.channels
      BY <1>1 DEF Accepted
    <3>3. BitRate(setup, l) \in Nat
      BY <3>1, <3>2
    <3> QED
      BY <3>1, <3>3
  <2>2. PICK low \in Nat, top \in Nat : low = 500 * ch /\ top = 256000 * ch
    OBVIOUS
  <2>10. PICK rate \in Nat : rate = Max({low, Min({top, b})})
    <3>1. {top, b} \in SUBSET Nat /\ {top, b} # {}
      OBVIOUS
    <3>2. PICK x \in Nat : x = Min({top, b})
      BY <3>1, MinIs
    <3>3. {low, x} \in SUBSET Nat /\ {low, x} # {} /\ low + x \in Nat
          /\ \A z \in {low, x} : z <= low + x
      OBVIOUS
    <3>4. Max({low, x}) \in Nat
      BY <3>3, MaxIs
    <3> QED
      BY <3>2, <3>4
  <2>3. PICK f \in Nat, r \in Nat : f = FrameSize48(setup) /\ f >= 1 /\ r = setup.rate /\ f <= 24 * r
    BY FrameSizeIs
  <2>4. PICK k \in Nat : k = (24 * r) \div f /\ k >= 1
    <3>1. PICK y \in Nat : y = 24 * r
      OBVIOUS
    <3>2. y \div f \in Nat /\ y \div f >= 1
      BY <2>3, <3>1, AtLeastOne
    <3> QED
      BY <3>1, <3>2
  <2>5. PICK x \in Nat : x = BytesOfRate(setup, l)
    <3>1. PICK y \in Nat : y = 3 * rate
      OBVIOUS
    <3>2. y \div k \in Nat
      BY <2>4, <3>1, QuotientIs
    <3>3. low = 500 * setup.channels /\ top = 256000 * setup.channels
      BY <2>1, <2>2
    <3>4. rate = Max({500 * setup.channels, Min({256000 * setup.channels, BitRate(setup, l)})})
      BY <2>1, <2>10, <3>3
    <3>5. BytesOfRate(setup, l) = (3 * rate) \div ((24 * setup.rate) \div FrameSize48(setup))
      BY <3>4, SMT DEF BytesOfRate
    <3>6. BytesOfRate(setup, l) = y \div k
      BY <2>3, <2>4, <3>1, <3>5
    <3> QED
      BY <3>2, <3>6
  <2>6. Budget(setup, l) = Min({o, Max({m, x})})
    BY <1>3, <1>4, <1>6, <2>5, Zenon DEF Budget
  <2>7. PICK y \in Nat : y = Max({m, x}) /\ m <= y
    <3>1. {m, x} \in SUBSET Nat /\ {m, x} # {} /\ m + x \in Nat /\ (\A z \in {m, x} : z <= m + x)
          /\ m \in {m, x}
      OBVIOUS
    <3>2. Max({m, x}) \in {m, x} /\ \A z \in {m, x} : z <= Max({m, x})
      BY <3>1, MaxIs
    <3> QED
      BY <3>1, <3>2
  <2>8. PICK z \in Nat : z = Min({o, y}) /\ m <= z
    <3>1. {o, y} \in SUBSET Nat /\ {o, y} # {}
      OBVIOUS
    <3>2. Min({o, y}) \in {o, y}
      BY <3>1, MinIs
    <3> QED
      BY <1>4, <2>7, <3>2
  <2>9. Budget(setup, l) = z
    BY <2>6, <2>7, <2>8, Zenon
  <2> QED
    BY <1>1, <1>3, <2>8, <2>9
<1>7. setup.cbr \in BOOLEAN
  BY SetupAssumption
<1> QED
  BY <1>5, <1>6, <1>7

\* What the loop has written so far.
SentType(x) == x.data \in Seq(Nat) /\ x.frames \in Seq(Seq(Seq(Nat)))

\* What writing a packet behind data comes to: it stays as it was, or the packet is
\* there whole and takes w bytes.
Sends(data, new, ret, short, room, w) ==
    /\ short > room => ret < 0 /\ new = data
    /\ short <= room => ret > 0 /\ ret >= 0 /\ new \in Seq(Nat) /\ Len(new) = Len(data) + w

Behind(data, q, out) ==
    IF q.ret < 0 THEN data ELSE data \o out \o [i \in 1 .. q.ret - Len(out) |-> 0]

LEMMA SignOf == BUFFER_TOO_SMALL < 0 /\ \A r \in Int : r > 0 => ~ (r < 0)
  BY DEF BUFFER_TOO_SMALL

PackedFor(p, sd, room, pad) == Packed(p[1], Parse(p, FALSE).size, sd, room, pad)
OutFor(p, q) == q.head \o Flat(FramesOf(p, Parse(p, FALSE)))
StreamGoes(p, data, sd, room, pad, q) ==
    \E short \in Nat :
        /\ short = Shortest(Parse(p, FALSE).size, sd)
        /\ Sends(data, Behind(data, q, OutFor(p, q)), q.ret, short, room, IF pad THEN room ELSE short)

LEMMA StreamSent ==
    ASSUME NEW p \in Seq(Nat), CanCat(NewRp, p, FALSE), NEW data \in Seq(Nat),
           NEW sd \in BOOLEAN, NEW room \in Int, NEW pad \in BOOLEAN
    PROVE  StreamGoes(p, data, sd, room, pad, PackedFor(p, sd, room, pad))
<1>10. PICK q : q = PackedFor(p, sd, room, pad)
  OBVIOUS
<1>11. PICK out : out = OutFor(p, q)
  OBVIOUS
<1>12. q = Packed(p[1], Parse(p, FALSE).size, sd, room, pad)
  BY <1>10, Zenon DEF PackedFor
<1>13. out = q.head \o Flat(FramesOf(p, Parse(p, FALSE)))
  BY <1>11, Zenon DEF OutFor
<1>1. PICK short : short = Shortest(Parse(p, FALSE).size, sd)
  OBVIOUS
<1>2. /\ short \in Nat
      /\ short > room => q.ret = BUFFER_TOO_SMALL
      /\ short <= room => Appended(data, q, out, IF pad THEN room ELSE short)
  BY <1>1, <1>12, <1>13, StreamWritten, ZenonT(40)
<1>3. PICK w \in Int : w = IF pad THEN room ELSE short
  BY <1>2
<1>4. PICK new : new = Behind(data, q, out)
  OBVIOUS
<1>5. CASE short > room
  <2>1. q.ret < 0
    BY <1>2, <1>5, SignOf, Zenon
  <2>2. new = data
    BY <1>4, <2>1, Zenon DEF Behind
  <2>3. ~ (short <= room)
    BY <1>2, <1>5
  <2>4. Sends(data, new, q.ret, short, room, w)
    BY <2>1, <2>2, <2>3, Zenon DEF Sends
  <2> QED
    BY <1>1, <1>2, <1>3, <1>4, <1>10, <1>11, <2>4, Zenon DEF StreamGoes
<1>6. CASE short <= room
  <2>1. Appended(data, q, out, w)
    BY <1>2, <1>3, <1>6, Zenon
  <2>2. PICK r \in Int : r = q.ret /\ r > 0 /\ r >= 0
    BY <1>3, <2>1 DEF Appended
  <2>3. new = data \o out \o [i \in 1 .. q.ret - Len(out) |-> 0]
    <3>1. ~ (q.ret < 0)
      BY <2>2, SignOf, Zenon
    <3> QED
      BY <1>4, <3>1, Zenon DEF Behind
  <2>4. new \in Seq(Nat) /\ Len(new) = Len(data) + w
    BY <2>1, <2>3, Zenon DEF Appended
  <2>7. ~ (short > room)
    BY <1>2, <1>6
  <2>5. q.ret > 0 /\ q.ret >= 0 /\ ~ (short > room)
    BY <2>2, <2>7, Zenon
  <2>6. Sends(data, new, q.ret, short, room, w)
    BY <2>4, <2>5, Zenon DEF Sends
  <2> QED
    BY <1>1, <1>2, <1>3, <1>4, <1>10, <1>11, <2>6, Zenon DEF StreamGoes
<1>7. short > room \/ short <= room
  BY <1>2
<1> QED
  BY <1>5, <1>6, <1>7, Zenon

\* What the encoder and the loop over its streams are at.
At(setup, l, n, s, data) ==
    /\ setup = enc.setup /\ setup \in Setups /\ Accepted(setup, l) /\ FrameAllowed(setup)
    /\ l = LayoutOf(setup)
    /\ n = enc.streams /\ n = l.streams /\ n >= 1
    /\ s = Len(sent.frames) /\ s < n /\ data = sent.data

LEMMA StreamAt ==
    ASSUME SentType(sent), enc # None => IsEncoder(enc), NEW p, EncodeStream(p)
    PROVE  \E l : \E setup \in Setups, n \in Nat, s \in Nat, data \in Seq(Nat) :
              /\ At(setup, l, n, s, data)
              /\ enc.budget = Budget(setup, l)
              /\ p \in Seq(Nat) /\ CanCat(NewRp, p, FALSE)
<1>1. enc # None /\ FrameAllowed(enc.setup) /\ p \in Coded[Len(sent.frames)]
      /\ Len(sent.frames) < enc.streams /\ CanCat(NewRp, p, FALSE)
  BY Zenon DEF EncodeStream
<1>2. PICK setup \in Setups : Accepted(setup, LayoutOf(setup)) /\ enc = EncOf(setup, LayoutOf(setup))
  BY <1>1 DEF IsEncoder
<1>3. PICK l : l = LayoutOf(setup) /\ Accepted(setup, l) /\ enc = EncOf(setup, l)
  BY <1>2
<1>4. enc.setup = setup /\ enc.streams = l.streams /\ enc.budget = Budget(setup, l)
  BY <1>3 DEF EncOf
<1>5. PICK n \in Nat : n = l.streams /\ n >= 1
  BY <1>3, LayoutOfIs DEF LayoutFor
<1>6. PICK s \in Nat : s = Len(sent.frames)
  BY DEF SentType
<1>7. PICK data \in Seq(Nat) : data = sent.data
  BY DEF SentType
<1>8. s \in 0 .. n - 1
  BY <1>1, <1>4, <1>5, <1>6
<1>9. 0 .. n - 1 \subseteq DOMAIN Coded /\ \A t \in DOMAIN Coded : Coded[t] \subseteq Seq(Nat)
  <2>1. 0 .. l.streams - 1 \subseteq DOMAIN Coded
    BY <1>3, CodedAssumption DEF LayoutOf
  <2> QED
    BY <1>5, <2>1, CodedAssumption
<1>10. p \in Seq(Nat)
  BY <1>1, <1>6, <1>8, <1>9
<1>11. At(setup, l, n, s, data)
  BY <1>1, <1>3, <1>4, <1>5, <1>6, <1>7, Zenon DEF At
<1> QED
  BY <1>1, <1>4, <1>10, <1>11, Zenon

LeftOver(room, data) == room = enc.budget - Len(data)
Delimits(sd, s, n) == sd = (s # n - 1)
StreamSends(p, setup, data, s, sd, room) ==
    /\ \E short \in Nat :
          /\ short = Shortest(Parse(p, FALSE).size, sd)
          /\ Sends(data, sent'.data, op'.ret, short, room,
                   IF setup.cbr /\ ~ sd THEN room ELSE short)
    /\ sent'.frames \in Seq(Seq(Seq(Nat))) /\ Len(sent'.frames) = s + 1

\* A step of the loop.
LEMMA EncodeIs ==
    ASSUME NEW p \in Seq(Nat), EncodeStream(p), NEW setup, NEW l, NEW n \in Nat, NEW s \in Nat,
           NEW data \in Seq(Nat), At(setup, l, n, s, data), setup.cbr \in BOOLEAN,
           NEW room \in Int, LeftOver(room, data), NEW sd \in BOOLEAN, Delimits(sd, s, n),
           SentType(sent)
    PROVE  StreamSends(p, setup, data, s, sd, room)
<1> DEFINE q == Packed(p[1], Parse(p, FALSE).size, sd, room, setup.cbr /\ ~ sd)
           out == q.head \o Flat(FramesOf(p, Parse(p, FALSE)))
           fr == FramesOf(p, Parse(p, FALSE))
<1>0. CanCat(NewRp, p, FALSE)
  BY Zenon DEF EncodeStream
<1>1. /\ sent' = [data   |-> IF q.ret < 0 THEN data
                             ELSE data \o out \o [i \in 1 .. q.ret - Len(out) |-> 0],
                  frames |-> Append(sent.frames, fr),
                  taken  |-> Append(sent.taken, Taken(enc.layout, s))]
      /\ op' = [call |-> "encode", ret |-> q.ret]
  BY Zenon DEF EncodeStream, At, LeftOver, Delimits
<1>2. PICK pad \in BOOLEAN : pad = (setup.cbr /\ ~ sd)
  OBVIOUS
<1>3. PICK fs : fs = fr /\ fs \in Seq(Seq(Nat))
  <2>1. PICK size \in Seq(Nat), flat \in Seq(Nat), k \in Nat, sum \in Nat :
           Frames(p, Parse(p, FALSE), size, k, sum, flat)
    BY <1>0, SubmittedIs
  <2>2. ParseFor(p, FALSE, Parse(p, FALSE))
    BY <2>1 DEF Frames
  <2>3. fr \in Seq(Seq(Nat))
    BY <2>2, FramesFit
  <2> QED
    BY <2>3
<1> HIDE DEF q, out, fr
<1>4. sent'.data = Behind(data, q, out)
      /\ sent'.frames = Append(sent.frames, fs) /\ op'.ret = q.ret
  BY <1>1, <1>3 DEF Behind
<1>5. PICK short \in Nat :
         /\ short = Shortest(Parse(p, FALSE).size, sd)
         /\ Sends(data, Behind(data, q, out),
                  q.ret, short, room, IF pad THEN room ELSE short)
  <2>1. q = PackedFor(p, sd, room, pad)
    BY <1>2, Zenon DEF q, PackedFor
  <2>2. out = OutFor(p, q)
    BY Zenon DEF out, OutFor
  <2>3. StreamGoes(p, data, sd, room, pad, PackedFor(p, sd, room, pad))
    BY <1>0, StreamSent
  <2> QED
    BY <2>1, <2>2, <2>3, Zenon DEF StreamGoes
<1>6. Sends(data, sent'.data, op'.ret, short, room, IF setup.cbr /\ ~ sd THEN room ELSE short)
  BY <1>2, <1>4, <1>5, Zenon
<1>7. sent.frames \in Seq(Seq(Seq(Nat))) /\ Len(sent.frames) = s
  BY DEF SentType, At
<1>8. Append(sent.frames, fs) \in Seq(Seq(Seq(Nat))) /\ Len(Append(sent.frames, fs)) = s + 1
  BY <1>3, <1>7
<1> QED
  BY <1>4, <1>5, <1>6, <1>8, ZenonT(40) DEF StreamSends

EachOnce(copies, mapping) ==
    \A c \in DOMAIN mapping : Cardinality({w \in copies : w.chan = c}) = 1

LEMMA Negative == INVALID_PACKET < 0 /\ BUFFER_TOO_SMALL < 0 /\ \A r \in Int : r < 0 => ~ (r > 0)
  BY DEF INVALID_PACKET, BUFFER_TOO_SMALL

\* What is decoded is handed to the channels of the layout.
LEMMA DecodeIs ==
    ASSUME NEW l, DecType(l), NEW data \in Seq(Nat),
           Decoded(l, data, StreamsOf(data, l.streams)).ret > 0
    PROVE  Decoded(l, data, StreamsOf(data, l.streams)).copies = Copies(l)
<1>1. PICK parts : parts = StreamsOf(data, l.streams)
  OBVIOUS
<1>2. PICK r : r = Decoded(l, data, parts) /\ r.ret > 0
  BY <1>1
<1>3. PICK ret \in Int : ret = Validated(parts, l.streams)
  <2>1. PICK n \in Nat : n = l.streams /\ n >= 1
    BY DEF DecType
  <2>2. Validated(StreamsOf(data, n), n) \in Int
    BY <2>1, ValidatedIsInt
  <2> QED
    BY <1>1, <2>1, <2>2
<1>4. PICK frames :
         r = IF data = <<>> THEN Concealed(l)
             ELSE IF Len(data) < 2 * l.streams - 1 THEN [ret |-> INVALID_PACKET]
             ELSE IF ret < 0 THEN [ret |-> ret]
             ELSE IF ret > FrameRoom THEN [ret |-> BUFFER_TOO_SMALL]
             ELSE [ret |-> ret, copies |-> Copies(l), frames |-> frames]
  BY <1>2, <1>3, Zenon DEF Decoded
<1>5. \A x : r = [ret |-> x] => r.ret = x
  OBVIOUS
<1>6. \A x, y : r = [ret |-> x, copies |-> Copies(l), frames |-> y] => r.copies = Copies(l)
  OBVIOUS
<1>7. r # [ret |-> INVALID_PACKET] /\ r # [ret |-> BUFFER_TOO_SMALL] /\ r # [ret |-> BAD_ARG]
  <2>1. ~ (INVALID_PACKET > 0) /\ ~ (BUFFER_TOO_SMALL > 0) /\ ~ (BAD_ARG > 0)
    BY DEF INVALID_PACKET, BUFFER_TOO_SMALL, BAD_ARG
  <2> QED
    BY <1>2, <1>5, <2>1, Zenon
<1>8. ret < 0 => r # [ret |-> ret]
  <2>1. ret < 0 => ~ (ret > 0)
    BY <1>3
  <2> QED
    BY <1>2, <1>5, <2>1, Zenon
<1>10. \/ Concealed(l) = [ret |-> FrameRoom, copies |-> Copies(l), frames |-> <<>>]
       \/ Concealed(l) = [ret |-> BAD_ARG]
  BY Zenon DEF Concealed
<1>9. r.copies = Copies(l)
  BY <1>4, <1>6, <1>7, <1>8, <1>10, Zenon
<1> QED
  BY <1>1, <1>2, <1>9, Zenon

DecodedInv == op.call = "decode" /\ op.r.ret > 0 => EachOnce(op.r.copies, dec.mapping)

EncoderInv == SentType(sent) /\ (enc # None => IsEncoder(enc))

DecoderInv == (dec # None => DecType(dec)) /\ DecodedInv

StreamInv == HeaderInv /\ EncoderInv /\ DecoderInv

LEMMA EncoderSame ==
    ASSUME EncoderInv, sent' = sent, enc' = enc
    PROVE  EncoderInv'
BY Zenon DEF EncoderInv, SentType, IsEncoder

LEMMA DecoderSame ==
    ASSUME DecoderInv, dec' = dec, op' = op \/ op'.call # "decode"
    PROVE  DecoderInv'
<1>1. DecType(dec)' = DecType(dec)
  BY Zenon DEF DecType
<1>2. op' = op => DecodedInv' = DecodedInv
  BY Zenon DEF DecodedInv, EachOnce
<1>3. DecodedInv'
  BY <1>2, Zenon DEF DecodedInv, DecoderInv
<1> QED
  BY <1>1, <1>3, Zenon DEF DecoderInv

LEMMA SentStep ==
    ASSUME EncoderInv, NEW p, EncodeStream(p)
    PROVE  EncoderInv'
<1>1. SentType(sent) /\ (enc # None => IsEncoder(enc))
  BY DEF EncoderInv
<1>2. PICK l : \E setup \in Setups, n \in Nat, s \in Nat, data \in Seq(Nat) :
         At(setup, l, n, s, data) /\ enc.budget = Budget(setup, l) /\ p \in Seq(Nat)
  BY <1>1, StreamAt
<1>3. PICK setup \in Setups, n \in Nat, s \in Nat, data \in Seq(Nat) :
         At(setup, l, n, s, data) /\ enc.budget = Budget(setup, l) /\ p \in Seq(Nat)
  BY <1>2
<1>4. PICK room \in Int : LeftOver(room, data)
  <2>1. PICK b \in Nat, k \in Nat : b = enc.budget /\ k = Len(data)
    BY <1>3, BudgetIs DEF At
  <2>2. b - k \in Int /\ b - k = enc.budget - Len(data)
    BY <2>1
  <2> QED
    BY <2>2 DEF LeftOver
<1>5. PICK sd \in BOOLEAN : Delimits(sd, s, n)
  BY DEF Delimits
<1>6. setup.cbr \in BOOLEAN
  BY <1>3, SetupAssumption
<1>7. StreamSends(p, setup, data, s, sd, room)
  BY <1>1, <1>3, <1>4, <1>5, <1>6, EncodeIs
<1>8. PICK short \in Nat :
         Sends(data, sent'.data, op'.ret, short, room, IF setup.cbr /\ ~ sd THEN room ELSE short)
  BY <1>7, Zenon DEF StreamSends
<1>9. sent'.data \in Seq(Nat)
  <2>1. short > room \/ short <= room
    BY <1>8
  <2> QED
    BY <1>8, <2>1, Zenon DEF Sends
<1>10. SentType(sent)'
  BY <1>7, <1>9 DEF SentType, StreamSends
<1>11. enc' = enc
  BY Zenon DEF EncodeStream
<1>12. (enc # None => IsEncoder(enc))'
  BY <1>1, <1>11, Zenon DEF IsEncoder
<1> QED
  BY <1>10, <1>12 DEF EncoderInv

LEMMA InitEncoder ==
    ASSUME EncoderInv, NEW setup \in Setups, EncInit(setup)
    PROVE  EncoderInv'
<1>1. sent' = sent /\ SentType(sent)
  BY DEF EncInit, EncoderInv
<1>2. SentType(sent)'
  BY <1>1, Zenon DEF SentType
<1>3. PICK l : l = LayoutOf(setup)
  OBVIOUS
<1>4. enc' = IF Accepted(setup, l) THEN EncOf(setup, l) ELSE None
  BY <1>3, Zenon DEF EncInit, LayoutOf, EncOf
<1>5. CASE Accepted(setup, l)
  <2>1. enc' = EncOf(setup, LayoutOf(setup)) /\ Accepted(setup, LayoutOf(setup))
    BY <1>3, <1>4, <1>5, Zenon
  <2>2. IsEncoder(enc)'
    BY <2>1, Zenon DEF IsEncoder
  <2> QED
    BY <1>2, <2>2, Zenon DEF EncoderInv
<1>6. CASE ~ Accepted(setup, l)
  BY <1>2, <1>4, <1>6, Zenon DEF EncoderInv
<1> QED
  BY <1>5, <1>6

LEMMA CreatedStep ==
    ASSUME HeaderInv, NEW p \in Seq(Nat), Header(p)
    PROVE  DecoderInv'
<1>1. dec' = Created(Read(h, p)) /\ op'.call = "header"
  BY DEF Header
<1>2. PICK g : g = Read(h, p) /\ HeaderType(g)
  BY ReadType DEF HeaderInv
<1>3. PICK l : l = Created(g)
  OBVIOUS
<1>4. l # None => DecType(l)
  BY <1>2, <1>3, CreatedIs
<1>5. dec' = l
  BY <1>1, <1>2, <1>3, Zenon
<1>6. (dec # None => DecType(dec))'
  BY <1>4, <1>5, Zenon DEF DecType
<1>7. DecodedInv'
  BY <1>1 DEF DecodedInv
<1> QED
  BY <1>6, <1>7, Zenon DEF DecoderInv

LEMMA DecodeStep ==
    ASSUME DecoderInv, NEW data \in Seq(Nat), Decode(data)
    PROVE  DecoderInv'
<1>1. PICK l : l = dec /\ l # None /\ DecType(l)
  BY DEF DecoderInv, Decode
<1>2. PICK r : r = Decoded(l, data, StreamsOf(data, l.streams))
  OBVIOUS
<1>3. dec' = l /\ op' = [call |-> "decode", data |-> data, r |-> r]
  BY <1>1, <1>2, Zenon DEF Decode, msVars
<1>4. op'.r = r
  BY <1>3
<1>5. r.ret > 0 => EachOnce(r.copies, l.mapping)
  <2>1. SUFFICES ASSUME r.ret > 0 PROVE EachOnce(r.copies, l.mapping)
    OBVIOUS
  <2>2. r.copies = Copies(l)
    BY <1>1, <1>2, <2>1, DecodeIs
  <2>3. EachOnce(Copies(l), l.mapping)
    BY <1>1, OnceIs DEF EachOnce
  <2> QED
    BY <2>2, <2>3, Zenon
<1>6. DecodedInv'
  BY <1>3, <1>4, <1>5, Zenon DEF DecodedInv, EachOnce
<1>7. (dec # None => DecType(dec))'
  BY <1>1, <1>3, Zenon DEF DecType
<1> QED
  BY <1>6, <1>7, Zenon DEF DecoderInv

LEMMA StreamsGoOn ==
    ASSUME StreamInv, Encoder \/ OwnDecoder \/ ForeignDecoder
    PROVE  StreamInv'
<1>0. HeaderInv /\ EncoderInv /\ DecoderInv
  BY DEF StreamInv
<1>9. HeaderInv'
  BY <1>0, HeaderStreams
<1>1. ASSUME NEW setup \in Setups, EncInit(setup) PROVE StreamInv'
  <2>1. dec' = dec /\ op'.call # "decode"
    BY <1>1 DEF EncInit
  <2> QED
    BY <1>0, <1>1, <1>9, <2>1, InitEncoder, DecoderSame DEF StreamInv
<1>2. ASSUME EncodeRefused PROVE StreamInv'
  <2>1. dec' = dec /\ op'.call # "decode" /\ enc' = enc /\ sent' = sent
    BY <1>2 DEF EncodeRefused, msVars
  <2> QED
    BY <1>0, <1>9, <2>1, EncoderSame, DecoderSame DEF StreamInv
<1>3. ASSUME NEW p, EncodeStream(p) PROVE StreamInv'
  <2>1. dec' = dec /\ op'.call # "decode"
    BY <1>3, Zenon DEF EncodeStream
  <2> QED
    BY <1>0, <1>3, <1>9, <2>1, SentStep, DecoderSame DEF StreamInv
<1>4. ASSUME NEW data \in Seq(Nat), Decode(data) PROVE StreamInv'
  <2>1. enc' = enc /\ sent' = sent
    BY <1>4 DEF Decode, msVars
  <2> QED
    BY <1>0, <1>4, <1>9, <2>1, EncoderSame, DecodeStep DEF StreamInv
<1>5. ASSUME NEW p \in Seq(Nat), Header(p) PROVE StreamInv'
  <2>1. enc' = enc /\ sent' = sent
    BY <1>5 DEF Header
  <2> QED
    BY <1>0, <1>5, <1>9, <2>1, EncoderSame, CreatedStep DEF StreamInv
<1>6. \A g : Writable(g) => HeaderBytes(g) \in Seq(Nat)
  BY HeaderWritten
<1>7. CASE Encoder
  BY <1>1, <1>2, <1>3, <1>7 DEF Encoder
<1>8. CASE OwnDecoder
  <2>1. sent.data \in Seq(Nat)
    BY <1>0 DEF EncoderInv, SentType
  <2>2. enc # None /\ Writable(enc.header)
    BY <1>0, <1>8 DEF OwnDecoder, EncoderDone, HeaderInv
  <2>3. PICK p \in Seq(Nat) : p = HeaderBytes(enc.header)
    BY <1>6, <2>2
  <2>4. Decode(sent.data) \/ Header(p)
    BY <1>8, <2>3, Zenon DEF OwnDecoder
  <2>5. PICK data \in Seq(Nat) : data = sent.data
    BY <2>1
  <2>6. Decode(data) \/ Header(p)
    BY <2>4, <2>5, Zenon
  <2> QED
    BY <1>4, <1>5, <2>6
<1>10. CASE ForeignDecoder
  <2>1. ForeignHeaders \subseteq Seq(Nat) /\ Packs \subseteq Seq(Nat)
    BY StreamAssumption, BytesAreNumbers
  <2>2. \A g \in AnyHeaders : HeaderBytes(g) \in Seq(Nat)
    BY <1>6, StreamAssumption
  <2>3. \/ \E p \in ForeignHeaders : Header(p)
        \/ \E g \in AnyHeaders : Header(HeaderBytes(g))
        \/ \E data \in Packs : Decode(data)
    BY <1>10, Zenon DEF ForeignDecoder
  <2>4. (\E p \in Seq(Nat) : Header(p)) \/ (\E data \in Seq(Nat) : Decode(data))
    BY <2>1, <2>2, <2>3, Zenon
  <2> QED
    BY <1>4, <1>5, <2>4, Zenon
<1> QED
  BY <1>7, <1>8, <1>10

LEMMA StreamStart == MSInit => StreamInv
<1> SUFFICES ASSUME MSInit PROVE StreamInv
  OBVIOUS
<1>1. /\ enc = None /\ h = NewHeader /\ dec = None /\ op.call = "none"
      /\ sent = [data |-> <<>>, frames |-> <<>>, taken |-> <<>>]
  BY DEF MSInit, Init, NoOp
<1>2. <<>> \in Seq(Nat) /\ <<>> \in Seq(Seq(Seq(Nat)))
  OBVIOUS
<1>3. HeaderInv
  BY <1>1, <1>2 DEF HeaderInv, HeaderType, NewHeader
<1>4. EncoderInv
  BY <1>1, <1>2 DEF EncoderInv, SentType
<1> QED
  BY <1>1, <1>3, <1>4 DEF StreamInv, DecoderInv, DecodedInv

LEMMA StreamKept == StreamInv /\ [MSNext]_allVars => StreamInv'
<1>1. ASSUME StreamInv, UNCHANGED allVars PROVE StreamInv'
  <2>1. h' = h /\ enc' = enc /\ op' = op /\ sent' = sent /\ dec' = dec
    BY <1>1 DEF allVars, vars, msVars
  <2> QED
    BY <1>1, <2>1, HeaderUnread, EncoderSame, DecoderSame DEF StreamInv
<1>2. ASSUME StreamInv, Tools PROVE StreamInv'
  <2>1. h' = h /\ enc' = enc /\ sent' = sent /\ dec' = dec
        /\ op'.call # "header" /\ op'.call # "decode"
    BY <1>2, ToolCalls
  <2> QED
    BY <1>2, <2>1, HeaderUnread, EncoderSame, DecoderSame DEF StreamInv
<1> QED
  BY <1>1, <1>2, StreamsGoOn DEF MSNext

\* Whatever the layout of the header that was read, every channel of the
\* decoder is written once by each packet it decodes: of a stream, or muted.
THEOREM EachChannelOnce == MSSpec => []OnceEach
<1>1. StreamInv => OnceEach
  BY DEF StreamInv, DecoderInv, DecodedInv, EachOnce, OnceEach
<1> QED
  BY <1>1, StreamStart, StreamKept, PTL DEF MSSpec

-----------------------------------------------------------------------------
(* No packet is longer repacked than it was                                *)

\* A size takes no more bytes written than it was read from.
LEMMA SizeBytes ==
    ASSUME NEW data \in Seq(Nat), NEW at \in Nat, NEW len \in Nat, at + len <= Len(data),
           NEW z \in Nat, z = ParseSize(data, at, len).size
    PROVE  /\ ParseSize(data, at, len).bytes \in Nat
           /\ Len(EncodeSize(z)) <= ParseSize(data, at, len).bytes
<1>1. EncodeSize(z) \in Seq(Nat) /\ (Len(EncodeSize(z)) = 1 \/ Len(EncodeSize(z)) = 2)
      /\ (z < Esc => Len(EncodeSize(z)) = 1)
  BY EncodedSize
<1>2. PICK e \in Nat : e = Len(EncodeSize(z)) /\ e <= 2 /\ (z < Esc => e <= 1)
  <2>1. PICK e : e = Len(EncodeSize(z))
    OBVIOUS
  <2>2. (e = 1 \/ e = 2) /\ (z < Esc => e = 1)
    BY <1>1, <2>1, Zenon
  <2>3. e \in Nat /\ e <= 2 /\ (e = 1 => e <= 1)
    BY <2>2
  <2> QED
    BY <2>1, <2>2, <2>3, Zenon
<1>3. len >= 1
  BY DEF ParseSize
<1>4. at + 1 \in 1 .. Len(data) /\ data[at + 1] \in Nat /\ Esc \in Nat
  BY <1>3, EscIs
<1>5. CASE data[at + 1] < Esc
  <2>1. ParseSize(data, at, len) = [bytes |-> 1, size |-> data[at + 1]]
    BY <1>3, <1>5 DEF ParseSize
  <2> QED
    BY <1>2, <1>5, <2>1
<1>6. CASE ~ (data[at + 1] < Esc)
  <2>1. len >= 2
    BY <1>3, <1>6 DEF ParseSize
  <2>2. ParseSize(data, at, len) = [bytes |-> 2, size |-> 4 * data[at + 2] + data[at + 1]]
    BY <1>3, <1>6, <2>1 DEF ParseSize
  <2> QED
    BY <1>2, <2>2
<1> QED
  BY <1>5, <1>6

\* What the sizes take, encoded.
EncodedAs(size, e) == e = Len(EncodedSizes(size))
OneAs(x, e) == e = Len(EncodeSize(x))

LEMMA EncodedNone == EncodedAs(<<>>, 0)
<1>1. PICK n \in Nat : n = 0 /\ n = Len(<<>>)
  OBVIOUS
<1>2. PICK f : IsEncoded(f, <<>>, n) /\ EncodedSizes(<<>>) = f[n]
  BY <1>1, EncodedIs
<1>3. f[n] = <<>>
  BY <1>1, <1>2 DEF IsEncoded
<1> QED
  BY <1>2, <1>3 DEF EncodedAs

LEMMA EncodedNext ==
    ASSUME NEW s \in Seq(Nat), NEW x \in Nat, NEW e \in Nat, EncodedAs(s, e),
           NEW b \in Nat, OneAs(x, b)
    PROVE  EncodedAs(Append(s, x), e + b)
<1>1. PICK t : t = Append(s, x)
  OBVIOUS
<1>2. PICK n \in Nat : n = Len(s)
  OBVIOUS
<1>3. PICK k \in Nat : k = n + 1
  OBVIOUS
<1>4. t \in Seq(Nat) /\ k = Len(t) /\ t[k] = x /\ \A i \in 1 .. n : t[i] = s[i]
  BY <1>1, <1>2, <1>3
<1>5. PICK g : IsEncoded(g, s, n) /\ EncodedSizes(s) = g[n]
  BY <1>2, EncodedIs
<1>6. PICK f : IsEncoded(f, t, k) /\ EncodedSizes(t) = f[k]
  BY <1>4, EncodedIs
<1> DEFINE P == {i \in 0 .. n : f[i] = g[i]}
<1>7. 0 \in P
  BY <1>3, <1>5, <1>6 DEF IsEncoded
<1>8. ASSUME NEW i \in 0 .. n - 1, i \in P PROVE i + 1 \in P
  <2>1. PICK j \in 1 .. n : j = i + 1 /\ j - 1 = i
    OBVIOUS
  <2>2. j \in 0 .. n /\ j # 0 /\ j \in 0 .. k
    BY <1>3
  <2>3. g[j] = g[j - 1] \o EncodeSize(s[j])
    BY <1>5, <2>2 DEF IsEncoded
  <2>4. f[j] = f[j - 1] \o EncodeSize(t[j])
    BY <1>6, <2>2 DEF IsEncoded
  <2>5. f[j - 1] = g[j - 1] /\ t[j] = s[j]
    BY <1>4, <1>8, <2>1
  <2>6. f[j] = g[j]
    BY <2>3, <2>4, <2>5, Zenon
  <2> QED
    BY <2>1, <2>2, <2>6
<1> HIDE DEF P
<1>9. n \in P
  <2>1. \A i \in 0 .. n : i \in P
    BY <1>7, <1>8, InductionTo
  <2> QED
    BY <2>1
<1>10. f[n] = g[n]
  BY <1>9 DEF P
<1>11. f[k] = f[n] \o EncodeSize(x)
  <2>1. k \in 0 .. k /\ k # 0 /\ k - 1 = n
    BY <1>3
  <2>2. f[k] = f[k - 1] \o EncodeSize(t[k])
    BY <1>6, <2>1 DEF IsEncoded
  <2> QED
    BY <1>4, <2>1, <2>2
<1>12. PICK a \in Seq(Nat) : a = g[n] /\ Len(a) = e
  <2>1. EncodedSizes(s) \in Seq(Nat)
    BY <1>2, EncodedFits
  <2> QED
    BY <1>5, <2>1 DEF EncodedAs
<1>13. PICK c \in Seq(Nat) : c = EncodeSize(x) /\ Len(c) = b
  BY EncodedSize DEF OneAs
<1>14. Len(a \o c) = e + b
  <2>1. Len(a \o c) = Len(a) + Len(c)
    OBVIOUS
  <2> QED
    BY <1>12, <1>13, <2>1, Zenon
<1>15. EncodedSizes(t) = a \o c
  BY <1>6, <1>10, <1>11, <1>12, <1>13, Zenon
<1> QED
  BY <1>1, <1>14, <1>15 DEF EncodedAs

\* The sizes that were read take no more bytes encoded.
SizesWithin(g, at) == \E e, a \in Nat : EncodedAs(g.size, e) /\ a = g.at /\ at + e <= a

LEMMA WithinStep ==
    ASSUME NEW data \in Seq(Nat), NEW all \in Nat, all <= Len(data), NEW at \in Nat, NEW i \in Nat,
           NEW g, g.ok = TRUE, SizesLeave(g, i, all), SizesWithin(g, at),
           VbrNext(data, g).ok = TRUE
    PROVE  SizesWithin(VbrNext(data, g), at)
<1>1. PICK e \in Nat, a \in Nat : EncodedAs(g.size, e) /\ a = g.at /\ at + e <= a
  BY DEF SizesWithin
<1>2. PICK l \in Nat : l = g.len /\ a + l = all
  BY <1>1 DEF SizesLeave
<1>3. PICK p : p = ParseSize(data, a, l)
  OBVIOUS
<1>4. /\ VbrNext(data, g).ok = (p.size >= 0 /\ p.size <= l - p.bytes)
      /\ VbrNext(data, g).at = a + p.bytes
      /\ VbrNext(data, g).size = Append(g.size, p.size)
  BY <1>1, <1>2, <1>3 DEF VbrNext
<1>5. a + l <= Len(data)
  BY <1>2
<1>6. p.size \in Int
  BY <1>3, <1>5, SizeFits
<1>7. PICK z \in Nat : z = p.size
  <2>1. p.size >= 0
    BY <1>4, Zenon
  <2> QED
    BY <1>6, <2>1
<1>8. PICK b \in Nat, c \in Nat : b = Len(EncodeSize(z)) /\ c = p.bytes /\ b <= c
  <2>1. p.bytes \in Nat /\ Len(EncodeSize(z)) <= p.bytes
    BY <1>3, <1>5, <1>7, SizeBytes
  <2>2. EncodeSize(z) \in Seq(Nat)
    BY EncodedSize
  <2>3. Len(EncodeSize(z)) \in Nat
    BY <2>2
  <2> QED
    BY <2>1, <2>3
<1>9. g.size \in Seq(Nat) /\ OneAs(z, b)
  BY <1>8 DEF SizesLeave, OneAs
<1>10. EncodedAs(Append(g.size, z), e + b)
  BY <1>1, <1>9, EncodedNext
<1>11. e + b \in Nat /\ a + c \in Nat /\ at + (e + b) <= a + c
  <2>1. at + e <= a /\ b <= c
    BY <1>1, <1>8, Zenon
  <2> QED
    BY <2>1
<1>12. VbrNext(data, g).at = a + c /\ VbrNext(data, g).size = Append(g.size, z)
  BY <1>4, <1>7, <1>8, Zenon
<1> QED
  BY <1>10, <1>11, <1>12, Zenon DEF SizesWithin

LEMMA VbrWithin ==
    ASSUME NEW data \in Seq(Nat), NEW at \in Nat, NEW len \in Nat, at + len <= Len(data),
           NEW n \in Nat, VbrSizes(data, at, len, n).ok = TRUE
    PROVE  SizesWithin(VbrSizes(data, at, len, n), at)
<1>1. PICK f : IsVbr(f, data, at, len, n) /\ VbrSizes(data, at, len, n) = f[n]
  BY VbrIs
<1>0. PICK all \in Nat : all = at + len /\ all <= Len(data)
  OBVIOUS
<1> DEFINE P == {i \in 0 .. n :
                    /\ f[i].ok \in BOOLEAN
                    /\ f[i].ok = TRUE => SizesLeave(f[i], i, all) /\ SizesWithin(f[i], at)}
<1>2. 0 \in P
  <2>1. f[0] = VbrStart(at, len)
    BY <1>1 DEF IsVbr
  <2>2. <<>> \in Seq(Nat) /\ Len(<<>>) = 0 /\ Total(<<>>, 0) = 0
    <3>1. \A i \in 1 .. 0 : <<>>[i] \in Int
      OBVIOUS
    <3>2. Total(<<>>, 0) = 0
      BY <3>1, TotalStep
    <3> QED
      BY <3>2
  <2>3. SizesLeave(VbrStart(at, len), 0, all) /\ VbrStart(at, len).ok = TRUE
    BY <1>0, <2>2 DEF SizesLeave, VbrStart
  <2>4. VbrStart(at, len).size = <<>> /\ VbrStart(at, len).at = at /\ at + 0 <= at
    BY DEF VbrStart
  <2>5. SizesWithin(VbrStart(at, len), at)
    BY <2>4, EncodedNone DEF SizesWithin
  <2>6. f[0].ok = TRUE /\ SizesLeave(f[0], 0, all) /\ SizesWithin(f[0], at)
    BY <2>1, <2>3, <2>5, Zenon
  <2>7. 0 \in 0 .. n
    OBVIOUS
  <2> QED
    BY <2>6, <2>7
<1>3. ASSUME NEW i \in 0 .. n - 1, i \in P PROVE i + 1 \in P
  <2>1. f[i + 1] = VbrNext(data, f[i])
    BY <1>1 DEF IsVbr
  <2>2. f[i].ok \in BOOLEAN /\ (f[i].ok = TRUE => SizesLeave(f[i], i, all) /\ SizesWithin(f[i], at))
    BY <1>3
  <2>3. i \in Nat /\ i + 1 \in 0 .. n
    OBVIOUS
  <2>4. LET k == VbrNext(data, f[i])
        IN k.ok \in BOOLEAN /\ (k.ok = TRUE => SizesLeave(k, i + 1, all))
    BY <1>0, <2>2, <2>3, VbrStep
  <2>5. ASSUME VbrNext(data, f[i]).ok = TRUE PROVE SizesWithin(VbrNext(data, f[i]), at)
    <3>1. f[i].ok = TRUE
      BY <2>2, <2>5 DEF VbrNext
    <3>2. SizesLeave(f[i], i, all) /\ SizesWithin(f[i], at)
      BY <2>2, <3>1
    <3> QED
      BY <1>0, <2>3, <2>5, <3>1, <3>2, WithinStep
  <2> QED
    BY <2>1, <2>3, <2>4, <2>5
<1> HIDE DEF P
<1>4. n \in P
  <2>1. \A i \in 0 .. n : i \in P
    BY <1>2, <1>3, InductionTo
  <2> QED
    BY <2>1
<1>5. f[n].ok = TRUE => SizesWithin(f[n], at)
  BY <1>4 DEF P
<1> QED
  BY <1>1, <1>5, Zenon

\* Where the frame sizes or the frames begin.
CountedAt(c) ==
    /\ c.at \in Nat /\ c.at >= 1 /\ c.count \in Nat /\ c.count >= 1
    /\ c.count > 2 => c.at >= 2

LEMMA CountedStarts ==
    ASSUME NEW data \in Seq(Nat), data # <<>>, Counted(data).ok
    PROVE  CountedAt(Counted(data))
<1>1. PICK c : c = Counted(data)
  OBVIOUS
<1>2. c.at \in Nat /\ c.count \in Nat /\ c.count >= 1
  BY <1>1, CountedFits DEF CountedFor, CountedNumbers
<1>3. CASE Code(data[1]) # 3
  <2>1. c = [ok |-> TRUE, count |-> IF Code(data[1]) = 0 THEN 1 ELSE 2, cbr |-> Code(data[1]) = 1,
             vbr |-> Code(data[1]) = 2, at |-> 1, len |-> Len(data) - 1, pad |-> 0]
    BY <1>1, <1>3 DEF Counted
  <2>2. c.at = 1 /\ (c.count = 1 \/ c.count = 2)
    BY <2>1
  <2> QED
    BY <1>1, <2>2 DEF CountedAt
<1>4. CASE ~ (Code(data[1]) # 3)
  <2> DEFINE len   == Len(data) - 1
             ch    == data[2]
             count == ch % 64
             p     == Padding(data, 2, len - 1)
  <2>1. Counted(data) =
          IF len < 1 THEN [ok |-> FALSE]
          ELSE IF count = 0 \/ SamplesPerFrame(data[1], 48000) * count > 5760
          THEN [ok |-> FALSE]
          ELSE IF (ch \div 64) % 2 = 1
          THEN [ok |-> p.ok, count |-> count, cbr |-> ch < 128, vbr |-> ch >= 128,
                at |-> 2 + p.bytes, len |-> p.len, pad |-> p.pad]
          ELSE [ok |-> TRUE, count |-> count, cbr |-> ch < 128, vbr |-> ch >= 128,
                at |-> 2, len |-> len - 1, pad |-> 0]
    BY <1>4 DEF Counted
  <2>2. /\ len >= 1 /\ ~ (count = 0 \/ SamplesPerFrame(data[1], 48000) * count > 5760)
    BY <2>1
  <2>3. CASE (ch \div 64) % 2 = 1
    <3>1. Counted(data) =
            [ok |-> p.ok, count |-> count, cbr |-> ch < 128, vbr |-> ch >= 128,
             at |-> 2 + p.bytes, len |-> p.len, pad |-> p.pad]
      BY <2>1, <2>2, <2>3
    <3>2. p.ok
      BY <3>1
    <3>3. len - 1 \in Nat /\ 2 + (len - 1) = Len(data)
      BY <2>2
    <3>4. p.bytes \in Nat
      BY <3>2, <3>3, PaddingFits
    <3>5. c.at = 2 + p.bytes
      BY <1>1, <3>1
    <3> HIDE DEF p
    <3> QED
      BY <1>1, <1>2, <3>4, <3>5 DEF CountedAt
  <2>4. CASE ~ ((ch \div 64) % 2 = 1)
    <3>1. Counted(data) =
            [ok |-> TRUE, count |-> count, cbr |-> ch < 128, vbr |-> ch >= 128,
             at |-> 2, len |-> len - 1, pad |-> 0]
      BY <2>1, <2>2, <2>4
    <3>2. c.at = 2
      BY <1>1, <3>1
    <3> QED
      BY <1>1, <1>2, <3>2 DEF CountedAt
  <2> QED
    BY <2>3, <2>4
<1> QED
  BY <1>3, <1>4

\* The least a packet takes, part by part.
SelfBytes(size, sd, b) == b = Len(SelfSize(size, sd))
SizeBytesIn(size, m) == m = IF Vbr(size) THEN Len(EncodedSizes(AllButLast(size))) ELSE 0

Costs(size, sd, n, x) == Shortest(size, sd) = x + (IF n <= 2 THEN 1 ELSE 2)

LEMMA ShortestIs ==
    ASSUME NEW size \in Seq(Nat), NEW n \in Nat, NEW sum \in Nat, Adds(size, n, sum), n >= 1,
           NEW sd \in BOOLEAN, NEW b \in Nat, SelfBytes(size, sd, b),
           NEW m \in Nat, SizeBytesIn(size, m)
    PROVE  Costs(size, sd, n, b + sum + m)
<1>1. Len(size) = n /\ SumSeq(size) = sum
  BY DEF Adds
<1>2. Multiple(size, sd) = b + sum + 2 + m
  BY <1>1, Zenon DEF Multiple, SelfBytes, SizeBytesIn
<1>3. PICK x \in Nat, y \in Nat : x = Simple(size, sd) /\ y = Multiple(size, sd) /\ (n <= 2 => y = x + 1)
  BY OneMore
<1>4. Shortest(size, sd) = IF n <= 2 THEN x ELSE y
  BY <1>1, <1>3, Zenon DEF Shortest
<1>5. y = b + sum + 2 + m
  BY <1>2, <1>3, Zenon
<1>6. (IF n <= 2 THEN x ELSE y) = b + sum + m + (IF n <= 2 THEN 1 ELSE 2)
  BY <1>3, <1>5
<1> QED
  BY <1>4, <1>6, Zenon DEF Costs

LEMMA AppendIs ==
    ASSUME NEW t \in Seq(Nat), NEW x \in Nat
    PROVE  /\ Append(t, x) \in Seq(Nat) /\ Len(Append(t, x)) = Len(t) + 1
           /\ \A i \in 1 .. Len(t) : Append(t, x)[i] = t[i]
           /\ Append(t, x)[Len(t) + 1] = x
  OBVIOUS

LEMMA SameSeq ==
    ASSUME NEW s \in Seq(Nat), NEW t \in Seq(Nat), NEW n \in Nat, HasLen(s, n), HasLen(t, n),
           \A i \in 1 .. n : s[i] = t[i]
    PROVE  s = t
<1>1. s = [i \in 1 .. n |-> s[i]]
  <2>1. s = [i \in 1 .. Len(s) |-> s[i]]
    OBVIOUS
  <2> QED
    BY <2>1, Zenon DEF HasLen
<1>2. t = [i \in 1 .. n |-> t[i]]
  <2>1. t = [i \in 1 .. Len(t) |-> t[i]]
    OBVIOUS
  <2> QED
    BY <2>1, Zenon DEF HasLen
<1>3. [i \in 1 .. n |-> s[i]] = [i \in 1 .. n |-> t[i]]
  OBVIOUS
<1> QED
  BY <1>1, <1>2, <1>3, Zenon

LEMMA ButLast ==
    ASSUME NEW t \in Seq(Nat), NEW x \in Nat
    PROVE  AllButLast(Append(t, x)) = t
<1>1. PICK n \in Nat : n = Len(t)
  OBVIOUS
<1>2. PICK a \in Seq(Nat) : a = Append(t, x) /\ Len(a) = n + 1 /\ \A i \in 1 .. n : a[i] = t[i]
  BY <1>1, AppendIs
<1>3. PICK b : b = SubSeq(a, 1, n)
  OBVIOUS
<1>4. 0 + n <= Len(a)
  BY <1>2
<1>5. b \in Seq(Nat) /\ Len(b) = n /\ \A i \in 1 .. n : b[i] = a[i]
  <2>1. /\ SubSeq(a, 0 + 1, 0 + n) \in Seq(Nat) /\ Len(SubSeq(a, 0 + 1, 0 + n)) = n
        /\ \A i \in 1 .. n : SubSeq(a, 0 + 1, 0 + n)[i] = a[0 + i]
    BY <1>4, PartOf
  <2>2. 0 + 1 = 1 /\ 0 + n = n /\ \A i \in 1 .. n : 0 + i = i
    OBVIOUS
  <2> QED
    BY <1>3, <2>1, <2>2
<1>6. b = t
  <2>1. HasLen(b, n) /\ HasLen(t, n)
    BY <1>1, <1>5 DEF HasLen
  <2>2. \A i \in 1 .. n : b[i] = t[i]
    BY <1>2, <1>5, Zenon
  <2> QED
    BY <1>5, <2>1, <2>2, SameSeq
<1>7. Len(a) - 1 = n
  BY <1>2
<1> QED
  BY <1>2, <1>3, <1>6, <1>7, Zenon DEF AllButLast

LEMMA NoSizes == \A size : ~ Vbr(size) => SizeBytesIn(size, 0)
  BY DEF SizeBytesIn

\* The frame sizes lie between the header and where the frames begin.
HeadOf(c, s, x) ==
    \E a, m \in Nat : a = s.at /\ c.at + m <= a /\ SizeBytesIn(Append(s.size, x), m)

LEMMA VbrHead ==
    ASSUME NEW data \in Seq(Nat), NEW c, CountedFor(data, c), c.vbr = TRUE, NEW sd \in BOOLEAN,
           NEW n \in Nat, SizesLeave(Sized(data, c, sd), n, FrameBytes(c)),
           Sized(data, c, sd).ok = TRUE, NEW x \in Nat
    PROVE  HeadOf(c, Sized(data, c, sd), x)
<1>1. PICK s : s = Sized(data, c, sd)
  OBVIOUS
<1>2. PICK at \in Nat, len \in Nat, k \in Nat :
          at = c.at /\ len = c.len /\ at + len <= Len(data) /\ k = c.count - 1
  <2>1. CountedNumbers(data, c)
    BY DEF CountedFor
  <2>2. c.at \in Nat /\ c.len \in Nat /\ c.at + c.len <= Len(data)
        /\ c.count \in Nat /\ c.count >= 1
    BY <2>1 DEF CountedNumbers
  <2>3. c.count - 1 \in Nat
    BY <2>2
  <2> QED
    BY <2>2, <2>3
<1>3. s = VbrSizes(data, at, len, k)
  BY <1>1, <1>2 DEF Sized
<1>4. SizesWithin(s, at)
  BY <1>1, <1>2, <1>3, VbrWithin
<1>5. PICK e \in Nat, a \in Nat : EncodedAs(s.size, e) /\ a = s.at /\ at + e <= a
  BY <1>4 DEF SizesWithin
<1>6. s.size \in Seq(Nat)
  BY <1>1 DEF SizesLeave
<1>7. AllButLast(Append(s.size, x)) = s.size
  BY <1>6, ButLast
<1>8. PICK m : m = IF Vbr(Append(s.size, x)) THEN e ELSE 0
  OBVIOUS
<1>9. SizeBytesIn(Append(s.size, x), m)
  BY <1>5, <1>7, <1>8, Zenon DEF SizeBytesIn, EncodedAs
<1>10. m = e \/ m = 0
  BY <1>8, Zenon
<1>11. m \in Nat /\ at + m <= a
  BY <1>5, <1>10
<1> QED
  BY <1>1, <1>2, <1>5, <1>9, <1>11 DEF HeadOf

LEMMA EvenHead ==
    ASSUME NEW data \in Seq(Nat), NEW c, CountedFor(data, c), c.vbr = FALSE, c.cbr = TRUE,
           NEW n \in Nat, SizesLeave(Sized(data, c, FALSE), n, FrameBytes(c)),
           NEW x \in Nat, x = Sized(data, c, FALSE).last
    PROVE  HeadOf(c, Sized(data, c, FALSE), x)
<1>1. PICK s : s = Sized(data, c, FALSE)
  OBVIOUS
<1>2. PICK at \in Nat, len \in Nat, count \in Nat : at = c.at /\ len = c.len /\ count = c.count /\ count >= 1
  BY DEF CountedFor, CountedNumbers
<1>3. s = EvenSizes(at, len, count)
  BY <1>1, <1>2 DEF Sized
<1>4. count \in Nat \ {0}
  BY <1>2
<1>5. \A i \in 1 .. count - 1 : s.size[i] = s.last
  <2>1. LET g == EvenSizes(at, len, count) IN \A i \in 1 .. count - 1 : g.size[i] = g.last
    BY <1>4, EvenFits, ZenonT(40)
  <2> QED
    BY <1>3, <2>1, Zenon
<1>6. s.at = at /\ Len(s.size) = count - 1
  <2>1. s.at = at /\ s.size = [i \in 1 .. count - 1 |-> len \div count]
    BY <1>3 DEF EvenSizes
  <2>2. PICK v : v = len \div count
    OBVIOUS
  <2>3. Len([i \in 1 .. count - 1 |-> v]) = count - 1
    BY <1>4
  <2> QED
    BY <2>1, <2>2, <2>3
<1>7. s.size \in Seq(Nat)
  BY <1>1 DEF SizesLeave
<1>13. PICK z \in Seq(Nat), k \in Nat : z = s.size /\ k = Len(z) /\ k + 1 = count
  BY <1>2, <1>6, <1>7
<1>8. PICK t : t = Append(z, x)
  OBVIOUS
<1>14. t \in Seq(Nat) /\ Len(t) = count /\ t[count] = x /\ \A i \in 1 .. k : t[i] = z[i]
  <2>1. /\ Append(z, x) \in Seq(Nat) /\ Len(Append(z, x)) = Len(z) + 1
        /\ \A i \in 1 .. Len(z) : Append(z, x)[i] = z[i]
        /\ Append(z, x)[Len(z) + 1] = x
    BY AppendIs
  <2> QED
    BY <1>8, <1>13, <2>1, Zenon
<1>9. \A i \in 1 .. count : t[i] = x
  <2>1. \A i \in 1 .. k : z[i] = x
    <3>1. count - 1 = k
      BY <1>13
    <3> QED
      BY <1>1, <1>5, <1>13, <3>1, Zenon
  <2>2. \A i \in 1 .. count : i \in 1 .. k \/ i = count
    BY <1>13
  <2> QED
    BY <1>14, <2>1, <2>2, Zenon
<1>10. ~ Vbr(t)
  <2>1. \A i \in 2 .. count : i \in 1 .. count /\ 1 \in 1 .. count
    BY <1>2
  <2>2. \A i \in 2 .. count : t[i] = t[1]
    BY <1>9, <2>1, Zenon
  <2> QED
    BY <1>14, <2>2, Zenon DEF Vbr
<1>11. SizeBytesIn(t, 0)
  BY <1>10, NoSizes
<1>12. 0 \in Nat /\ at + 0 <= at
  BY <1>2
<1> QED
  BY <1>1, <1>2, <1>6, <1>8, <1>11, <1>12, <1>13, Zenon DEF HeadOf

LEMMA OneHead ==
    ASSUME NEW data \in Seq(Nat), NEW c, CountedFor(data, c), c.vbr = FALSE, c.cbr = FALSE,
           NEW sd \in BOOLEAN, NEW x \in Nat
    PROVE  HeadOf(c, Sized(data, c, sd), x)
<1>1. PICK s : s = Sized(data, c, sd)
  OBVIOUS
<1>2. PICK at \in Nat : at = c.at
  BY DEF CountedFor, CountedNumbers
<1>3. s = [ok |-> TRUE, at |-> c.at, len |-> c.len, last |-> c.len, size |-> <<>>]
  BY <1>1 DEF Sized
<1>4. s.at = at /\ s.size = <<>>
  BY <1>2, <1>3
<1>5. Append(s.size, x) = <<x>> /\ Len(<<x>>) = 1
  BY <1>4
<1>6. ~ Vbr(Append(s.size, x))
  BY <1>5 DEF Vbr
<1>7. SizeBytesIn(Append(s.size, x), 0)
  BY <1>6, NoSizes
<1>8. 0 \in Nat /\ at + 0 <= at
  BY <1>2
<1> QED
  BY <1>1, <1>2, <1>4, <1>7, <1>8 DEF HeadOf

\* In any case they are not before the header's end.
LEMMA AnyHead ==
    ASSUME NEW data \in Seq(Nat), NEW c, CountedFor(data, c), NEW sd \in BOOLEAN,
           NEW n \in Nat, SizesLeave(Sized(data, c, sd), n, FrameBytes(c)),
           Sized(data, c, sd).ok = TRUE
    PROVE  c.at <= Sized(data, c, sd).at
<1>1. PICK s : s = Sized(data, c, sd)
  OBVIOUS
<1>2. PICK at \in Nat : at = c.at
  BY DEF CountedFor, CountedNumbers
<1>3. CASE c.vbr = TRUE
  <2>1. HeadOf(c, s, 0)
    BY <1>1, <1>3, VbrHead
  <2>2. PICK a \in Nat, m \in Nat : a = s.at /\ at + m <= a
    BY <1>2, <2>1 DEF HeadOf
  <2>3. at <= a
    BY <2>2
  <2> QED
    BY <1>1, <1>2, <2>2, <2>3
<1>4. CASE c.vbr = FALSE
  <2>1. s.at = at
    BY <1>1, <1>2, <1>4 DEF Sized, EvenSizes
  <2>2. at <= at
    OBVIOUS
  <2> QED
    BY <1>1, <1>2, <2>1, <2>2
<1> QED
  BY <1>3, <1>4 DEF CountedFor

\* What was parsed, and that its header would fit where it was read from.
HeaderIn(c, p, sd) ==
    \E m, b, a, off \in Nat :
        /\ SizeBytesIn(p.size, m) /\ SelfBytes(p.size, sd, b)
        /\ a = c.at /\ off = p.offset /\ a + m + b <= off
        /\ p.ret = c.count

\* The state of a parse that has read the sizes.
SizedAs(data, sd, c, s, n) ==
    /\ CountedFor(data, c) /\ s = Sized(data, c, sd) /\ s.ok = TRUE
    /\ SizesLeave(s, n, FrameBytes(c))

LEMMA PlainIn ==
    ASSUME NEW data \in Seq(Nat), NEW c, NEW s, NEW n \in Nat, SizedAs(data, FALSE, c, s, n),
           NEW x \in Nat, x = s.last
    PROVE  HeaderIn(c, Parsed(c, s.at, Append(s.size, x)), FALSE)
<1>1. /\ CountedFor(data, c) /\ s = Sized(data, c, FALSE) /\ s.ok = TRUE
      /\ SizesLeave(s, n, FrameBytes(c))
  BY DEF SizedAs
<1>2. c.cbr \in BOOLEAN /\ c.vbr \in BOOLEAN
  BY <1>1 DEF CountedFor
<1>3. PICK at \in Nat : at = c.at
  BY <1>1 DEF CountedFor, CountedNumbers
<1>4. HeadOf(c, s, x)
  <2>1. CASE c.vbr = TRUE
    BY <1>1, <2>1, VbrHead
  <2>2. CASE c.vbr = FALSE /\ c.cbr = TRUE
    BY <1>1, <2>2, EvenHead
  <2>3. CASE c.vbr = FALSE /\ c.cbr = FALSE
    BY <1>1, <2>3, OneHead
  <2> QED
    BY <1>2, <2>1, <2>2, <2>3
<1>5. PICK a \in Nat, m \in Nat : a = s.at /\ at + m <= a /\ SizeBytesIn(Append(s.size, x), m)
  BY <1>3, <1>4 DEF HeadOf
<1>6. PICK p : p = Parsed(c, s.at, Append(s.size, x))
  OBVIOUS
<1>7. p.size = Append(s.size, x) /\ p.offset = a /\ p.ret = c.count
  BY <1>5, <1>6 DEF Parsed
<1>8. SelfBytes(p.size, FALSE, 0)
  BY DEF SelfBytes, SelfSize
<1>9. at + m + 0 <= a
  BY <1>5
<1> QED
  BY <1>3, <1>5, <1>6, <1>7, <1>8, <1>9 DEF HeaderIn

\* Of self-delimited frames, the last one's size is in front of the frames.
LEMMA SelfIn ==
    ASSUME NEW data \in Seq(Nat), NEW at \in Nat, NEW len \in Nat, at + len <= Len(data),
           NEW b \in Nat, NEW z \in Nat, NEW s, LastSize(data, s, at, len, b, z),
           NEW size \in Seq(Nat), size # <<>>, size[Len(size)] = z
    PROVE  \E e \in Nat : SelfBytes(size, TRUE, e) /\ e <= b
<1>1. z = ParseSize(data, at, len).size /\ b = ParseSize(data, at, len).bytes
  BY DEF LastSize
<1>2. EncodeSize(z) \in Seq(Nat)
  BY EncodedSize
<1>3. PICK e \in Nat : e = Len(EncodeSize(z))
  BY <1>2
<1>4. e <= b
  BY <1>1, <1>3, SizeBytes
<1>5. SelfBytes(size, TRUE, e)
  BY <1>3, Zenon DEF SelfBytes, SelfSize
<1> QED
  BY <1>4, <1>5

LEMMA DelimitedIn ==
    ASSUME NEW data \in Seq(Nat), NEW c, NEW s, NEW n \in Nat, SizedAs(data, TRUE, c, s, n),
           Delimited(data, c, s) # Invalid
    PROVE  HeaderIn(c, Delimited(data, c, s), TRUE)
<1>1. /\ CountedFor(data, c) /\ s = Sized(data, c, TRUE) /\ s.ok = TRUE
      /\ SizesLeave(s, n, FrameBytes(c))
  BY DEF SizedAs
<1>2. c.cbr \in BOOLEAN /\ c.vbr \in BOOLEAN
  BY <1>1 DEF CountedFor
<1>3. PICK k \in Nat, count \in Nat : k = c.at /\ count = c.count /\ count >= 1
  BY <1>1 DEF CountedFor, CountedNumbers
<1>4. PICK all \in 0 .. Len(data) : all = FrameBytes(c)
  <2>1. FrameBytes(c) \in 0 .. Len(data)
    BY <1>1 DEF CountedFor, CountedNumbers, FrameBytes
  <2> QED
    BY <2>1
<1>5. PICK at \in Nat, len \in Nat, b \in Nat, z \in Nat :
          at + len = all /\ LastSize(data, s, at, len, b, z)
  BY <1>1, <1>4, LastSizeFits
<1>6. at + len <= Len(data) /\ at = s.at /\ len = s.len
      /\ ParseSize(data, at, len).bytes = b /\ ParseSize(data, at, len).size = z
  BY <1>5 DEF LastSize
<1>7. PICK p : p = Delimited(data, c, s)
  OBVIOUS
<1>8. at + b \in Nat
  OBVIOUS
<1>9. CASE c.cbr = TRUE
  <2>1. PICK size : size = [i \in 1 .. count |-> z]
    OBVIOUS
  <2>2. size \in Seq(Nat) /\ Len(size) = count /\ \A i \in 1 .. count : size[i] = z
    BY <2>1
  <2>3. p = Parsed(c, at + b, size)
    <3>1. Delimited(data, c, s) = Invalid \/ Delimited(data, c, s) = Parsed(c, at + b, size)
      BY <1>3, <1>6, <1>9, <2>1 DEF Delimited
    <3> QED
      BY <1>7, <3>1
  <2>4. p.size = size /\ p.offset = at + b /\ p.ret = c.count
    BY <2>3 DEF Parsed
  <2>5. ~ Vbr(size)
    BY <1>3, <2>2 DEF Vbr
  <2>6. SizeBytesIn(size, 0)
    BY <2>5, NoSizes
  <2>7. size # <<>> /\ size[Len(size)] = z
    BY <1>3, <2>2
  <2>8. PICK e \in Nat : SelfBytes(size, TRUE, e) /\ e <= b
    BY <1>5, <1>6, <2>2, <2>7, SelfIn
  <2>9. k <= at
    BY <1>1, <1>3, <1>6, AnyHead
  <2>10. k + 0 + e <= at + b
    BY <2>8, <2>9
  <2> QED
    BY <1>3, <1>7, <1>8, <2>4, <2>6, <2>8, <2>10 DEF HeaderIn
<1>10. CASE c.cbr = FALSE
  <2>1. HeadOf(c, s, z)
    <3>1. CASE c.vbr = TRUE
      BY <1>1, <3>1, VbrHead
    <3>2. CASE c.vbr = FALSE
      BY <1>1, <1>10, <3>2, OneHead
    <3> QED
      BY <1>2, <3>1, <3>2
  <2>2. PICK m \in Nat : k + m <= at /\ SizeBytesIn(Append(s.size, z), m)
    BY <1>3, <1>6, <2>1 DEF HeadOf
  <2>3. s.size \in Seq(Nat)
    BY <1>1 DEF SizesLeave
  <2>4. PICK size : size = Append(s.size, z)
    OBVIOUS
  <2>5. PICK l \in Nat : l = Len(s.size)
    BY <2>3
  <2>6. size \in Seq(Nat) /\ Len(size) = l + 1 /\ size[l + 1] = z
    BY <2>3, <2>4, <2>5, AppendIs
  <2>7. size # <<>> /\ size[Len(size)] = z
    <3>1. Len(size) # 0
      BY <2>6
    <3> QED
      BY <2>6, <3>1
  <2>8. p = Parsed(c, at + b, size)
    <3>1. Delimited(data, c, s) = Invalid \/ Delimited(data, c, s) = Parsed(c, at + b, size)
      BY <1>6, <1>10, <2>4 DEF Delimited
    <3> QED
      BY <1>7, <3>1
  <2>9. p.size = size /\ p.offset = at + b /\ p.ret = c.count
    BY <2>8 DEF Parsed
  <2>10. PICK e \in Nat : SelfBytes(size, TRUE, e) /\ e <= b
    BY <1>5, <1>6, <2>6, <2>7, SelfIn
  <2>11. k + m + e <= at + b
    BY <2>2, <2>10
  <2> QED
    BY <1>3, <1>7, <1>8, <2>2, <2>4, <2>9, <2>10, <2>11 DEF HeaderIn
<1> QED
  BY <1>2, <1>9, <1>10

LEMMA ParseIn ==
    ASSUME NEW data \in Seq(Nat), NEW sd \in BOOLEAN, Parse(data, sd) # Invalid
    PROVE  HeaderIn(Counted(data), Parse(data, sd), sd) /\ CountedAt(Counted(data))
<1>1. PICK c : c = Counted(data)
  OBVIOUS
<1>2. PICK s : s = Sized(data, c, sd)
  OBVIOUS
<1>3. data # <<>> /\ c.ok /\ Parse(data, sd) = ParsedAs(data, sd, c, s)
  BY <1>1, <1>2 DEF Parse, ParsedCount
<1>4. CountedFor(data, c) /\ CountedAt(c)
  BY <1>1, <1>3, CountedFits, CountedStarts
<1>5. SizedFor(c, sd, s)
  BY <1>2, <1>4, SizedFits
<1>6. s.ok /\ ~ (s.last < 0)
  BY <1>3 DEF ParsedAs
<1>7. s.ok = TRUE
  BY <1>5, <1>6 DEF SizedFor
<1>8. PICK n \in Nat : SizesLeave(s, n, FrameBytes(c))
  BY <1>5, <1>7 DEF SizedFor
<1>9. SizedAs(data, sd, c, s, n)
  BY <1>2, <1>4, <1>7, <1>8 DEF SizedAs
<1>10. CASE sd = TRUE
  <2>1. Parse(data, sd) = Delimited(data, c, s)
    BY <1>3, <1>6, <1>10 DEF ParsedAs
  <2>2. SizedAs(data, TRUE, c, s, n) /\ Delimited(data, c, s) # Invalid
    BY <1>9, <1>10, <2>1, Zenon
  <2>3. HeaderIn(c, Delimited(data, c, s), TRUE)
    BY <2>2, DelimitedIn
  <2> QED
    BY <1>1, <1>4, <1>10, <2>1, <2>3, Zenon
<1>11. CASE sd = FALSE
  <2>1. PICK x \in Int : x = s.last
    BY <1>8 DEF SizesLeave
  <2>2. x \in Nat
    BY <1>6, <2>1
  <2>3. Parse(data, sd) = Parsed(c, s.at, Append(s.size, x))
    BY <1>3, <1>6, <1>11, <2>1 DEF ParsedAs
  <2>4. SizedAs(data, FALSE, c, s, n)
    BY <1>9, <1>11, Zenon
  <2>5. HeaderIn(c, Parsed(c, s.at, Append(s.size, x)), FALSE)
    BY <2>1, <2>2, <2>4, PlainIn
  <2> QED
    BY <1>1, <1>4, <1>11, <2>3, <2>5, Zenon
<1> QED
  BY <1>10, <1>11

\* What is parsed can be written in the bytes it was parsed from.
NotLonger(p, sd) ==
    \E need, sum, off \in Nat :
        /\ need = Shortest(p.size, sd) /\ sum = SumSeq(p.size) /\ off = p.offset
        /\ off >= 1 /\ need <= off + sum /\ need >= 1
        /\ off + sum <= p.packet_offset

LEMMA NeverLonger ==
    ASSUME NEW data \in Seq(Nat), NEW sd \in BOOLEAN, Parse(data, sd) # Invalid
    PROVE  NotLonger(Parse(data, sd), sd)
<1>1. PICK p : p = Parse(data, sd) /\ ParseFor(data, sd, p)
  BY ParseFits
<1>2. PICK c : HeaderIn(c, p, sd) /\ CountedAt(c)
  BY <1>1, ParseIn
<1>3. PICK m \in Nat, b \in Nat, a \in Nat, off \in Nat :
         /\ SizeBytesIn(p.size, m) /\ SelfBytes(p.size, sd, b)
         /\ a = c.at /\ off = p.offset /\ a + m + b <= off /\ p.ret = c.count
  BY <1>2 DEF HeaderIn
<1>4. PICK size \in Seq(Nat), n \in Nat :
         size = p.size /\ n = p.ret /\ n >= 1 /\ Len(size) = n /\ off + SumSeq(size) <= p.packet_offset
  BY <1>1, <1>3 DEF ParseFor
<1>5. PICK sum \in Nat : sum = SumSeq(size)
  <2>1. \A i \in 1 .. n : size[i] \in Nat
    BY <1>4
  <2>2. SumSeq(size) = Total(size, n)
    BY <1>4, SumSeqIs
  <2>3. n \in 0 .. n
    OBVIOUS
  <2>4. Total(size, n) \in Nat
    BY <2>1, <2>3, TotalGrows
  <2> QED
    BY <2>2, <2>4
<1>6. Adds(size, n, sum)
  BY <1>4, <1>5, Zenon DEF Adds
<1>7. SizeBytesIn(size, m) /\ SelfBytes(size, sd, b)
  BY <1>3, <1>4, Zenon
<1>8. Shortest(size, sd) = b + sum + m + (IF n <= 2 THEN 1 ELSE 2)
  <2>1. Costs(size, sd, n, b + sum + m)
    BY <1>4, <1>6, <1>7, ShortestIs
  <2> QED
    BY <2>1, Zenon DEF Costs
<1>9. a >= 1 /\ (n > 2 => a >= 2)
  BY <1>2, <1>3, <1>4 DEF CountedAt
<1>10. PICK need \in Nat : need = b + sum + m + (IF n <= 2 THEN 1 ELSE 2)
  OBVIOUS
<1>11. need <= off + sum /\ off >= 1 /\ need >= 1
  BY <1>3, <1>9, <1>10, SMTT(30)
<1>12. need = Shortest(p.size, sd) /\ sum = SumSeq(p.size) /\ off + sum <= p.packet_offset
  BY <1>4, <1>5, <1>8, <1>10, Zenon
<1> QED
  BY <1>1, <1>3, <1>11, <1>12, Zenon DEF NotLonger

\* Self-delimited, it takes the size of its last frame more.
LEMMA DelimitedCosts ==
    ASSUME NEW size \in Seq(Nat), NEW n \in Nat, NEW sum \in Nat, Adds(size, n, sum), n >= 1,
           NEW x \in Nat, NEW y \in Nat, x = Shortest(size, FALSE), y = Shortest(size, TRUE)
    PROVE  y <= x + 2 /\ (sum < Esc => y <= x + 1)
<1>1. Len(size) = n /\ SumSeq(size) = sum /\ size # <<>>
  BY DEF Adds
<1>2. PICK z \in Nat : z = size[Len(size)] /\ z <= sum
  <2>1. PICK k \in Nat : k + 1 = n /\ k = n - 1
    <3>1. n - 1 \in Nat /\ (n - 1) + 1 = n
      OBVIOUS
    <3> QED
      BY <3>1
  <2>2. \A i \in 1 .. n : size[i] \in Nat
    BY <1>1
  <2>3. SumSeq(size) = Total(size, n)
    BY <1>1, SumSeqIs
  <2>4. k \in 0 .. n - 1 /\ k \in 0 .. n /\ n \in 1 .. n
    BY <2>1
  <2>5. PICK t \in Nat : t = Total(size, k)
    BY <2>2, <2>4, TotalGrows
  <2>6. Total(size, k + 1) = Total(size, k) + size[k + 1]
    <3>1. \A i \in 1 .. n : size[i] \in Int
      BY <2>2
    <3> QED
      BY <2>4, <3>1, TotalStep
  <2>7. PICK z \in Nat : z = size[n]
    BY <2>2, <2>4
  <2>8. sum = t + z
    BY <1>1, <2>1, <2>3, <2>5, <2>6, <2>7, Zenon
  <2>9. z <= sum
    BY <2>8
  <2> QED
    BY <1>1, <2>7, <2>9, Zenon
<1>3. PICK e \in Nat : e = Len(EncodeSize(z)) /\ e <= 2 /\ (z < Esc => e <= 1)
  <2>1. PICK e : e = Len(EncodeSize(z))
    OBVIOUS
  <2>2. (e = 1 \/ e = 2) /\ (z < Esc => e = 1)
    BY <2>1, EncodedSize, Zenon
  <2>3. e \in Nat /\ e <= 2 /\ (e = 1 => e <= 1)
    BY <2>2
  <2> QED
    BY <2>1, <2>2, <2>3, Zenon
<1>4. SelfBytes(size, TRUE, e)
  BY <1>2, <1>3, Zenon DEF SelfBytes, SelfSize
<1>5. SelfBytes(size, FALSE, 0)
  BY DEF SelfBytes, SelfSize
<1>6. PICK m \in Nat : SizeBytesIn(size, m)
  <2>1. PICK m : m = IF Vbr(size) THEN Len(EncodedSizes(AllButLast(size))) ELSE 0
    OBVIOUS
  <2>2. AllButLast(size) \in Seq(Nat)
    <3>1. PICK k \in Nat : k = n - 1 /\ 0 + k <= Len(size)
      BY <1>1
    <3>2. SubSeq(size, 0 + 1, 0 + k) \in Seq(Nat)
      BY <3>1, PartOf
    <3>3. 0 + 1 = 1 /\ 0 + k = Len(size) - 1
      BY <1>1, <3>1
    <3> QED
      BY <3>2, <3>3, Zenon DEF AllButLast
  <2>3. Len(EncodedSizes(AllButLast(size))) \in Nat
    <3>1. PICK k \in Nat : k = Len(AllButLast(size))
      BY <2>2
    <3> QED
      BY <2>2, <3>1, EncodedFits
  <2>4. m \in Nat
    BY <2>1, <2>3
  <2> QED
    BY <2>1, <2>4, Zenon DEF SizeBytesIn
<1>7. 0 \in Nat /\ TRUE \in BOOLEAN /\ FALSE \in BOOLEAN
  OBVIOUS
<1>8. /\ Shortest(size, TRUE) = e + sum + m + (IF n <= 2 THEN 1 ELSE 2)
      /\ Shortest(size, FALSE) = 0 + sum + m + (IF n <= 2 THEN 1 ELSE 2)
  <2>1. Costs(size, TRUE, n, e + sum + m)
    BY <1>3, <1>4, <1>6, <1>7, ShortestIs
  <2>2. Costs(size, FALSE, n, 0 + sum + m)
    BY <1>5, <1>6, <1>7, ShortestIs
  <2> QED
    BY <2>1, <2>2, Zenon DEF Costs
<1>9. PICK k \in Nat : k = IF n <= 2 THEN 1 ELSE 2
  OBVIOUS
<1>12. \A v \in Nat : v = 0 + sum + m + k => e + sum + m + k <= v + 2 /\ (e <= 1 => e + sum + m + k <= v + 1)
  BY <1>3
<1>10. y = e + sum + m + k /\ x = 0 + sum + m + k
  BY <1>8, <1>9, Zenon
<1>11. sum < Esc => z < Esc
  <2>1. PICK E \in Nat : E = Esc
    BY EscIs
  <2>2. sum < E => z < E
    BY <1>2
  <2> QED
    BY <2>1, <2>2, Zenon
<1> QED
  BY <1>3, <1>10, <1>11, <1>12, Zenon

-----------------------------------------------------------------------------
(* The room that is kept back                                              *)

\* What k streams need at least.
Extra(setup, k) == IF setup.ms = 100 THEN k ELSE 0
Needed(setup, k) == Max({0, 2 * k - 1}) + Extra(setup, k)

Needs(setup, k, x, y) ==
    /\ x = Max({0, 2 * k - 1}) /\ y = Extra(setup, k)
    /\ k = 0 => x = 0 /\ y = 0
    /\ k > 0 => x = 2 * k - 1
    /\ setup.ms = 100 => y = k
    /\ setup.ms # 100 => y = 0

LEMMA NeedsIs ==
    ASSUME NEW setup, NEW k \in Nat
    PROVE  \E x \in Nat, y \in Nat : Needs(setup, k, x, y)
<1>1. PICK y \in Nat : y = Extra(setup, k) /\ (setup.ms = 100 => y = k) /\ (setup.ms # 100 => y = 0)
  BY DEF Extra
<1>2. PICK z \in Int : z = 2 * k - 1
  OBVIOUS
<1>3. PICK x \in Nat : x = Max({0, z}) /\ (k = 0 => x = 0) /\ (k > 0 => x = z)
  <2>1. CASE k = 0
    <3>1. {0, z} = {0, -1} /\ z = -1
      BY <1>2, <2>1
    <3>2. Max({0, -1}) = 0
      BY SMT DEF Max
    <3> QED
      BY <2>1, <3>1, <3>2
  <2>2. CASE k > 0
    <3>1. z \in Nat
      BY <1>2, <2>2
    <3>2. {0, z} \in SUBSET Nat /\ {0, z} # {} /\ (\A v \in {0, z} : v <= z) /\ z \in {0, z}
      BY <3>1
    <3>3. Max({0, z}) \in {0, z} /\ \A v \in {0, z} : v <= Max({0, z})
      BY <3>1, <3>2, MaxIs
    <3>4. Max({0, z}) = z
      BY <3>1, <3>3
    <3> QED
      BY <2>2, <3>1, <3>4
  <2> QED
    BY <2>1, <2>2
<1>4. (k = 0 => y = 0) /\ (k > 0 => x = 2 * k - 1)
  BY <1>1, <1>2, <1>3
<1>5. x = Max({0, 2 * k - 1})
  BY <1>2, <1>3, Zenon
<1> QED
  BY <1>1, <1>3, <1>4, <1>5, Zenon DEF Needs

\* The room of the stream before `later' others: left of the budget, most of it, all that
\* the codec may use.
RoomOf(later, left, most, all) ==
    /\ most <= left /\ (most = left \/ most >= 36)
    /\ later = 0 => all = most
    /\ later > 0 => /\ most > Esc + 1 => all = most - 2
                    /\ most <= Esc + 1 => all = most - 1

OfEncoder(n, b) == n = enc.streams /\ b = enc.budget

HasRoom(later, left, s, tot) ==
    \E most \in Nat, all \in Int : all = CurrMax(s, tot) /\ RoomOf(later, left, most, all)

LEMMA CurrMaxIs ==
    ASSUME NEW n \in Nat, NEW b \in Nat, OfEncoder(n, b), NEW s \in Nat,
           NEW tot \in Nat, NEW later \in Nat, later + s + 1 = n,
           NEW x \in Nat, NEW y \in Nat, Needs(enc.setup, later, x, y),
           NEW left \in Nat, left + tot + x + y = b
    PROVE  HasRoom(later, left, s, tot)
<1>1. enc.streams - s - 1 = later
  <2>1. n - s - 1 = later
    OBVIOUS
  <2> QED
    BY <2>1, Zenon DEF OfEncoder
<1>2. enc.budget - tot - Max({0, 2 * later - 1}) - (IF enc.setup.ms = 100 THEN later ELSE 0) = left
  <2>1. x = Max({0, 2 * later - 1}) /\ y = IF enc.setup.ms = 100 THEN later ELSE 0
    BY Zenon DEF Needs, Extra
  <2>2. b - tot - x - y = left
    OBVIOUS
  <2> QED
    BY <2>1, <2>2, Zenon DEF OfEncoder
<1>3. PICK big \in Nat : big = 6 * MaxFrame + 12 /\ big >= 36
  <2>1. PICK M \in Nat : M = MaxFrame /\ M >= 4
    BY PacketAssumption, EscIs
  <2>2. 6 * M + 12 \in Nat /\ 6 * M + 12 >= 36
    BY <2>1
  <2> QED
    BY <2>1, <2>2, Zenon
<1>4. PICK most \in Nat : most = Min({left, big}) /\ most <= left /\ (most = left \/ most = big)
  <2>1. {left, big} \in SUBSET Nat /\ {left, big} # {}
    OBVIOUS
  <2>2. Min({left, big}) \in {left, big} /\ \A v \in {left, big} : Min({left, big}) <= v
    BY <2>1, MinIs
  <2> QED
    BY <2>2
<1>5. CurrMax(s, tot) = most - IF later = 0 THEN 0 ELSE IF most > Esc + 1 THEN 2 ELSE 1
  BY <1>1, <1>2, <1>3, <1>4, Zenon DEF CurrMax
<1>6. PICK E \in Nat : E = Esc
  BY EscIs
<1>7. PICK t \in Int : t = most - IF later = 0 THEN 0 ELSE IF most > E + 1 THEN 2 ELSE 1
  OBVIOUS
<1>8. /\ later = 0 => t = most
      /\ later > 0 => /\ most > E + 1 => t = most - 2
                      /\ most <= E + 1 => t = most - 1
  BY <1>7
<1>9. CurrMax(s, tot) = t
  BY <1>5, <1>6, <1>7, Zenon
<1>10. most = left \/ most >= 36
  BY <1>3, <1>4
<1> QED
  BY <1>4, <1>6, <1>8, <1>9, <1>10, Zenon DEF RoomOf, HasRoom

\* A packet that is not the last takes a size more.
LittleMore(later, sum, x, short) ==
    /\ later = 0 => short = x
    /\ later > 0 => short <= x + 2 /\ (sum < Esc => short <= x + 1)

\* What is written of a packet fits what is left, and what is kept back stays.
LEMMA CoreFits ==
    ASSUME NEW later \in Nat, NEW left \in Nat, NEW most \in Nat, NEW all \in Int,
           RoomOf(later, left, most, all), NEW len \in Nat, len <= all,
           NEW x \in Nat, NEW sum \in Nat, x <= len, sum + 1 <= len,
           NEW short \in Nat, LittleMore(later, sum, x, short)
    PROVE  short <= left
<1>1. PICK E \in Nat : E = Esc
  BY EscIs
<1>2. CASE later = 0
  BY <1>2 DEF RoomOf, LittleMore
<1>3. CASE later > 0 /\ most > E + 1
  BY <1>1, <1>3 DEF RoomOf, LittleMore
<1>4. CASE later > 0 /\ most <= E + 1
  <2>1. all = most - 1 /\ most <= left
    BY <1>1, <1>4 DEF RoomOf
  <2>2. sum < E
    BY <1>4, <2>1
  <2>3. short <= x + 1
    BY <1>1, <1>4, <2>2 DEF LittleMore
  <2> QED
    BY <2>1, <2>3
<1> QED
  BY <1>2, <1>3, <1>4

\* The smallest packet of the codec has room.
LeastLeft(later, left, e) == (later = 0 => left >= 1 + e) /\ (later > 0 => left >= 2 + e)

LEMMA LeastFits ==
    ASSUME NEW later \in Nat, NEW left \in Nat, NEW most \in Nat, NEW all \in Int,
           RoomOf(later, left, most, all), NEW e \in Nat, e <= 1, LeastLeft(later, left, e)
    PROVE  all >= 1 + e
<1>1. PICK E \in Nat : E = Esc /\ E >= 4
  BY EscIs
<1>2. most >= 1 + e /\ (later > 0 => most >= 2 + e)
  BY DEF RoomOf, LeastLeft
<1>3. CASE later = 0
  BY <1>2, <1>3 DEF RoomOf
<1>4. CASE later > 0 /\ most > E + 1
  BY <1>1, <1>2, <1>4 DEF RoomOf
<1>5. CASE later > 0 /\ most <= E + 1
  BY <1>1, <1>2, <1>5 DEF RoomOf
<1> QED
  BY <1>3, <1>4, <1>5

\* What it takes to write a packet again, of what it takes now.
TakesUp(size, len, sum, x, y) ==
    /\ x = Shortest(size, FALSE) /\ y = Shortest(size, TRUE)
    /\ x <= len /\ sum + 1 <= len
    /\ y <= x + 2 /\ (sum < Esc => y <= x + 1)

LEMMA CostsOf ==
    ASSUME NEW p \in Seq(Nat), CanCat(NewRp, p, FALSE), NEW len \in Nat, len = Len(p)
    PROVE  \E sum \in Nat, x \in Nat, y \in Nat : TakesUp(Parse(p, FALSE).size, len, sum, x, y)
<1>1. PICK size \in Seq(Nat), flat \in Seq(Nat), n \in Nat, sum \in Nat :
         n >= 1 /\ Frames(p, Parse(p, FALSE), size, n, sum, flat)
  BY SubmittedIs
<1>2. ParseFor(p, FALSE, Parse(p, FALSE)) /\ size = Parse(p, FALSE).size /\ Adds(size, n, sum)
  BY <1>1 DEF Frames
<1>3. Parse(p, FALSE).packet_offset = len
  BY <1>2 DEF ParseFor
<1>4. Parse(p, FALSE) # Invalid
  <2>1. Parse(p, FALSE).ret \in Nat
    BY <1>2 DEF ParseFor
  <2>2. Invalid.ret \notin Nat
    BY DEF Invalid, INVALID_PACKET
  <2> QED
    BY <2>1, <2>2, Zenon
<1>5. NotLonger(Parse(p, FALSE), FALSE)
  BY <1>4, NeverLonger
<1>6. PICK x \in Nat, sm \in Nat, off \in Nat :
         /\ x = Shortest(size, FALSE) /\ sm = SumSeq(size)
         /\ off >= 1 /\ x <= off + sm /\ off + sm <= len
  BY <1>2, <1>3, <1>5, Zenon DEF NotLonger
<1>7. sm = sum
  BY <1>2, <1>6, Zenon DEF Adds
<1>8. x <= len /\ sum + 1 <= len
  <2>1. \A w \in Nat : off >= 1 /\ x <= off + w /\ off + w <= len => x <= len /\ w + 1 <= len
    OBVIOUS
  <2> QED
    BY <1>6, <1>7, <2>1, Zenon
<1>9. PICK y \in Nat : y = Shortest(size, TRUE)
  <2>1. PICK a \in Nat, c \in Nat : a = Simple(size, TRUE) /\ c = Multiple(size, TRUE)
    BY <1>1, <1>2, OneMore
  <2> QED
    BY <2>1, Zenon DEF Shortest
<1>10. y <= x + 2 /\ (sum < Esc => y <= x + 1)
  BY <1>1, <1>2, <1>6, <1>9, DelimitedCosts
<1> QED
  BY <1>2, <1>6, <1>8, <1>9, <1>10, Zenon DEF TakesUp

\* What the streams written so far, and the least of those to come, leave.
RoomAt(e, x, b, tot, k, s, n, a, c) ==
    /\ b = e.budget /\ tot = Len(x.data) /\ s = Len(x.frames) /\ n = e.streams
    /\ k + s = n /\ Needs(e.setup, k, a, c) /\ tot + a + c <= b
    /\ k = 0 /\ e.setup.cbr = TRUE => tot = b

RoomLeft(e, x) ==
    \E b \in Nat, tot \in Nat, k \in Nat, s \in Nat, n \in Nat, a \in Nat, c \in Nat :
        RoomAt(e, x, b, tot, k, s, n, a, c)

OneLess(setup, later, x, y, a, c) ==
    /\ later = 0 => a = x + 1
    /\ later > 0 => a = x + 2
    /\ setup.ms = 100 => c = y + 1
    /\ setup.ms # 100 => c = y

LEMMA NeedsNext ==
    ASSUME NEW setup, NEW k \in Nat, NEW a \in Nat, NEW c \in Nat, NEW later \in Nat, later + 1 = k,
           NEW x \in Nat, NEW y \in Nat, Needs(setup, k, a, c), Needs(setup, later, x, y)
    PROVE  OneLess(setup, later, x, y, a, c)
<1>1. a = 2 * k - 1 /\ (later = 0 => x = 0) /\ (later > 0 => x = 2 * later - 1)
  BY DEF Needs
<1>2. (setup.ms = 100 => c = k /\ y = later) /\ (setup.ms # 100 => c = 0 /\ y = 0)
  BY Zenon DEF Needs
<1>3. (c = k /\ y = later) => c = y + 1
  OBVIOUS
<1>4. (c = 0 /\ y = 0) => c = y
  OBVIOUS
<1>5. (later = 0 => a = x + 1) /\ (later > 0 => a = x + 2)
  BY <1>1
<1> QED
  BY <1>2, <1>3, <1>4, <1>5, Zenon DEF OneLess

\* What the stream that comes next finds.
Finds(e, x, b, tot, s, n, later, a, c, left) ==
    /\ b = e.budget /\ tot = Len(x.data) /\ s = Len(x.frames) /\ n = e.streams
    /\ later + s + 1 = n /\ Needs(e.setup, later, a, c) /\ left + tot + a + c = b
    /\ \E u \in Nat :
          /\ u <= 1 /\ (e.setup.ms = 100 => u = 1)
          /\ (later = 0 => left >= 1 + u) /\ (later > 0 => left >= 2 + u)

LEMMA RoomFound ==
    ASSUME NEW e, NEW t, RoomLeft(e, t), Len(t.frames) < e.streams
    PROVE  \E b \in Nat, tot \in Nat, s \in Nat, n \in Nat, later \in Nat, a \in Nat, c \in Nat,
              left \in Nat : Finds(e, t, b, tot, s, n, later, a, c, left)
<1>1. PICK b \in Nat, tot \in Nat, k \in Nat, s \in Nat, n \in Nat, a \in Nat, c \in Nat :
         RoomAt(e, t, b, tot, k, s, n, a, c)
  BY Zenon DEF RoomLeft
<1>10. /\ b = e.budget /\ tot = Len(t.data) /\ s = Len(t.frames) /\ n = e.streams
       /\ k + s = n /\ Needs(e.setup, k, a, c)
  BY <1>1, Zenon DEF RoomAt
<1>11. tot + a + c <= b
  BY <1>1, Zenon DEF RoomAt
<1>2. s < n /\ k + s = n
  BY <1>10, Zenon
<1>3. PICK later \in Nat : later + 1 = k
  <2>1. k - 1 \in Nat /\ (k - 1) + 1 = k
    BY <1>2
  <2> QED
    BY <2>1
<1>4. PICK x \in Nat, y \in Nat : Needs(e.setup, later, x, y)
  BY NeedsIs
<1>5. OneLess(e.setup, later, x, y, a, c)
  BY <1>3, <1>4, <1>10, NeedsNext
<1>12. (later = 0 => a = x + 1) /\ (later > 0 => a = x + 2)
  BY <1>5, Zenon DEF OneLess
<1>6. PICK u \in Nat : u <= 1 /\ (e.setup.ms = 100 => u = 1) /\ c = y + u
  <2>1. CASE e.setup.ms = 100
    BY <1>5, <2>1 DEF OneLess
  <2>2. CASE e.setup.ms # 100
    <3>1. c = y + 0
      BY <1>5, <2>2 DEF OneLess
    <3> QED
      BY <2>2, <3>1
  <2> QED
    BY <2>1, <2>2
<1>7. PICK left \in Nat : /\ left + tot + x + y = b
                          /\ (later = 0 => left >= 1 + u) /\ (later > 0 => left >= 2 + u)
  <2>1. PICK l \in Int : l = b - tot - x - y
    OBVIOUS
  <2>2. a = x + 1 \/ a = x + 2
    BY <1>12
  <2>3. l >= (a - x) + u
    <3>1. c = y + u
      BY <1>6
    <3> QED
      BY <1>11, <2>1, <3>1
  <2>4. l \in Nat /\ l + tot + x + y = b
    BY <2>1, <2>2, <2>3
  <2>5. (later = 0 => l >= 1 + u) /\ (later > 0 => l >= 2 + u)
    BY <1>12, <2>3
  <2> QED
    BY <2>4, <2>5
<1>8. later + s + 1 = n
  BY <1>2, <1>3
<1>9. Finds(e, t, b, tot, s, n, later, x, y, left)
  BY <1>4, <1>6, <1>7, <1>8, <1>10, Zenon DEF Finds
<1> QED
  BY <1>9

\* Every stream but the last is self-delimited.
Selves(sd, later) == (sd = TRUE /\ later > 0) \/ (sd = FALSE /\ later = 0)

\* How much is written, and what is left of it.
WidthOf(w, setup, later, room, short) ==
    /\ later = 0 /\ setup.cbr = TRUE => w = room
    /\ later > 0 \/ setup.cbr # TRUE => w = short

Leaves(w, setup, short, room, tot, a, c, b, later) ==
    /\ w \in Nat /\ short <= room /\ tot + w + a + c <= b
    /\ later = 0 /\ setup.cbr = TRUE => tot + w = b

LEMMA WrittenLeaves ==
    ASSUME NEW b \in Nat, NEW tot \in Nat, NEW later \in Nat, NEW a \in Nat, NEW c \in Nat,
           NEW left \in Nat, NEW setup, Needs(setup, later, a, c), left + tot + a + c = b,
           NEW room \in Int, room = b - tot, NEW short \in Nat, short <= left,
           NEW w \in Int, WidthOf(w, setup, later, room, short)
    PROVE  Leaves(w, setup, short, room, tot, a, c, b, later)
<1>1. CASE later = 0
  <2>1. a = 0 /\ c = 0
    BY <1>1, Zenon DEF Needs
  <2>2. room = left
    BY <2>1
  <2>3. CASE setup.cbr = TRUE
    <3>1. w = room
      BY <1>1, <2>3, Zenon DEF WidthOf
    <3>2. w \in Nat /\ short <= room /\ tot + w + a + c <= b /\ tot + w = b
      BY <2>1, <2>2, <3>1
    <3> QED
      BY <3>2, Zenon DEF Leaves
  <2>4. CASE setup.cbr # TRUE
    <3>1. w = short
      BY <2>4, Zenon DEF WidthOf
    <3>2. w \in Nat /\ short <= room /\ tot + w + a + c <= b
      BY <2>1, <2>2, <3>1
    <3> QED
      BY <2>4, <3>2, Zenon DEF Leaves
  <2> QED
    BY <2>3, <2>4
<1>2. CASE later > 0
  <2>1. w = short
    BY <1>2, Zenon DEF WidthOf
  <2>2. w \in Nat /\ short <= room /\ tot + w + a + c <= b /\ ~ (later = 0)
    BY <1>2, <2>1
  <2> QED
    BY <2>2, Zenon DEF Leaves
<1>3. later = 0 \/ later > 0
  OBVIOUS
<1> QED
  BY <1>1, <1>2, <1>3, Zenon

ShortestIn(short, p, later) ==
    /\ later = 0 => short = Shortest(Parse(p, FALSE).size, FALSE)
    /\ later > 0 => short = Shortest(Parse(p, FALSE).size, TRUE)

\* No packet of the codec is too long for what is left.
LEMMA PacketFits ==
    ASSUME NEW p \in Seq(Nat), CanCat(NewRp, p, FALSE),
           NEW b \in Nat, NEW tot \in Nat, NEW s \in Nat, NEW n \in Nat, NEW later \in Nat,
           NEW a \in Nat, NEW c \in Nat, NEW left \in Nat,
           Finds(enc, sent, b, tot, s, n, later, a, c, left),
           Len(p) <= CurrMax(s, tot), NEW short \in Nat, ShortestIn(short, p, later)
    PROVE  short <= left
<1>1. PICK size : size = Parse(p, FALSE).size
  OBVIOUS
<1>2. PICK len \in Nat : len = Len(p)
  OBVIOUS
<1>3. PICK sum \in Nat, x \in Nat, y \in Nat : TakesUp(size, len, sum, x, y)
  BY <1>1, <1>2, CostsOf
<1>4. /\ b = enc.budget /\ n = enc.streams /\ later + s + 1 = n
      /\ Needs(enc.setup, later, a, c) /\ left + tot + a + c = b
  BY Zenon DEF Finds
<1>10. OfEncoder(n, b)
  BY <1>4, Zenon DEF OfEncoder
<1>5. PICK most \in Nat, all \in Int : all = CurrMax(s, tot) /\ RoomOf(later, left, most, all)
  <2>1. HasRoom(later, left, s, tot)
    BY <1>4, <1>10, CurrMaxIs
  <2> QED
    BY <2>1, Zenon DEF HasRoom
<1>6. len <= all
  BY <1>2, <1>5, Zenon
<1>7. x <= len /\ sum + 1 <= len /\ y <= x + 2 /\ (sum < Esc => y <= x + 1)
  BY <1>3, Zenon DEF TakesUp
<1>8. CASE later = 0
  <2>1. ~ (later > 0)
    BY <1>8
  <2>2. short = x
    BY <1>1, <1>3, <1>8, Zenon DEF TakesUp, ShortestIn
  <2>3. LittleMore(later, sum, x, short)
    BY <2>1, <2>2, Zenon DEF LittleMore
  <2> QED
    BY <1>5, <1>6, <1>7, <2>3, CoreFits
<1>9. CASE later > 0
  <2>1. ~ (later = 0)
    BY <1>9
  <2>2. short = y
    BY <1>1, <1>3, <1>9, Zenon DEF TakesUp, ShortestIn
  <2>3. short <= x + 2 /\ (sum < Esc => short <= x + 1)
    BY <1>7, <2>2, Zenon
  <2>4. LittleMore(later, sum, x, short)
    BY <2>1, <2>3, Zenon DEF LittleMore
  <2> QED
    BY <1>5, <1>6, <1>7, <2>4, CoreFits
<1> QED
  BY <1>8, <1>9

\* The loop leaves the room that it keeps back, and writes every packet.
LEMMA RoomStep ==
    ASSUME SentType(sent), enc # None => IsEncoder(enc), RoomLeft(enc, sent), NEW p, EncodeStream(p)
    PROVE  RoomLeft(enc, sent)' /\ op'.ret >= 0
<1>1. PICK l : \E setup \in Setups, n \in Nat, s \in Nat, data \in Seq(Nat) :
         At(setup, l, n, s, data) /\ p \in Seq(Nat) /\ CanCat(NewRp, p, FALSE)
  BY StreamAt, Zenon
<1>2. PICK setup \in Setups, n \in Nat, s \in Nat, data \in Seq(Nat) :
         At(setup, l, n, s, data) /\ p \in Seq(Nat) /\ CanCat(NewRp, p, FALSE)
  BY <1>1, Zenon
<1>3. /\ setup = enc.setup /\ n = enc.streams /\ s = Len(sent.frames) /\ s < n /\ data = sent.data
  BY <1>2, Zenon DEF At
<1>4. PICK b \in Nat, tot \in Nat, ss \in Nat, nn \in Nat, later \in Nat, a \in Nat, c \in Nat,
            left \in Nat : Finds(enc, sent, b, tot, ss, nn, later, a, c, left)
  <2>1. Len(sent.frames) < enc.streams
    BY <1>3, Zenon
  <2> QED
    BY <2>1, RoomFound
<1>5. /\ ss = s /\ nn = n /\ tot = Len(data) /\ b = enc.budget
      /\ later + s + 1 = n /\ Needs(setup, later, a, c) /\ left + tot + a + c = b
  BY <1>3, <1>4, Zenon DEF Finds
<1>6. PICK room \in Int : room = b - tot
  OBVIOUS
<1>7. LeftOver(room, data)
  BY <1>5, <1>6, Zenon DEF LeftOver
<1>8. PICK sd \in BOOLEAN : Delimits(sd, s, n) /\ Selves(sd, later)
  <2>1. CASE later > 0
    <3>1. s # n - 1
      BY <1>5, <2>1
    <3> QED
      BY <2>1, <3>1 DEF Delimits, Selves
  <2>2. CASE later = 0
    <3>1. s = n - 1
      BY <1>5, <2>2
    <3> QED
      BY <2>2, <3>1 DEF Delimits, Selves
  <2> QED
    BY <2>1, <2>2
<1>9. PICK cbr \in BOOLEAN : cbr = setup.cbr
  BY SetupAssumption
<1>10. StreamSends(p, setup, data, s, sd, room)
  BY <1>2, <1>7, <1>8, <1>9, EncodeIs
<1>11. PICK short \in Nat :
          /\ short = Shortest(Parse(p, FALSE).size, sd)
          /\ Sends(data, sent'.data, op'.ret, short, room, IF setup.cbr /\ ~ sd THEN room ELSE short)
  BY <1>10, Zenon DEF StreamSends
<1>12. Len(p) <= CurrMax(s, tot)
  BY <1>3, <1>5, Zenon DEF EncodeStream
<1>13. short <= left
  <2>1. Finds(enc, sent, b, tot, s, n, later, a, c, left)
    BY <1>4, <1>5, Zenon
  <2>2. ShortestIn(short, p, later)
    <3>1. ~ (later = 0 /\ later > 0)
      OBVIOUS
    <3> QED
      BY <1>8, <1>11, <3>1, Zenon DEF ShortestIn, Selves
  <2> QED
    BY <1>2, <1>12, <2>1, <2>2, PacketFits
<1>14. PICK w \in Int : WidthOf(w, setup, later, room, short)
                      /\ w = IF cbr /\ ~ sd THEN room ELSE short
  <2>1. PICK w \in Int : w = IF cbr /\ ~ sd THEN room ELSE short
    OBVIOUS
  <2>2. ~ (later = 0 /\ later > 0)
    OBVIOUS
  <2>3. WidthOf(w, setup, later, room, short)
    BY <1>8, <1>9, <2>1, <2>2, Zenon DEF WidthOf, Selves
  <2> QED
    BY <2>1, <2>3
<1>15. /\ w \in Nat /\ short <= room /\ tot + w + a + c <= b
       /\ later = 0 /\ cbr = TRUE => tot + w = b
  <2>1. Needs(setup, later, a, c) /\ left + tot + a + c = b
    BY <1>5, Zenon
  <2> QED
    <3>1. Leaves(w, setup, short, room, tot, a, c, b, later)
      BY <1>6, <1>13, <1>14, <2>1, WrittenLeaves
    <3> QED
      BY <1>9, <3>1, Zenon DEF Leaves
<1>16. op'.ret >= 0 /\ Len(sent'.data) = Len(data) + w
  BY <1>9, <1>11, <1>14, <1>15, Zenon DEF Sends
<1>17. Len(sent'.frames) = s + 1
  BY <1>10, ZenonT(40) DEF StreamSends
<1>18. enc' = enc
  BY Zenon DEF EncodeStream
<1>19. PICK t \in Nat, u \in Nat : t = tot + w /\ u = s + 1 /\ later + u = n /\ t + a + c <= b
                                /\ (later = 0 /\ cbr = TRUE => t = b)
  <2>1. tot + w \in Nat /\ s + 1 \in Nat /\ later + (s + 1) = n
    BY <1>5, <1>15
  <2> QED
    BY <1>15, <2>1, Zenon
<1>20. RoomAt(enc', sent', b, t, later, u, n, a, c)
  BY <1>3, <1>5, <1>9, <1>16, <1>17, <1>18, <1>19, Zenon DEF RoomAt
<1>21. RoomLeft(enc, sent)'
  <2>1. RoomLeft(enc', sent')
    BY <1>20, Zenon DEF RoomLeft
  <2> QED
    BY <2>1, Zenon DEF RoomLeft, RoomAt
<1> QED
  BY <1>16, <1>21

\* Nothing is written before there is an encoder.
BudgetInv ==
    /\ enc = None => Len(sent.frames) = 0 /\ Len(sent.data) = 0
    /\ enc # None /\ FrameAllowed(enc.setup) =>
          RoomLeft(enc, sent) /\ (op.call = "encode" => op.ret >= 0)

LEMMA BudgetSame ==
    ASSUME BudgetInv, enc' = enc, sent' = sent,
           op' = op \/ op'.call # "encode" \/ enc = None \/ ~ FrameAllowed(enc.setup)
    PROVE  BudgetInv'
<1>1. FrameAllowed(enc.setup)' = FrameAllowed(enc.setup)
  BY Zenon DEF FrameAllowed
<1>2. RoomLeft(enc, sent) => RoomLeft(enc', sent')
  BY Zenon
<1>3. RoomLeft(enc', sent') => RoomLeft(enc, sent)'
  BY Zenon DEF RoomLeft, RoomAt
<1> QED
  BY <1>1, <1>2, <1>3, Zenon DEF BudgetInv

LEMMA BudgetStart ==
    ASSUME BudgetInv, EncoderInv, NEW setup \in Setups, EncInit(setup)
    PROVE  BudgetInv'
<1>1. enc = None /\ sent' = sent /\ op'.call = "enc_init"
  BY DEF EncInit
<1>2. Len(sent.frames) = 0 /\ Len(sent.data) = 0
  BY <1>1 DEF BudgetInv
<1>3. PICK l : l = LayoutOf(setup)
  OBVIOUS
<1>4. enc' = IF Accepted(setup, l) THEN EncOf(setup, l) ELSE None
  BY <1>3, Zenon DEF EncInit, LayoutOf, EncOf
<1>5. CASE ~ Accepted(setup, l)
  <2>1. enc' = None
    BY <1>4, <1>5, Zenon
  <2>2. enc' = enc
    BY <1>1, <2>1
  <2> QED
    BY <1>1, <2>2, BudgetSame
<1>6. CASE Accepted(setup, l)
  <2>1. enc' = EncOf(setup, l)
    BY <1>4, <1>6, Zenon
  <2>2. enc'.setup = setup /\ enc'.streams = l.streams /\ enc'.budget = Budget(setup, l)
    BY <2>1 DEF EncOf
  <2>3. PICK n \in Nat : n = l.streams /\ n >= 1
    BY <1>3, <1>6, LayoutOfIs DEF LayoutFor
  <2>4. enc' # None
    BY <2>2, <2>3 DEF None
  <2>5. ASSUME FrameAllowed(setup) PROVE RoomLeft(enc', sent')
    <3>1. PICK b \in Nat, m \in Nat : b = Budget(setup, l) /\ m = Smallest(setup, l) /\ m <= b
      <4>1. Accepted(setup, LayoutOf(setup))
        BY <1>3, <1>6, Zenon
      <4> QED
        BY <1>3, <2>5, <4>1, BudgetIs
    <3>2. PICK a \in Nat, c \in Nat : Needs(setup, n, a, c)
      BY NeedsIs
    <3>3. a = 2 * n - 1
      BY <2>3, <3>2 DEF Needs
    <3>4. c = IF setup.ms = 100 THEN n ELSE 0
      BY <3>2, Zenon DEF Needs
    <3>5. m = 2 * n - 1 + IF setup.ms = 100 THEN n ELSE 0
      BY <2>3, <3>1, Zenon DEF Smallest
    <3>6. 0 + a + c <= b /\ n + 0 = n /\ 0 \in Nat /\ ~ (n = 0)
      <4>1. m = a + c
        BY <3>3, <3>4, <3>5, Zenon
      <4> QED
        BY <2>3, <3>1, <4>1
    <3>7. RoomAt(enc', sent', b, 0, n, 0, n, a, c)
      BY <1>1, <1>2, <2>2, <2>3, <3>1, <3>2, <3>6, Zenon DEF RoomAt
    <3> QED
      BY <3>6, <3>7, Zenon DEF RoomLeft
  <2>6. FrameAllowed(enc.setup)' => FrameAllowed(setup)
    BY <2>2, ZenonT(40) DEF FrameAllowed
  <2>7. RoomLeft(enc', sent') => RoomLeft(enc, sent)'
    BY Zenon DEF RoomLeft, RoomAt
  <2> QED
    BY <1>1, <2>4, <2>5, <2>6, <2>7, Zenon DEF BudgetInv
<1> QED
  BY <1>5, <1>6

LEMMA BudgetStep ==
    ASSUME BudgetInv, EncoderInv, NEW p, EncodeStream(p)
    PROVE  BudgetInv'
<1>1. enc # None /\ FrameAllowed(enc.setup) /\ enc' = enc
  BY Zenon DEF EncodeStream
<1>2. RoomLeft(enc, sent) /\ SentType(sent) /\ (enc # None => IsEncoder(enc))
  BY <1>1 DEF BudgetInv, EncoderInv
<1>3. RoomLeft(enc, sent)' /\ op'.ret >= 0
  BY <1>2, RoomStep
<1>4. ~ (enc = None)'
  BY <1>1
<1> QED
  BY <1>3, <1>4, Zenon DEF BudgetInv

LEMMA BudgetGoesOn ==
    ASSUME BudgetInv, EncoderInv, Encoder \/ OwnDecoder \/ ForeignDecoder
    PROVE  BudgetInv'
<1>1. ASSUME EncodeRefused PROVE BudgetInv'
  <2>1. enc' = enc /\ sent' = sent /\ ~ FrameAllowed(enc.setup)
    BY <1>1 DEF EncodeRefused, msVars
  <2> QED
    BY <2>1, BudgetSame
<1>2. ASSUME NEW p, Decode(p) PROVE BudgetInv'
  <2>1. enc' = enc /\ sent' = sent /\ op'.call # "encode"
    BY <1>2 DEF Decode, msVars
  <2> QED
    BY <2>1, BudgetSame
<1>3. ASSUME NEW p, Header(p) PROVE BudgetInv'
  <2>1. enc' = enc /\ sent' = sent /\ op'.call # "encode"
    BY <1>3 DEF Header
  <2> QED
    BY <2>1, BudgetSame
<1>4. CASE Encoder
  BY <1>1, <1>4, BudgetStart, BudgetStep DEF Encoder
<1>5. CASE OwnDecoder
  <2>1. Decode(sent.data) \/ Header(HeaderBytes(enc.header))
    BY <1>5, Zenon DEF OwnDecoder
  <2> QED
    BY <1>2, <1>3, <2>1, Zenon
<1>6. CASE ForeignDecoder
  <2>1. (\E p : Header(p)) \/ (\E p : Decode(p))
    BY <1>6, Zenon DEF ForeignDecoder
  <2> QED
    BY <1>2, <1>3, <2>1, Zenon
<1> QED
  BY <1>4, <1>5, <1>6

LEMMA BudgetKept == BudgetInv /\ EncoderInv /\ [MSNext]_allVars => BudgetInv'
<1>1. ASSUME BudgetInv, UNCHANGED allVars PROVE BudgetInv'
  <2>1. enc' = enc /\ op' = op /\ sent' = sent
    BY <1>1 DEF allVars, vars, msVars
  <2> QED
    BY <1>1, <2>1, BudgetSame
<1>2. ASSUME BudgetInv, Tools PROVE BudgetInv'
  <2>1. enc' = enc /\ sent' = sent /\ enc = None
    BY <1>2 DEF Tools, Start, msVars
  <2> QED
    BY <1>2, <2>1, BudgetSame
<1> QED
  BY <1>1, <1>2, BudgetGoesOn DEF MSNext

\* The codec has room for its smallest packet.
LEMMA SmallestFits ==
    ASSUME RoomLeft(enc, sent), Len(sent.frames) < enc.streams
    PROVE  CurrMax(Len(sent.frames), Len(sent.data)) >= IF enc.setup.ms = 100 THEN 2 ELSE 1
<1>1. PICK b \in Nat, tot \in Nat, s \in Nat, n \in Nat, later \in Nat, a \in Nat, c \in Nat,
            left \in Nat : Finds(enc, sent, b, tot, s, n, later, a, c, left)
  BY RoomFound
<1>2. /\ b = enc.budget /\ tot = Len(sent.data) /\ s = Len(sent.frames) /\ n = enc.streams
      /\ later + s + 1 = n /\ Needs(enc.setup, later, a, c) /\ left + tot + a + c = b
  BY <1>1, Zenon DEF Finds
<1>3. PICK u \in Nat : /\ u <= 1 /\ (enc.setup.ms = 100 => u = 1)
                       /\ (later = 0 => left >= 1 + u) /\ (later > 0 => left >= 2 + u)
  BY <1>1, Zenon DEF Finds
<1>4. OfEncoder(n, b)
  BY <1>2, Zenon DEF OfEncoder
<1>5. HasRoom(later, left, s, tot)
  BY <1>2, <1>4, CurrMaxIs
<1>6. PICK most \in Nat, all \in Int : all = CurrMax(s, tot) /\ RoomOf(later, left, most, all)
  BY <1>5, Zenon DEF HasRoom
<1>7. all >= 1 + u
  <2>1. LeastLeft(later, left, u)
    BY <1>3, Zenon DEF LeastLeft
  <2> QED
    BY <1>3, <1>6, <2>1, LeastFits
<1>8. PICK v \in Nat : v = (IF enc.setup.ms = 100 THEN 2 ELSE 1) /\ v <= 1 + u
  BY <1>3
<1>9. all >= v
  BY <1>7, <1>8
<1> QED
  BY <1>2, <1>6, <1>8, <1>9, Zenon

LEMMA BudgetSuffices == ASSUME BudgetInv, EncoderInv PROVE EncodeFits
<1> SUFFICES ASSUME enc # None, FrameAllowed(enc.setup)
             PROVE  /\ op.call = "encode" => op.ret >= 0
                    /\ Len(sent.data) <= enc.budget
                    /\ ~ EncoderDone => CurrMax(Len(sent.frames), Len(sent.data))
                                           >= IF enc.setup.ms = 100 THEN 2 ELSE 1
                    /\ EncoderDone /\ enc.setup.cbr => Len(sent.data) = enc.budget
  BY DEF EncodeFits
<1>1. RoomLeft(enc, sent) /\ (op.call = "encode" => op.ret >= 0)
  BY DEF BudgetInv
<1>2. PICK b \in Nat, tot \in Nat, k \in Nat, s \in Nat, n \in Nat, a \in Nat, c \in Nat :
         RoomAt(enc, sent, b, tot, k, s, n, a, c)
  BY <1>1, Zenon DEF RoomLeft
<1>3. /\ b = enc.budget /\ tot = Len(sent.data) /\ s = Len(sent.frames) /\ n = enc.streams
      /\ k + s = n /\ tot + a + c <= b /\ (k = 0 /\ enc.setup.cbr = TRUE => tot = b)
  BY <1>2, Zenon DEF RoomAt
<1>4. tot <= b
  <2>1. tot + a + c <= b
    BY <1>3
  <2> QED
    BY <2>1
<1>5. ~ EncoderDone => Len(sent.frames) < enc.streams
  <2>1. s # n => s < n
    <3>1. k + s = n
      BY <1>3
    <3> QED
      BY <3>1
  <2> QED
    BY <1>3, <2>1, Zenon DEF EncoderDone
<1>6. EncoderDone => k = 0
  <2>1. s = n => k = 0
    <3>1. k + s = n
      BY <1>3
    <3> QED
      BY <3>1
  <2> QED
    BY <1>3, <2>1, Zenon DEF EncoderDone
<1>7. enc.setup.cbr => enc.setup.cbr = TRUE
  <2>1. PICK setup \in Setups : enc = EncOf(setup, LayoutOf(setup))
    BY DEF EncoderInv, IsEncoder
  <2>2. enc.setup = setup
    BY <2>1 DEF EncOf
  <2>3. enc.setup.cbr \in BOOLEAN
    BY <2>2, SetupAssumption
  <2> QED
    BY <2>3
<1> QED
  BY <1>1, <1>3, <1>4, <1>5, <1>6, <1>7, SmallestFits, Zenon

\* However many streams there are and whatever packets the codec makes, each is
\* written, leaves the ones to come the room they need at least, and all of them
\* together stay within the budget, or fill it at a constant bit rate.
THEOREM StreamsFitBudget == MSSpec => []EncodeFits
<1>1. MSInit => BudgetInv
  <2>1. Len(<<>>) = 0
    OBVIOUS
  <2> QED
    BY <2>1 DEF MSInit, BudgetInv
<1>2. StreamInv => EncoderInv
  BY DEF StreamInv
<1> QED
  BY <1>1, <1>2, StreamStart, StreamKept, BudgetKept, BudgetSuffices, PTL DEF MSSpec

-----------------------------------------------------------------------------
(* What parses is accepted                                                 *)

\* A packet that parses: what it says of itself.
LEMMA ValidIs ==
    ASSUME NEW data \in Seq(Nat), NEW sd \in BOOLEAN, Parse(data, sd) # Invalid
    PROVE  /\ ParseFor(data, sd, Parse(data, sd)) /\ data # <<>> /\ data[1] \in Nat
           /\ CanCat(NewRp, data, sd)
<1>1. PICK p : p = Parse(data, sd) /\ ParseFor(data, sd, p)
  BY ParseFits
<1>2. data # <<>>
  BY DEF Parse
<1>3. data[1] \in Nat
  BY <1>2
<1>4. PICK n \in Nat : n = p.ret /\ n = NbFrames(data) /\ n >= 1 /\ UpTo120ms(data, n)
  BY <1>1 DEF ParseFor
<1>5. PICK S \in Nat : S = SamplesPerFrame(data[1], 8000) /\ SamplesPerFrame(data[1], 48000) = 6 * S
  <2>1. PICK t \in Nat : t = data[1]
    BY <1>3
  <2>2. PICK S : S = SamplesPerFrame(t, 8000)
    OBVIOUS
  <2>3. S \in {20, 40, 80, 160, 320, 480} /\ SamplesPerFrame(t, 48000) = 6 * S
    BY <2>2, FrameLength
  <2>4. S \in Nat
    BY <2>3
  <2> QED
    BY <2>1, <2>2, <2>3, <2>4
<1>6. (n + 0) * S <= 960
  <2>1. (6 * S) * n <= 5760
    BY <1>4, <1>5 DEF UpTo120ms
  <2>2. (6 * S) * n = 6 * ((n + 0) * S)
    OBVIOUS
  <2>3. (n + 0) * S \in Nat
    OBVIOUS
  <2> QED
    BY <2>1, <2>2, <2>3
<1>7. NewRp.frames = <<>> /\ Len(<<>>) = 0
  BY DEF NewRp
<1>8. Toc(NewRp, data) = data[1] /\ FrameSize(NewRp, data) = S
  BY <1>5, <1>7 DEF Toc, FrameSize
<1>9. Fits(NewRp, data)
  BY <1>4, <1>6, <1>7, <1>8, ZenonT(40) DEF Fits
<1>10. NbFrames(data) >= 1 /\ p.ret >= 1
  BY <1>4
<1> QED
  BY <1>1, <1>2, <1>3, <1>8, <1>9, <1>10, Zenon DEF CanCat

\* ret says whether it parsed.
LEMMA ValidRet ==
    ASSUME NEW data \in Seq(Nat), NEW sd \in BOOLEAN
    PROVE  /\ Parse(data, sd).ret > 0 => Parse(data, sd) # Invalid
           /\ ~ (Parse(data, sd).ret < 0) => Parse(data, sd) # Invalid
           /\ Parse(data, sd) # Invalid => Parse(data, sd).ret > 0 /\ ~ (Parse(data, sd).ret < 0)
<1>1. Invalid.ret = -4
  BY DEF Invalid, INVALID_PACKET
<1>2. PICK p : p = Parse(data, sd)
  OBVIOUS
<1>3. ASSUME p = Invalid PROVE ~ (p.ret > 0) /\ p.ret < 0
  <2>1. p.ret = -4
    BY <1>1, <1>3
  <2> QED
    BY <2>1
<1>4. ASSUME p # Invalid PROVE p.ret > 0 /\ ~ (p.ret < 0)
  <2>1. ParseFor(data, sd, p)
    BY <1>2, <1>4, ParseFits
  <2>2. p.ret \in Nat /\ p.ret >= 1
    BY <2>1 DEF ParseFor
  <2> QED
    BY <2>2
<1> QED
  BY <1>2, <1>3, <1>4, Zenon

\* How a packet that parsed is written again.
Rewritten(q, p, room, pad) ==
    \E sum, off, end \in Nat :
        /\ sum = SumSeq(p.size) /\ off = p.offset /\ end = p.packet_offset /\ off + sum <= end
        /\ q.head \in Seq(Nat) /\ q.ret \in Nat /\ q.ret > 0 /\ q.ret <= room
        /\ pad = FALSE => q.ret <= end /\ q.ret = Len(q.head) + sum /\ Len(q.head) <= off
        /\ pad = TRUE => q.ret = room /\ Len(q.head) + sum <= room

Exact(q, sum) == q.ret = Len(q.head) + sum

\* Without padding nothing is left behind the frames.
LEMMA PackedExact ==
    ASSUME NEW size \in Seq(Nat), NEW n \in Nat, NEW sum \in Nat, Adds(size, n, sum),
           n >= 1, NEW toc \in Nat, NEW sd \in BOOLEAN, NEW maxlen \in Int,
           Packed(toc, size, sd, maxlen, FALSE).ret > 0
    PROVE  Exact(Packed(toc, size, sd, maxlen, FALSE), sum)
<1>1. Len(size) = n
  BY DEF Adds
<1>2. PICK a \in Nat, b \in Nat : a = Simple(size, sd) /\ b = Multiple(size, sd)
  BY OneMore
<1>3. PICK q : q = Packed(toc, size, sd, maxlen, FALSE)
  OBVIOUS
<1>4. q = IF n <= 2 /\ a > maxlen THEN [ret |-> BUFFER_TOO_SMALL]
          ELSE IF n <= 2 THEN [ret |-> a, head |-> SimpleHead(toc, size, sd)]
          ELSE IF b > maxlen THEN [ret |-> BUFFER_TOO_SMALL]
          ELSE [ret |-> b, head |-> MultipleHead(toc, size, sd, 0)]
  BY <1>1, <1>2, <1>3 DEF Packed
<1>5. q # [ret |-> BUFFER_TOO_SMALL]
  <2>1. ASSUME q = [ret |-> BUFFER_TOO_SMALL] PROVE FALSE
    <3>1. q.ret = -2
      BY <2>1 DEF BUFFER_TOO_SMALL
    <3>2. q.ret > 0
      BY <1>3, Zenon
    <3> QED
      BY <3>1, <3>2
  <2> QED
    BY <2>1
<1>6. CASE n <= 2
  <2>1. q = [ret |-> a, head |-> SimpleHead(toc, size, sd)]
    BY <1>4, <1>5, <1>6, Zenon
  <2>2. Simple(size, sd) = Len(SimpleHead(toc, size, sd)) + sum
    BY <1>6, SimpleShape
  <2>3. q.ret = a /\ q.head = SimpleHead(toc, size, sd)
    BY <2>1
  <2> QED
    BY <1>2, <1>3, <2>2, <2>3, Zenon DEF Exact
<1>7. CASE ~ (n <= 2)
  <2>1. q = [ret |-> b, head |-> MultipleHead(toc, size, sd, 0)]
    BY <1>4, <1>5, <1>7, Zenon
  <2>2. Headed(toc, size, sd, 0, sum)
    BY MultipleShape
  <2>3. q.ret = b /\ q.head = MultipleHead(toc, size, sd, 0)
    BY <2>1
  <2>4. PICK k \in Nat : k <= 0 /\ Multiple(size, sd) + k = Len(MultipleHead(toc, size, sd, 0)) + sum
    BY <2>2 DEF Headed
  <2>5. b + k = b
    BY <2>4
  <2> QED
    BY <1>2, <1>3, <2>3, <2>4, <2>5, Zenon DEF Exact
<1> QED
  BY <1>6, <1>7

LEMMA RewrittenIs ==
    ASSUME NEW data \in Seq(Nat), NEW sd \in BOOLEAN, Parse(data, sd) # Invalid,
           NEW room \in Nat, Parse(data, sd).packet_offset <= room, NEW pad \in BOOLEAN
    PROVE  Rewritten(Packed(data[1], Parse(data, sd).size, sd, room, pad), Parse(data, sd), room, pad)
<1>1. PICK p : p = Parse(data, sd) /\ ParseFor(data, sd, p) /\ NotLonger(p, sd)
  BY ParseFits, NeverLonger
<1>2. PICK size \in Seq(Nat), n \in Nat, end \in Nat :
         size = p.size /\ n = Len(size) /\ n >= 1 /\ end = p.packet_offset /\ end <= room
  BY <1>1 DEF ParseFor
<1>3. PICK need \in Nat, sum \in Nat, off \in Nat :
        /\ need = Shortest(size, sd) /\ sum = SumSeq(size) /\ off = p.offset
        /\ need <= off + sum /\ need >= 1 /\ off + sum <= end
  BY <1>1, <1>2, Zenon DEF NotLonger
<1>4. Adds(size, n, sum)
  BY <1>2, <1>3 DEF Adds
<1>5. PICK toc \in Nat : toc = data[1]
  BY ValidIs
<1>6. PICK q : q = Packed(toc, size, sd, room, pad)
  OBVIOUS
<1>7. PackedAs(q, sum, room, pad, need)
  BY <1>2, <1>3, <1>4, <1>6, PackedIs
<1>8. need <= end /\ need <= room
  BY <1>2, <1>3
<1>9. Shape(q, sum, room, pad, need)
  BY <1>7, <1>8 DEF PackedAs
<1>10. PICK u \in Nat, r \in Nat, gap \in Nat :
          u = Len(q.head) /\ r = q.ret /\ r > 0 /\ r <= room /\ r = u + sum + gap
  BY <1>9 DEF Shape
<1>11. q.head \in Seq(Nat) /\ r = IF pad THEN room ELSE need
  BY <1>9, <1>10 DEF Shape
<1>12. u + sum <= r
  BY <1>10
<1>13. ASSUME pad = FALSE PROVE r <= end /\ r = u + sum /\ u <= off
  <2>1. q = Packed(toc, size, sd, room, FALSE)
    BY <1>6, <1>13
  <2>2. Packed(toc, size, sd, room, FALSE).ret > 0
    BY <1>10, <2>1
  <2>3. Exact(Packed(toc, size, sd, room, FALSE), sum)
    <3>1. room \in Int
      OBVIOUS
    <3>2. n >= 1
      BY <1>2
    <3> QED
      BY <1>4, <2>2, <3>1, <3>2, PackedExact, Zenon
  <2>4. r = u + sum
    BY <1>10, <2>1, <2>3, Zenon DEF Exact
  <2>5. r = need
    BY <1>11, <1>13
  <2> QED
    BY <1>3, <1>8, <2>4, <2>5
<1>14. ASSUME pad = TRUE PROVE r = room /\ u + sum <= room
  BY <1>10, <1>11, <1>14
<1> QED
  BY <1>1, <1>2, <1>3, <1>5, <1>6, <1>10, <1>11, <1>13, <1>14, ZenonT(40) DEF Rewritten

LEMMA RepackedRet ==
    ASSUME NEW data \in Seq(Nat), NEW sd \in BOOLEAN, Parse(data, sd) # Invalid,
           NEW room \in Nat, Parse(data, sd).packet_offset <= room, NEW pad \in BOOLEAN,
           NEW buf, NEW from, NEW dst
    PROVE  Repacked(buf, from, data, dst, room, sd, pad).ret > 0
<1>1. PICK p : p = Parse(data, sd)
  OBVIOUS
<1>2. PICK q : q = Packed(data[1], p.size, sd, room, pad)
  OBVIOUS
<1>3. Rewritten(q, p, room, pad)
  BY <1>1, <1>2, RewrittenIs
<1>4. q.ret > 0
  BY <1>3, Zenon DEF Rewritten
<1>5. CanCat(NewRp, data, sd)
  BY ValidIs
<1>6. Repacked(buf, from, data, dst, room, sd, pad) = RepackedFrom(buf, from, dst, room, pad, p, q)
  BY <1>1, <1>2, <1>5, Zenon DEF Repacked
<1>7. RepackedFrom(buf, from, dst, room, pad, p, q).ret = q.ret
  BY DEF RepackedFrom
<1> QED
  BY <1>4, <1>6, <1>7, Zenon

\* y is the first m bytes of x.
Begins(x, y, m) ==
    /\ x \in Seq(Nat) /\ y \in Seq(Nat) /\ m \in Nat
    /\ m <= Len(x) /\ Len(y) = m /\ \A i \in 1 .. m : y[i] = x[i]

LEMMA FirstBytes ==
    ASSUME NEW x \in Seq(Nat), NEW m \in Nat, m <= Len(x)
    PROVE  Begins(x, SubSeq(x, 1, m), m)
<1>1. /\ SubSeq(x, 0 + 1, 0 + m) \in Seq(Nat) /\ Len(SubSeq(x, 0 + 1, 0 + m)) = m
      /\ \A i \in 1 .. m : SubSeq(x, 0 + 1, 0 + m)[i] = x[0 + i]
  <2>1. 0 + m <= Len(x)
    OBVIOUS
  <2> QED
    BY <2>1, PartOf
<1>2. 0 + 1 = 1 /\ 0 + m = m /\ \A i \in 1 .. m : 0 + i = i
  OBVIOUS
<1>3. /\ SubSeq(x, 1, m) \in Seq(Nat) /\ Len(SubSeq(x, 1, m)) = m
      /\ \A i \in 1 .. m : SubSeq(x, 1, m)[i] = x[i]
  BY <1>1, <1>2
<1> QED
  BY <1>3 DEF Begins

\* A size that was read is read again from the bytes it took.
SizeRead(x, at, len, b, z) ==
    ParseSize(x, at, len).bytes = b /\ ParseSize(x, at, len).size = z

LEMMA SizeAgain ==
    ASSUME NEW x, NEW y, NEW m, Begins(x, y, m), NEW at \in Nat, NEW len \in Nat,
           at + len <= Len(x), NEW b \in Nat, NEW z \in Nat, SizeRead(x, at, len, b, z),
           NEW l \in Nat, at + l <= m, b <= l
    PROVE  SizeRead(y, at, l, b, z)
<1>1. x \in Seq(Nat) /\ y \in Seq(Nat) /\ m \in Nat /\ m <= Len(x) /\ Len(y) = m
      /\ \A i \in 1 .. m : y[i] = x[i]
  BY DEF Begins
<1>2. ParseSize(x, at, len).bytes = b /\ ParseSize(x, at, len).size = z
  BY DEF SizeRead
<1>3. Esc \in Nat
  BY PacketAssumption
<1>4. len >= 1
  <2>1. ASSUME len < 1 PROVE FALSE
    <3>1. ParseSize(x, at, len) = [bytes |-> -1, size |-> -1]
      BY <2>1 DEF ParseSize
    <3> QED
      BY <1>2, <3>1
  <2> QED
    BY <2>1
<1>5. PICK u \in Nat : u = x[at + 1]
  BY <1>1, <1>4
<1>6. CASE u < Esc
  <2>1. ParseSize(x, at, len) = [bytes |-> 1, size |-> u]
    BY <1>4, <1>5, <1>6 DEF ParseSize
  <2>2. b = 1 /\ z = u
    BY <1>2, <2>1
  <2>3. l >= 1 /\ y[at + 1] = u
    BY <1>1, <1>5, <2>2
  <2>4. ParseSize(y, at, l) = [bytes |-> 1, size |-> u]
    BY <1>6, <2>3 DEF ParseSize
  <2> QED
    BY <2>2, <2>4 DEF SizeRead
<1>7. CASE ~ (u < Esc)
  <2>1. len >= 2
    <3>1. ASSUME len < 2 PROVE FALSE
      <4>1. ParseSize(x, at, len) = [bytes |-> -1, size |-> -1]
        BY <1>4, <1>5, <1>7, <3>1 DEF ParseSize
      <4> QED
        BY <1>2, <4>1
    <3> QED
      BY <3>1
  <2>2. PICK v \in Nat : v = x[at + 2]
    BY <1>1, <2>1
  <2>3. ParseSize(x, at, len) = [bytes |-> 2, size |-> 4 * v + u]
    BY <1>5, <1>7, <2>1, <2>2 DEF ParseSize
  <2>4. b = 2 /\ z = 4 * v + u
    BY <1>2, <2>3
  <2>5. l >= 2 /\ y[at + 1] = u /\ y[at + 2] = v
    <3>1. l >= 2
      BY <2>4
    <3>2. at + 1 \in 1 .. m /\ at + 2 \in 1 .. m
      BY <1>1, <3>1
    <3> QED
      BY <1>1, <1>5, <2>2, <3>1, <3>2
  <2>6. ParseSize(y, at, l) = [bytes |-> 2, size |-> 4 * v + u]
    BY <1>7, <2>5 DEF ParseSize
  <2> QED
    BY <2>4, <2>6 DEF SizeRead
<1> QED
  BY <1>6, <1>7

\* The same sizes with d bytes less behind them.
LessBy(u, g, d) ==
    /\ g.ok = TRUE /\ u.ok = TRUE /\ u.at = g.at /\ u.size = g.size
    /\ u.len = g.len - d /\ u.last = g.last - d

\* One more size that was read, as numbers.
VbrReadAs(x, g, i, all, at, len, b, z, T) ==
    /\ at = g.at /\ len = g.len /\ at + len = all
    /\ SizeRead(x, at, len, b, z) /\ 1 <= b /\ b + z <= len
    /\ T = Total(g.size, i) /\ g.last = len - T
    /\ VbrNext(x, g) = [ok |-> TRUE, at |-> at + b, len |-> len - b,
                        last |-> g.last - b - z, size |-> Append(g.size, z)]
VbrRead(x, g, i, all) == \E at, len, b, z, T \in Nat : VbrReadAs(x, g, i, all, at, len, b, z, T)

LEMMA VbrReads ==
    ASSUME NEW x \in Seq(Nat), NEW all \in Nat, all <= Len(x), NEW i \in Nat,
           NEW g, g.ok = TRUE, SizesLeave(g, i, all), VbrNext(x, g).ok = TRUE
    PROVE  VbrRead(x, g, i, all)
<1>1. PICK at \in Nat, len \in Nat : at = g.at /\ len = g.len /\ at + len = all
  BY DEF SizesLeave
<1>2. PICK p : p = ParseSize(x, at, len)
  OBVIOUS
<1> DEFINE good == p.size >= 0 /\ p.size <= len - p.bytes
<1>3. VbrNext(x, g) = [ok |-> good, at |-> at + p.bytes,
                       len |-> len - p.bytes, last |-> g.last - p.bytes - p.size,
                       size |-> Append(g.size, p.size)]
  BY <1>1, <1>2 DEF VbrNext
<1>4. good = TRUE
  <2> HIDE DEF good
  <2>1. VbrNext(x, g).ok = good
    BY <1>3
  <2> QED
    BY <2>1, Zenon
<1>5. p.size \in Int /\ p.bytes \in {-1, 1, 2} /\ (p.size >= 0 => p.bytes \in 1 .. len)
  BY <1>1, <1>2, SizeFits
<1>6. p.size >= 0 /\ p.size <= len - p.bytes
  BY <1>4
<1>7. PICK b \in Nat, z \in Nat : b = p.bytes /\ z = p.size /\ 1 <= b /\ b + z <= len
  BY <1>5, <1>6
<1>8. PICK T \in Nat : T = Total(g.size, i) /\ g.last = len - T
  <2>1. g.size \in Seq(Nat) /\ Len(g.size) = i /\ g.last = g.len - Total(g.size, i)
    BY DEF SizesLeave
  <2>2. \A j \in 1 .. i : g.size[j] \in Nat
    BY <2>1
  <2>3. i \in 0 .. i
    OBVIOUS
  <2>4. Total(g.size, i) \in Nat
    BY <2>2, <2>3, TotalGrows
  <2> QED
    BY <1>1, <2>1, <2>4
<1>9. SizeRead(x, at, len, b, z)
  BY <1>2, <1>7 DEF SizeRead
<1>10. VbrNext(x, g) = [ok |-> TRUE, at |-> at + b, len |-> len - b,
                        last |-> g.last - b - z, size |-> Append(g.size, z)]
  BY <1>3, <1>4, <1>7, Zenon
<1>11. VbrReadAs(x, g, i, all, at, len, b, z, T)
  BY <1>1, <1>7, <1>8, <1>9, <1>10, Zenon DEF VbrReadAs
<1> QED
  BY <1>11 DEF VbrRead

LEMMA VbrAgainStep ==
    ASSUME NEW x, NEW y, NEW m, Begins(x, y, m), NEW all \in Nat, all <= Len(x), NEW i \in Nat,
           NEW d \in Nat, all <= m + d, NEW g, NEW u, SizesLeave(g, i, all), VbrNext(x, g).ok = TRUE,
           VbrNext(x, g).last >= d, g.last >= d => LessBy(u, g, d), g.ok = TRUE
    PROVE  LessBy(VbrNext(y, u), VbrNext(x, g), d)
<1>1. x \in Seq(Nat) /\ y \in Seq(Nat) /\ m \in Nat /\ m <= Len(x)
  BY DEF Begins
<1>2. VbrRead(x, g, i, all)
  BY <1>1, VbrReads
<1>3. PICK at \in Nat, len \in Nat, b \in Nat, z \in Nat, T \in Nat :
        /\ at = g.at /\ len = g.len /\ at + len = all
        /\ SizeRead(x, at, len, b, z) /\ 1 <= b /\ b + z <= len
        /\ T = Total(g.size, i) /\ g.last = len - T
        /\ VbrNext(x, g) = [ok |-> TRUE, at |-> at + b, len |-> len - b,
                            last |-> g.last - b - z, size |-> Append(g.size, z)]
  BY <1>2 DEF VbrRead, VbrReadAs
<1>4. PICK k : k = VbrNext(x, g)
  OBVIOUS
<1>a. PICK r \in Int : r = g.last /\ r = len - T
  BY <1>3
<1>b. k = [ok |-> TRUE, at |-> at + b, len |-> len - b, last |-> r - b - z,
           size |-> Append(g.size, z)]
  BY <1>3, <1>4, <1>a, Zenon
<1>5. k.ok = TRUE /\ k.at = at + b /\ k.len = len - b /\ k.last = r - b - z
      /\ k.size = Append(g.size, z)
  BY <1>b
<1>6. r - b - z >= d
  BY <1>4, <1>5, Zenon
<1>7. g.last >= d
  <2>1. r >= d
    BY <1>6
  <2> QED
    BY <1>a, <2>1
<1>8. PICK l \in Nat : l = len - d /\ b + z <= l /\ at + l <= m
  <2>1. len - d \in Nat /\ b + z <= len - d /\ at + (len - d) <= m
    <3>1. at + len = all /\ r = len - T
      BY <1>3, <1>a
    <3> QED
      BY <1>1, <1>6, <3>1
  <2> QED
    BY <2>1
<1>9. u.ok = TRUE /\ u.at = at /\ u.size = g.size /\ u.len = l /\ u.last = r - d
  BY <1>3, <1>7, <1>8, <1>a DEF LessBy
<1>10. SizeRead(y, at, l, b, z)
  <2>1. at + len <= Len(x) /\ b <= l
    BY <1>1, <1>3, <1>8
  <2> QED
    BY <1>3, <1>8, <2>1, SizeAgain
<1>11. ParseSize(y, u.at, u.len).bytes = b /\ ParseSize(y, u.at, u.len).size = z
  BY <1>9, <1>10, Zenon DEF SizeRead
<1>12. PICK p : p = ParseSize(y, u.at, u.len) /\ p.bytes = b /\ p.size = z
  BY <1>11
<1>13. VbrNext(y, u) = [ok |-> z >= 0 /\ z <= l - b, at |-> at + b, len |-> l - b,
                        last |-> (r - d) - b - z, size |-> Append(g.size, z)]
  BY <1>9, <1>12 DEF VbrNext
<1>14. z >= 0 /\ z <= l - b
  BY <1>8
<1>15. PICK w : w = VbrNext(y, u)
  OBVIOUS
<1>16. w.ok = TRUE /\ w.at = at + b /\ w.len = l - b /\ w.last = (r - d) - b - z
       /\ w.size = Append(g.size, z)
  <2>1. (z >= 0 /\ z <= l - b) = TRUE
    BY <1>14
  <2>2. w = [ok |-> TRUE, at |-> at + b, len |-> l - b, last |-> (r - d) - b - z,
             size |-> Append(g.size, z)]
    BY <1>13, <1>15, <2>1, Zenon
  <2> QED
    BY <2>2
<1>17. l - b = (len - b) - d /\ (r - d) - b - z = (r - b - z) - d
  BY <1>8
<1>18. w.len = k.len - d /\ w.last = k.last - d
  BY <1>5, <1>16, <1>17
<1> QED
  BY <1>4, <1>5, <1>15, <1>16, <1>18, Zenon DEF LessBy

LEMMA VbrAgain ==
    ASSUME NEW x, NEW y, NEW m, Begins(x, y, m), NEW at \in Nat, NEW len \in Nat,
           at + len <= Len(x), NEW d \in Nat, d <= len, at + len <= m + d, NEW n \in Nat,
           VbrSizes(x, at, len, n).ok = TRUE, VbrSizes(x, at, len, n).last >= d
    PROVE  LessBy(VbrSizes(y, at, len - d, n), VbrSizes(x, at, len, n), d)
<1>1. x \in Seq(Nat) /\ y \in Seq(Nat) /\ m \in Nat /\ m <= Len(x)
  BY DEF Begins
<1>2. PICK f : IsVbr(f, x, at, len, n) /\ VbrSizes(x, at, len, n) = f[n]
  BY VbrIs
<1>3. PICK u : IsVbr(u, y, at, len - d, n) /\ VbrSizes(y, at, len - d, n) = u[n]
  BY VbrIs
<1>4. PICK all \in Nat : all = at + len /\ all <= Len(x) /\ all <= m + d
  OBVIOUS
<1> DEFINE P == {i \in 0 .. n :
                    /\ f[i].ok \in BOOLEAN
                    /\ f[i].ok = TRUE => SizesLeave(f[i], i, all)
                    /\ f[i].ok = TRUE /\ f[i].last >= d => LessBy(u[i], f[i], d)}
<1>5. 0 \in P
  <2>1. f[0] = VbrStart(at, len) /\ u[0] = VbrStart(at, len - d)
    BY <1>2, <1>3 DEF IsVbr
  <2>2. <<>> \in Seq(Nat) /\ Len(<<>>) = 0 /\ Total(<<>>, 0) = 0
    <3>1. \A i \in 1 .. 0 : <<>>[i] \in Int
      OBVIOUS
    <3>2. Total(<<>>, 0) = 0
      BY <3>1, TotalStep
    <3> QED
      BY <3>2
  <2>3. SizesLeave(VbrStart(at, len), 0, all) /\ VbrStart(at, len).ok = TRUE
    BY <1>4, <2>2 DEF SizesLeave, VbrStart
  <2>4. LessBy(VbrStart(at, len - d), VbrStart(at, len), d)
    BY DEF LessBy, VbrStart
  <2>5. 0 \in 0 .. n
    OBVIOUS
  <2> QED
    BY <2>1, <2>3, <2>4, <2>5, Zenon
<1>6. ASSUME NEW i \in 0 .. n - 1, i \in P PROVE i + 1 \in P
  <2>1. f[i + 1] = VbrNext(x, f[i]) /\ u[i + 1] = VbrNext(y, u[i])
    BY <1>2, <1>3 DEF IsVbr
  <2>2. /\ f[i].ok \in BOOLEAN
        /\ f[i].ok = TRUE => SizesLeave(f[i], i, all)
        /\ f[i].ok = TRUE /\ f[i].last >= d => LessBy(u[i], f[i], d)
    BY <1>6
  <2>3. i \in Nat /\ i + 1 \in 0 .. n
    OBVIOUS
  <2>4. LET k == VbrNext(x, f[i])
        IN k.ok \in BOOLEAN /\ (k.ok = TRUE => SizesLeave(k, i + 1, all))
    <3>1. f[i].ok \in BOOLEAN /\ (f[i].ok = TRUE => SizesLeave(f[i], i, all))
      BY <2>2
    <3>2. x \in Seq(Nat) /\ all <= Len(x)
      BY <1>1, <1>4
    <3> QED
      BY <2>3, <3>1, <3>2, VbrStep
  <2>5. ASSUME VbrNext(x, f[i]).ok = TRUE, VbrNext(x, f[i]).last >= d
        PROVE  LessBy(VbrNext(y, u[i]), VbrNext(x, f[i]), d)
    <3>1. f[i].ok = TRUE
      BY <2>2, <2>5 DEF VbrNext
    <3>2. SizesLeave(f[i], i, all) /\ (f[i].last >= d => LessBy(u[i], f[i], d))
      BY <2>2, <3>1
    <3> QED
      BY <1>1, <1>4, <2>3, <2>5, <3>1, <3>2, VbrAgainStep
  <2> QED
    BY <2>1, <2>3, <2>4, <2>5
<1> HIDE DEF P
<1>7. n \in P
  <2>1. \A i \in 0 .. n : i \in P
    BY <1>5, <1>6, InductionTo
  <2> QED
    BY <2>1
<1>8. f[n].ok = TRUE /\ f[n].last >= d => LessBy(u[n], f[n], d)
  BY <1>7 DEF P
<1> QED
  BY <1>2, <1>3, <1>8, Zenon

\* The padding length is read again from the bytes in front of the frames.
PaddingIs(x, at, len, b, w, l) ==
    /\ Padding(x, at, len).ok = TRUE /\ Padding(x, at, len).bytes = b
    /\ Padding(x, at, len).pad = w /\ Padding(x, at, len).len = l

LEMMA PaddingAgain ==
    ASSUME NEW x, NEW y, NEW m, Begins(x, y, m), NEW at \in Nat, NEW len \in Nat,
           at + len = Len(x), NEW b \in Nat, NEW w \in Nat, NEW l \in Nat,
           PaddingIs(x, at, len, b, w, l), NEW d \in Nat, d <= l, m + d = Len(x)
    PROVE  PaddingIs(y, at, len - d, b, w, l - d)
<1>1. x \in Seq(Nat) /\ y \in Seq(Nat) /\ m \in Nat /\ m <= Len(x) /\ Len(y) = m
      /\ \A i \in 1 .. m : y[i] = x[i]
  BY DEF Begins
<1>2. PICK ends : ends = {k \in 0 .. len - 1 : x[at + k + 1] # PadMax}
  OBVIOUS
<1>3. PICK k : k = Min(ends)
  OBVIOUS
<1>4. PICK last : last = x[at + k + 1]
  OBVIOUS
<1>5. PICK left : left = len - PadMax * k
  OBVIOUS
<1>6. Padding(x, at, len) =
         IF ends = {} \/ left <= 0 THEN NoPadding
         ELSE [ok |-> left - 1 - last >= 0, bytes |-> k + 1,
               pad |-> (PadMax - 1) * k + last, len |-> left - 1 - last]
  BY <1>2, <1>3, <1>4, <1>5, Zenon DEF Padding
<1>7. ends # {} /\ ~ (left <= 0)
  <2>1. ASSUME ends = {} \/ left <= 0 PROVE FALSE
    <3>1. Padding(x, at, len).ok = FALSE
      BY <1>6, <2>1 DEF NoPadding
    <3> QED
      BY <3>1 DEF PaddingIs
  <2> QED
    BY <2>1
<1>8. k \in ends /\ \A j \in ends : k <= j
  <2>1. ends \subseteq Nat
    BY <1>2
  <2>2. \E e \in ends : \A j \in ends : e <= j
    BY <1>7, <2>1, SmallestNumber
  <2> QED
    BY <1>3, <2>2 DEF Min
<1>9. k \in Nat /\ k <= len - 1 /\ last \in Nat /\ last # PadMax /\ PadMax \in Nat /\ PadMax >= 2
  <2>1. k \in 0 .. len - 1 /\ x[at + k + 1] # PadMax
    BY <1>2, <1>8
  <2>2. at + k + 1 \in 1 .. Len(x)
    BY <1>1, <2>1
  <2>3. last \in Nat
    BY <1>1, <1>4, <2>2
  <2>4. PadMax \in Nat /\ PadMax >= 2
    BY PacketAssumption
  <2>5. k \in Nat /\ k <= len - 1
    BY <2>1
  <2> QED
    BY <1>4, <2>1, <2>3, <2>4, <2>5, Zenon
<1>10. PICK M \in Nat : M = PadMax * k /\ (PadMax - 1) * k = M - k /\ k <= M
  <2>1. (PadMax - 1) * k = PadMax * k - k /\ (PadMax - 1) * k \in Nat /\ PadMax * k \in Nat
    BY <1>9
  <2> QED
    BY <1>9, <2>1
<1>11. b = k + 1 /\ w = (M - k) + last /\ l = len - M - 1 - last
  <2>1. Padding(x, at, len) = [ok |-> left - 1 - last >= 0, bytes |-> k + 1,
               pad |-> (PadMax - 1) * k + last, len |-> left - 1 - last]
    BY <1>6, <1>7
  <2>2. left = len - M
    BY <1>5, <1>10
  <2> QED
    BY <1>10, <2>1, <2>2 DEF PaddingIs
<1>12. PICK n \in Nat : n = len - d /\ k <= n - 1 /\ at + n = m /\ n - M - 1 - last >= 0
  <2>1. len - d \in Nat /\ k <= (len - d) - 1 /\ at + (len - d) = m /\ (len - d) - M - 1 - last >= 0
    BY <1>1, <1>9, <1>10, <1>11
  <2> QED
    BY <2>1
<1>13. PICK some : some = {j \in 0 .. n - 1 : y[at + j + 1] # PadMax}
  OBVIOUS
<1>14. some \subseteq ends /\ k \in some
  <2>1. ASSUME NEW j \in 0 .. n - 1 PROVE y[at + j + 1] = x[at + j + 1] /\ j \in 0 .. len - 1
    <3>1. at + j + 1 \in 1 .. m
      BY <1>12
    <3> QED
      BY <1>1, <1>12, <3>1
  <2>2. k \in 0 .. n - 1
    BY <1>9, <1>12
  <2> QED
    BY <1>2, <1>8, <1>13, <2>1, <2>2
<1>15. Min(some) = k
  <2>1. \A j \in some : k <= j
    BY <1>8, <1>14
  <2>2. \A e \in some : (\A j \in some : e <= j) => e = k
    <3>1. some \subseteq Nat
      BY <1>13
    <3> QED
      BY <1>14, <2>1, <3>1
  <2>3. Min(some) \in some /\ \A j \in some : Min(some) <= j
    BY <1>14, <2>1 DEF Min
  <2> QED
    BY <2>2, <2>3
<1>16. y[at + k + 1] = last
  <2>1. at + k + 1 \in 1 .. m
    BY <1>9, <1>12
  <2> QED
    BY <1>1, <1>4, <2>1
<1>17. some # {} /\ ~ (n - M <= 0)
  BY <1>9, <1>12, <1>14
<1>18. Padding(y, at, n) = [ok |-> (n - M) - 1 - last >= 0, bytes |-> k + 1,
               pad |-> (PadMax - 1) * k + last, len |-> (n - M) - 1 - last]
  <2>1. n - PadMax * k = n - M
    BY <1>10
  <2>2. Padding(y, at, n) =
          IF some = {} \/ n - PadMax * k <= 0 THEN NoPadding
          ELSE [ok |-> (n - PadMax * k) - 1 - last >= 0, bytes |-> k + 1,
                pad |-> (PadMax - 1) * k + last, len |-> (n - PadMax * k) - 1 - last]
    BY <1>13, <1>15, <1>16, Zenon DEF Padding
  <2> QED
    BY <1>17, <2>1, <2>2, Zenon
<1>19. PICK good : good = ((n - M) - 1 - last >= 0)
  OBVIOUS
<1>20. good = TRUE
  BY <1>12, <1>19
<1>21. PICK p : p = Padding(y, at, n)
  OBVIOUS
<1>22. p = [ok |-> TRUE, bytes |-> k + 1, pad |-> (M - k) + last, len |-> (n - M) - 1 - last]
  BY <1>10, <1>18, <1>19, <1>20, <1>21, Zenon
<1>23. p.ok = TRUE /\ p.bytes = k + 1 /\ p.pad = (M - k) + last /\ p.len = (n - M) - 1 - last
  BY <1>22
<1>24. (n - M) - 1 - last = l - d
  <2>1. l = len - M - 1 - last /\ n = len - d
    BY <1>11, <1>12
  <2> QED
    BY <1>9, <1>10, <2>1
<1> QED
  BY <1>11, <1>12, <1>21, <1>23, <1>24, Zenon DEF PaddingIs

\* The same of the count with d bytes less behind it.
CountLess(c, o, d) ==
    /\ c.ok = TRUE /\ o.ok = TRUE /\ c.count = o.count /\ c.cbr = o.cbr /\ c.vbr = o.vbr
    /\ c.at = o.at /\ c.pad = o.pad /\ c.len = o.len - d

NotBoth(c) == ~ (c.cbr = TRUE /\ c.vbr = TRUE)

\* What Counted says of a packet of code 3.
Pads(ch) == (ch \div 64) % 2 = 1
TooMany(ch, toc) == ch % 64 = 0 \/ SamplesPerFrame(toc, 48000) * (ch % 64) > 5760
PadsIs(ch, p) ==
    [ok |-> p.ok, count |-> ch % 64, cbr |-> ch < 128, vbr |-> ch >= 128,
     at |-> 2 + p.bytes, len |-> p.len, pad |-> p.pad]
NoPadsIs(ch, k) ==
    [ok |-> TRUE, count |-> ch % 64, cbr |-> ch < 128, vbr |-> ch >= 128,
     at |-> 2, len |-> k, pad |-> 0]
ThreeIs(ch, len, p, toc) ==
    IF len < 1 \/ TooMany(ch, toc) THEN [ok |-> FALSE]
    ELSE IF Pads(ch) THEN PadsIs(ch, p) ELSE NoPadsIs(ch, len - 1)

LEMMA ThreeFor ==
    ASSUME NEW x, Code(x[1]) = 3
    PROVE  Counted(x) = ThreeIs(x[2], Len(x) - 1, Padding(x, 2, Len(x) - 1 - 1), x[1])
  BY DEF Counted, ThreeIs, Pads, TooMany, PadsIs, NoPadsIs

LEMMA CountedAgain ==
    ASSUME NEW x, NEW y, NEW m, Begins(x, y, m), x # <<>>, Counted(x).ok,
           NEW d \in Nat, m + d = Len(x), d <= Counted(x).len
    PROVE  /\ CountLess(Counted(y), Counted(x), d) /\ NotBoth(Counted(x)) /\ y # <<>>
           /\ Counted(y).ok = TRUE
<1>1. x \in Seq(Nat) /\ y \in Seq(Nat) /\ m \in Nat /\ m <= Len(x) /\ Len(y) = m
      /\ \A i \in 1 .. m : y[i] = x[i]
  BY DEF Begins
<1>2. PICK c : c = Counted(x) /\ CountedFor(x, c) /\ c.ok
  BY <1>1, CountedFits
<1>3. PICK cat \in Nat, clen \in Nat, cpad \in Nat :
         /\ cat = c.at /\ clen = c.len /\ cpad = c.pad /\ cat + clen + cpad = Len(x)
         /\ d <= clen /\ cat >= 1
  <2>1. CountedNumbers(x, c) /\ CountedAt(c)
    BY <1>1, <1>2, CountedStarts DEF CountedFor
  <2> QED
    BY <1>2, <2>1 DEF CountedNumbers, CountedAt
<1>4. m >= 1 /\ y[1] = x[1]
  <2>1. m >= 1
    BY <1>1, <1>3, SMTT(30)
  <2> QED
    BY <1>1, <2>1
<1>5. y # <<>>
  BY <1>1, <1>4
<1>6. PICK e : e = Counted(y)
  OBVIOUS
<1>7. CASE Code(x[1]) # 3
  <2>1. c = [ok |-> TRUE, count |-> IF Code(x[1]) = 0 THEN 1 ELSE 2, cbr |-> Code(x[1]) = 1,
             vbr |-> Code(x[1]) = 2, at |-> 1, len |-> Len(x) - 1, pad |-> 0]
    BY <1>2, <1>7 DEF Counted
  <2>2. e = [ok |-> TRUE, count |-> IF Code(x[1]) = 0 THEN 1 ELSE 2, cbr |-> Code(x[1]) = 1,
             vbr |-> Code(x[1]) = 2, at |-> 1, len |-> m - 1, pad |-> 0]
    BY <1>1, <1>4, <1>6, <1>7 DEF Counted
  <2>3. m - 1 = (Len(x) - 1) - d
    BY <1>1
  <2>4. CountLess(e, c, d)
    BY <2>1, <2>2, <2>3 DEF CountLess
  <2>5. NotBoth(c)
    <3>1. c.cbr = (Code(x[1]) = 1) /\ c.vbr = (Code(x[1]) = 2)
      BY <2>1
    <3>2. ~ (Code(x[1]) = 1 /\ Code(x[1]) = 2)
      OBVIOUS
    <3> QED
      BY <3>1, <3>2, Zenon DEF NotBoth
  <2>6. e.ok = TRUE
    BY <2>4 DEF CountLess
  <2> QED
    BY <1>2, <1>5, <1>6, <2>4, <2>5, <2>6, Zenon
<1>8. CASE ~ (Code(x[1]) # 3)
  <2> DEFINE ch    == x[2]
             count == ch % 64
             lo    == ch < 128
             hi    == ch >= 128
  <2>4. PICK len \in Nat : len + 1 = Len(x)
    <3>1. Len(x) - 1 \in Nat /\ (Len(x) - 1) + 1 = Len(x)
      BY <1>1, <1>4
    <3> QED
      BY <3>1
  <2>5. c = ThreeIs(ch, len, Padding(x, 2, len - 1), x[1])
    <3>1. Len(x) - 1 = len
      BY <2>4
    <3> QED
      BY <1>2, <1>8, <3>1, ThreeFor
  <2>6. ~ (len < 1) /\ ~ TooMany(ch, x[1])
    <3>1. ASSUME len < 1 \/ TooMany(ch, x[1]) PROVE FALSE
      <4>1. c = [ok |-> FALSE]
        BY <2>5, <3>1, Zenon DEF ThreeIs
      <4> QED
        BY <1>2, <4>1
    <3> QED
      BY <3>1
  <2>7. PICK k \in Nat : k = len - 1 /\ 2 + k = Len(x)
    <3>1. len - 1 \in Nat /\ 2 + (len - 1) = Len(x)
      BY <2>4, <2>6
    <3> QED
      BY <3>1
  <2>8. PICK p : p = Padding(x, 2, k)
    OBVIOUS
  <2>9. c = IF Pads(ch) THEN PadsIs(ch, p) ELSE NoPadsIs(ch, k)
    BY <2>5, <2>6, <2>7, <2>8, Zenon DEF ThreeIs
  <2>10. cat >= 2
    <3>1. CASE Pads(ch)
      <4>1. p.ok /\ c.at = 2 + p.bytes
        BY <1>2, <2>9, <3>1 DEF PadsIs
      <4>2. p.bytes \in Nat
        BY <1>1, <2>7, <2>8, <4>1, PaddingFits
      <4> QED
        BY <1>3, <4>1, <4>2
    <3>2. CASE ~ Pads(ch)
      <4>1. c.at = 2
        BY <2>9, <3>2 DEF NoPadsIs
      <4> QED
        BY <1>3, <4>1
    <3> QED
      BY <3>1, <3>2
  <2>11. PICK j \in Nat : j = k - d /\ 2 + j = m
    <3>1. k - d \in Nat /\ 2 + (k - d) = m
      BY <1>1, <1>3, <2>7, <2>10, SMTT(30)
    <3> QED
      BY <3>1
  <2>12. y[2] = x[2] /\ Len(y) - 1 - 1 = j /\ ~ (Len(y) - 1 < 1)
    <3>1. 2 \in 1 .. m
      BY <2>11
    <3> QED
      BY <1>1, <2>11, <3>1
  <2>13. e = IF Pads(ch) THEN PadsIs(ch, Padding(y, 2, j)) ELSE NoPadsIs(ch, j)
    <3>1. e = ThreeIs(y[2], Len(y) - 1, Padding(y, 2, Len(y) - 1 - 1), y[1])
      BY <1>4, <1>6, <1>8, ThreeFor
    <3>2. e = ThreeIs(ch, Len(y) - 1, Padding(y, 2, j), x[1])
      BY <1>4, <2>12, <3>1
    <3> QED
      BY <2>6, <2>12, <3>2, Zenon DEF ThreeIs
  <2>14. NotBoth(c)
    <3>1. c.cbr = lo /\ c.vbr = hi
      BY <2>9 DEF PadsIs, NoPadsIs
    <3>2. ~ (ch < 128 /\ ch >= 128)
      <4>1. ch \in Nat
        BY <1>1, <2>7
      <4> QED
        BY <4>1
    <3> QED
      BY <3>1, <3>2, Zenon DEF NotBoth
  <2> HIDE DEF ch, count, lo, hi
  <2>15. CountLess(e, c, d)
    <3>1. CASE Pads(ch)
      <4>1. c = [ok |-> p.ok, count |-> count, cbr |-> lo, vbr |-> hi,
                 at |-> 2 + p.bytes, len |-> p.len, pad |-> p.pad]
        BY <2>9, <3>1, Zenon DEF PadsIs, lo, hi, count
      <4>2. p.ok /\ p.len = clen /\ p.pad = cpad /\ c.cbr = lo /\ c.vbr = hi /\ c.count = count
            /\ c.at = 2 + p.bytes
        BY <1>2, <1>3, <4>1
      <4>3. p.bytes \in Nat
        BY <1>1, <2>7, <2>8, <4>2, PaddingFits
      <4>4. p.ok = TRUE
        BY <2>8, <4>2 DEF Padding, NoPadding
      <4>5. PICK b \in Nat : b = p.bytes /\ PaddingIs(x, 2, k, b, cpad, clen)
        BY <2>8, <4>2, <4>3, <4>4, Zenon DEF PaddingIs
      <4>6. PaddingIs(y, 2, k - d, b, cpad, clen - d)
        BY <1>3, <2>7, <4>5, PaddingAgain
      <4>7. PICK q : q = Padding(y, 2, j) /\ q.ok = TRUE /\ q.bytes = b /\ q.pad = cpad
                     /\ q.len = clen - d
        BY <2>11, <4>6 DEF PaddingIs
      <4>8. e = [ok |-> q.ok, count |-> count, cbr |-> lo, vbr |-> hi,
                 at |-> 2 + q.bytes, len |-> q.len, pad |-> q.pad]
        BY <2>13, <3>1, <4>7, Zenon DEF PadsIs, lo, hi, count
      <4>9. e.ok = TRUE /\ e.count = count /\ e.cbr = lo /\ e.vbr = hi /\ e.at = 2 + b
            /\ e.len = clen - d /\ e.pad = cpad
        BY <4>7, <4>8
      <4>10. c.ok = TRUE
        BY <4>1, <4>4
      <4> QED
        BY <1>3, <4>2, <4>5, <4>9, <4>10, Zenon DEF CountLess
    <3>2. CASE ~ Pads(ch)
      <4>1. c = [ok |-> TRUE, count |-> count, cbr |-> lo, vbr |-> hi,
                 at |-> 2, len |-> k, pad |-> 0]
        BY <2>9, <3>2, Zenon DEF NoPadsIs, lo, hi, count
      <4>2. e = [ok |-> TRUE, count |-> count, cbr |-> lo, vbr |-> hi,
                 at |-> 2, len |-> j, pad |-> 0]
        BY <2>13, <3>2, Zenon DEF NoPadsIs, lo, hi, count
      <4>3. j = k - d
        BY <2>11
      <4> QED
        BY <4>1, <4>2, <4>3 DEF CountLess
    <3> QED
      BY <3>1, <3>2
  <2>16. e.ok = TRUE
    BY <2>15 DEF CountLess
  <2> QED
    BY <1>2, <1>5, <1>6, <2>14, <2>15, <2>16, Zenon
<1> QED
  BY <1>7, <1>8

\* What is left of the bytes in front of the last frame's size, of a packet
\* that takes m bytes of x.
LastReadAs(x, c, s, p, m, d, at, len, b, z, l) ==
    /\ at = s.at /\ len = s.len /\ at + len <= Len(x) /\ SizeRead(x, at, len, b, z)
    /\ l + d = len /\ b + z <= l /\ at + l <= m /\ s.last >= d /\ d <= c.len
    /\ c.cbr = TRUE => /\ z * c.count <= l - b
                       /\ p = Parsed(c, at + b, [i \in 1 .. c.count |-> z])
    /\ c.cbr = FALSE => /\ b + z <= s.last - d
                        /\ p = Parsed(c, at + b, Append(s.size, z))
LastRead(x, c, s, p, m, d) ==
    \E at, len, b, z, l \in Nat : LastReadAs(x, c, s, p, m, d, at, len, b, z, l)

LEMMA LastIsRead ==
    ASSUME NEW x \in Seq(Nat), NEW c, NEW s, NEW n \in Nat, SizedAs(x, TRUE, c, s, n), NotBoth(c),
           NEW p, p = Delimited(x, c, s), p # Invalid, NEW m \in Nat, m = p.packet_offset,
           NEW d \in Nat, m + d = Len(x), IsCbr(c) \/ n + 1 = c.count
    PROVE  LastRead(x, c, s, p, m, d)
<1>1. /\ CountedFor(x, c) /\ s = Sized(x, c, TRUE) /\ s.ok = TRUE
      /\ SizesLeave(s, n, FrameBytes(c))
  BY DEF SizedAs
<1>2. PICK cat \in Nat, clen \in Nat, cpad \in Nat, count \in Nat :
         /\ cat = c.at /\ clen = c.len /\ cpad = c.pad /\ count = c.count
         /\ cat + clen + cpad = Len(x) /\ count >= 1
  BY <1>1 DEF CountedFor, CountedNumbers
<1>3. PICK all \in 0 .. Len(x) : all = FrameBytes(c) /\ all = cat + clen
  BY <1>2 DEF FrameBytes
<1>4. PICK at \in Nat, len \in Nat, b \in Nat, z \in Nat :
          at + len = all /\ 1 <= b /\ b + z <= len /\ LastSize(x, s, at, len, b, z)
  <2>1. SizesLeave(s, n, all) /\ Delimited(x, c, s) # Invalid
    BY <1>1, <1>3
  <2> QED
    BY <2>1, LastSizeFits
<1>5. /\ at = s.at /\ len = s.len
      /\ ParseSize(x, at, len).bytes = b /\ ParseSize(x, at, len).size = z
  BY <1>4 DEF LastSize
<1>6. SizeRead(x, at, len, b, z) /\ at + len <= Len(x)
  BY <1>3, <1>4, <1>5 DEF SizeRead
<1>7. cat <= at
  BY <1>1, <1>2, <1>5, AnyHead
<1>8. c.cbr \in BOOLEAN /\ c.vbr \in BOOLEAN
  BY <1>1 DEF CountedFor
<1>9. CASE c.cbr = TRUE
  <2>1. PICK size : size = [i \in 1 .. count |-> z]
    OBVIOUS
  <2>2. PICK v \in Nat : v = z * count
    OBVIOUS
  <2>3. p = Parsed(c, at + b, size)
    <3>1. Delimited(x, c, s) = Invalid \/ Delimited(x, c, s) = Parsed(c, at + b, size)
      BY <1>2, <1>5, <1>9, <2>1 DEF Delimited
    <3> QED
      BY <3>1
  <2>4. size \in Seq(Nat) /\ DOMAIN size = 1 .. count /\ \A i \in 1 .. count : size[i] = z
    BY <2>1
  <2>5. SumSeq(size) = v
    BY <2>2, <2>4, SumSeqIs, TotalAll
  <2>6. m = cpad + (at + b) + v
    <3>1. p.packet_offset = c.pad + (at + b) + SumSeq(size)
      BY <2>3 DEF Parsed
    <3> QED
      BY <1>2, <2>5, <3>1
  <2>7. d = len - b - v
    <3>1. cat + clen + cpad = m + d /\ cat + clen = at + len
      BY <1>2, <1>3, <1>4
    <3> QED
      BY <2>6, <3>1
  <2>8. z <= v
    <3>1. PICK k \in Nat : count = k + 1
      <4>1. count - 1 \in Nat /\ count = (count - 1) + 1
        BY <1>2, SMTT(30)
      <4> QED
        BY <4>1
    <3>2. v = z * k + z /\ z * k \in Nat
      BY <2>2, <3>1
    <3> QED
      BY <3>2
  <2>9. PICK l \in Nat : l = b + v
    OBVIOUS
  <2>10. l + d = len /\ b + z <= l /\ at + l <= m /\ z * count <= l - b
    BY <2>2, <2>6, <2>7, <2>8, <2>9
  <2>11. s.last = len
    <3>1. c.vbr = FALSE
      BY <1>8, <1>9 DEF NotBoth
    <3>2. s = [ok |-> TRUE, at |-> c.at, len |-> c.len, last |-> c.len, size |-> <<>>]
      BY <1>1, <1>9, <3>1 DEF Sized
    <3> QED
      BY <1>5, <3>2
  <2>12. d <= len /\ len <= clen
    BY <1>3, <1>4, <1>7, <2>10, SMTT(30)
  <2>13. s.last >= d /\ d <= c.len
    <3>1. d <= clen
      BY <1>2, <2>12
    <3> QED
      BY <1>2, <2>11, <2>12, <3>1
  <2>14. LastReadAs(x, c, s, p, m, d, at, len, b, z, l)
    <3>1. c.cbr # FALSE
      BY <1>9
    <3> QED
      BY <1>2, <1>5, <1>6, <2>1, <2>3, <2>10, <2>13, <3>1, Zenon DEF LastReadAs
  <2> QED
    BY <2>14 DEF LastRead
<1>10. CASE c.cbr = FALSE
  <2>1. PICK size : size = Append(s.size, z)
    OBVIOUS
  <2>2. s.size \in Seq(Nat) /\ Len(s.size) = n /\ s.last = s.len - Total(s.size, n)
    BY <1>1 DEF SizesLeave
  <2>3. PICK T \in Nat : T = Total(s.size, n)
    BY <2>2, AppendTotal
  <2>4. size \in Seq(Nat) /\ Len(size) = n + 1 /\ Total(size, n + 1) = T + z
    BY <2>1, <2>2, <2>3, AppendTotal
  <2>5. p = Parsed(c, at + b, size) /\ s.last = len - T
    <3>1. Delimited(x, c, s) = Invalid \/ Delimited(x, c, s) = Parsed(c, at + b, size)
      BY <1>5, <1>10, <2>1 DEF Delimited
    <3> QED
      BY <1>5, <2>2, <2>3, <3>1
  <2>6. SumSeq(size) = T + z
    <3>1. DOMAIN size = 1 .. n + 1 /\ n + 1 \in Nat
      BY <2>4
    <3> QED
      BY <2>4, <3>1, SumSeqIs
  <2>7. m = cpad + (at + b) + (T + z)
    <3>1. p.packet_offset = c.pad + (at + b) + SumSeq(size)
      BY <2>5 DEF Parsed
    <3> QED
      BY <1>2, <2>6, <3>1
  <2>8. d = len - b - T - z
    <3>1. cat + clen + cpad = m + d /\ cat + clen = at + len
      BY <1>2, <1>3, <1>4
    <3> QED
      BY <2>7, <3>1
  <2>9. PICK l \in Nat : l = b + T + z
    OBVIOUS
  <2>10. l + d = len /\ b + z <= l /\ at + l <= m
    BY <2>7, <2>8, <2>9
  <2>11. d <= len /\ len <= clen
    BY <1>3, <1>4, <1>7, <2>10
  <2>12. s.last >= d /\ d <= c.len /\ b + z <= s.last - d
    <3>1. len - T >= d /\ d <= clen /\ b + z <= (len - T) - d
      BY <2>8, <2>11
    <3> QED
      BY <1>2, <2>5, <3>1
  <2>13. LastReadAs(x, c, s, p, m, d, at, len, b, z, l)
    <3>1. c.cbr # TRUE
      BY <1>10
    <3> QED
      BY <1>5, <1>6, <2>1, <2>5, <2>10, <2>12, <3>1, Zenon DEF LastReadAs
  <2> QED
    BY <2>13 DEF LastRead
<1> QED
  BY <1>8, <1>9, <1>10

LEMMA DelimitedAgain ==
    ASSUME NEW x, NEW y, NEW m, Begins(x, y, m), NEW d \in Nat, NEW c, NEW o, CountLess(o, c, d),
           NEW s, NEW t, LessBy(t, s, d), NEW p, LastRead(x, c, s, p, m, d), c.cbr \in BOOLEAN,
           c.count \in Nat, s.last \in Int
    PROVE  Delimited(y, o, t) = p
<1>a. PICK at \in Nat, len \in Nat, b \in Nat, z \in Nat, l \in Nat :
          LastReadAs(x, c, s, p, m, d, at, len, b, z, l)
  BY DEF LastRead
<1>1. /\ at = s.at /\ len = s.len /\ at + len <= Len(x) /\ SizeRead(x, at, len, b, z)
      /\ l + d = len /\ b + z <= l /\ at + l <= m
      /\ c.cbr = TRUE => /\ z * c.count <= l - b
                         /\ p = Parsed(c, at + b, [i \in 1 .. c.count |-> z])
      /\ c.cbr = FALSE => /\ b + z <= s.last - d
                          /\ p = Parsed(c, at + b, Append(s.size, z))
  BY <1>a DEF LastReadAs
<1>2. /\ o.count = c.count /\ o.cbr = c.cbr /\ o.pad = c.pad
  BY DEF CountLess
<1>3. t.at = at /\ t.size = s.size /\ t.len = l /\ t.last = s.last - d
  <2>1. s.len - d = l
    BY <1>1
  <2> QED
    BY <1>1, <2>1 DEF LessBy
<1>4. SizeRead(y, at, l, b, z)
  <2>1. b <= l
    BY <1>1
  <2> QED
    BY <1>1, <2>1, SizeAgain
<1>5. PICK q : q = ParseSize(y, t.at, t.len) /\ q.bytes = b /\ q.size = z
  BY <1>3, <1>4 DEF SizeRead
<1>6. ~ (q.size < 0 \/ q.size > t.len - q.bytes)
  BY <1>1, <1>3, <1>5, SMTT(30)
<1>7. \A k, size : Parsed(o, k, size) = Parsed(c, k, size)
  BY <1>2 DEF Parsed
<1>8. CASE c.cbr = TRUE
  <2>1. z * c.count <= l - b /\ p = Parsed(c, at + b, [i \in 1 .. c.count |-> z])
    BY <1>1, <1>8
  <2>2. ~ (q.size * o.count > t.len - q.bytes)
    <3>1. PICK v \in Int : v = z * c.count /\ v <= l - b
      BY <2>1
    <3>2. q.size * o.count = v /\ t.len - q.bytes = l - b
      BY <1>2, <1>3, <1>5, <3>1, Zenon
    <3>3. ~ (v > l - b)
      BY <3>1
    <3> QED
      BY <3>2, <3>3, Zenon
  <2>3. Delimited(y, o, t) = Parsed(o, t.at + q.bytes, [i \in 1 .. o.count |-> q.size])
    BY <1>2, <1>5, <1>6, <1>8, <2>2, Zenon DEF Delimited
  <2> QED
    BY <1>2, <1>3, <1>5, <1>7, <2>1, <2>3
<1>9. CASE c.cbr = FALSE
  <2>1. b + z <= s.last - d /\ p = Parsed(c, at + b, Append(s.size, z))
    BY <1>1, <1>9
  <2>2. ~ (q.bytes + q.size > t.last)
    <3>1. ~ (b + z > s.last - d)
      BY <2>1
    <3> QED
      BY <1>3, <1>5, <3>1, Zenon
  <2>3. Delimited(y, o, t) = Parsed(o, t.at + q.bytes, Append(t.size, q.size))
    BY <1>2, <1>5, <1>6, <1>9, <2>2, Zenon DEF Delimited
  <2> QED
    BY <1>3, <1>5, <1>7, <2>1, <2>3
<1> QED
  BY <1>8, <1>9
LEMMA NeverBoth ==
    ASSUME NEW x \in Seq(Nat), x # <<>>, Counted(x).ok
    PROVE  NotBoth(Counted(x))
<1>1. PICK m \in Nat : m = Len(x)
  OBVIOUS
<1>2. Begins(x, x, m) /\ m + 0 = Len(x)
  BY <1>1 DEF Begins
<1>3. Counted(x).len \in Nat
  BY CountedFits DEF CountedFor, CountedNumbers
<1>4. 0 \in Nat /\ 0 <= Counted(x).len
  BY <1>3
<1> QED
  BY <1>2, <1>4, CountedAgain

\* Where a packet that parsed ends.
EndsAt(x, sd, m) == m = Parse(x, sd).packet_offset

LEMMA ParseAgain ==
    ASSUME NEW x \in Seq(Nat), Parse(x, TRUE) # Invalid, NEW y, NEW m \in Nat,
           EndsAt(x, TRUE, m), Begins(x, y, m)
    PROVE  Parse(y, TRUE) = Parse(x, TRUE)
<1>1. PICK p : p = Parse(x, TRUE) /\ ParseFor(x, TRUE, p)
  BY ParseFits
<1>2. PICK c : c = Counted(x)
  OBVIOUS
<1>3. PICK s : s = Sized(x, c, TRUE)
  OBVIOUS
<1>4. x # <<>> /\ c.ok /\ p = ParsedAs(x, TRUE, c, s)
  BY <1>1, <1>2, <1>3 DEF Parse, ParsedCount
<1>5. CountedFor(x, c)
  BY <1>2, <1>4, CountedFits
<1>6. SizedFor(c, TRUE, s)
  BY <1>3, <1>5, SizedFits
<1>7. s.ok /\ ~ (s.last < 0) /\ p = Delimited(x, c, s)
  BY <1>1, <1>4 DEF ParsedAs
<1>8. s.ok = TRUE
  BY <1>6, <1>7 DEF SizedFor
<1>9. c.cbr \in BOOLEAN /\ c.vbr \in BOOLEAN
  BY <1>5 DEF CountedFor
<1>10. PICK count \in Nat, cat \in Nat, clen \in Nat :
          count = c.count /\ count >= 1 /\ cat = c.at /\ clen = c.len /\ cat + clen <= Len(x)
  BY <1>5 DEF CountedFor, CountedNumbers
<1>11. PICK d \in Nat : m + d = Len(x)
  <2>1. PICK w \in Nat : w = Len(x) /\ m <= w
    BY DEF Begins
  <2>2. w - m \in Nat /\ m + (w - m) = w
    BY <2>1
  <2> QED
    BY <2>1, <2>2
<1>12. PICK n \in Nat : SizedAs(x, TRUE, c, s, n) /\ (IsCbr(c) \/ n + 1 = c.count)
  <2>1. CASE c.cbr = TRUE
    <3>1. PICK n \in Nat : SizesLeave(s, n, FrameBytes(c))
      BY <1>6, <1>8 DEF SizedFor
    <3> QED
      BY <1>3, <1>5, <1>8, <2>1, <3>1 DEF SizedAs, IsCbr
  <2>2. CASE c.cbr = FALSE
    <3>1. SizesLeave(s, c.count - 1, FrameBytes(c))
      BY <1>6, <1>8, <2>2 DEF SizedFor
    <3>2. c.count - 1 \in Nat /\ (c.count - 1) + 1 = c.count
      BY <1>10
    <3> QED
      BY <1>3, <1>5, <1>8, <3>1, <3>2 DEF SizedAs
  <2> QED
    BY <1>9, <2>1, <2>2
<1>13. s.last \in Int
  BY <1>12 DEF SizedAs, SizesLeave
<1>14. NotBoth(c)
  BY <1>2, <1>4, NeverBoth
<1>15. LastRead(x, c, s, p, m, d)
  <2>1. m = p.packet_offset
    BY <1>1 DEF EndsAt
  <2> QED
    BY <1>1, <1>7, <1>11, <1>12, <1>14, <2>1, LastIsRead
<1>16. d <= c.len /\ s.last >= d
  BY <1>15 DEF LastRead, LastReadAs
<1>17. PICK o : o = Counted(y)
  OBVIOUS
<1>18. CountLess(o, c, d) /\ y # <<>> /\ o.ok = TRUE
  BY <1>2, <1>4, <1>11, <1>16, <1>17, CountedAgain
<1>19. PICK t : t = Sized(y, o, TRUE)
  OBVIOUS
<1>20. LessBy(t, s, d)
  <2>1. o.count = count /\ o.cbr = c.cbr /\ o.vbr = c.vbr /\ o.at = cat /\ o.len = clen - d
    BY <1>10, <1>18 DEF CountLess
  <2>2. CASE c.vbr = TRUE
    <3>1. PICK k \in Nat : k = count - 1
      BY <1>10
    <3>2. s = VbrSizes(x, cat, clen, k)
      BY <1>3, <1>10, <2>2, <3>1 DEF Sized
    <3>3. t = VbrSizes(y, cat, clen - d, k)
      BY <1>19, <2>1, <2>2, <3>1 DEF Sized
    <3>4. d <= clen /\ cat + clen <= m + d
      BY <1>10, <1>11, <1>16
    <3> QED
      BY <1>8, <1>10, <1>16, <3>2, <3>3, <3>4, VbrAgain
  <2>3. CASE c.vbr = FALSE
    <3>1. s = [ok |-> TRUE, at |-> cat, len |-> clen, last |-> clen, size |-> <<>>]
      BY <1>3, <1>10, <2>3 DEF Sized
    <3>2. t = [ok |-> TRUE, at |-> cat, len |-> clen - d, last |-> clen - d, size |-> <<>>]
      BY <1>19, <2>1, <2>3 DEF Sized
    <3> QED
      BY <3>1, <3>2 DEF LessBy
  <2> QED
    BY <1>9, <2>2, <2>3
<1>21. Delimited(y, o, t) = p
  <2>1. c.count \in Nat
    BY <1>10
  <2> QED
    <3>1. CountLess(o, c, d) /\ c.cbr \in BOOLEAN
      BY <1>9, <1>18
    <3> QED
      BY <1>13, <1>15, <1>20, <2>1, <3>1, DelimitedAgain, SMTT(60)
<1>22. t.ok = TRUE /\ ~ (t.last < 0)
  <2>1. t.ok = TRUE /\ t.last = s.last - d
    BY <1>20 DEF LessBy
  <2> QED
    BY <1>13, <1>16, <2>1
<1>23. ParsedAs(y, TRUE, o, t) = p
  BY <1>21, <1>22 DEF ParsedAs
<1> QED
  BY <1>1, <1>17, <1>18, <1>19, <1>23 DEF Parse, ParsedCount

\* In either case: a stream taken out of a packet parses as it did there.
LEMMA StreamAgain ==
    ASSUME NEW x \in Seq(Nat), NEW sd \in BOOLEAN, Parse(x, sd) # Invalid, NEW m \in Nat,
           EndsAt(x, sd, m)
    PROVE  /\ SubSeq(x, 1, m) \in Seq(Nat) /\ m <= Len(x)
           /\ Parse(SubSeq(x, 1, m), sd) = Parse(x, sd)
<1>1. m <= Len(x) /\ (sd = FALSE => m = Len(x))
  BY ParseFits DEF ParseFor, EndsAt
<1>2. Begins(x, SubSeq(x, 1, m), m)
  BY <1>1, FirstBytes
<1>3. SubSeq(x, 1, m) \in Seq(Nat)
  BY <1>2 DEF Begins
<1>4. CASE sd = TRUE
  BY <1>1, <1>2, <1>3, <1>4, ParseAgain
<1>5. CASE sd = FALSE
  <2>1. PICK y \in Seq(Nat) : y = SubSeq(x, 1, m)
    BY <1>3
  <2>2. HasLen(y, m) /\ HasLen(x, m) /\ \A i \in 1 .. m : y[i] = x[i]
    BY <1>1, <1>2, <1>5, <2>1 DEF Begins, HasLen
  <2>3. y = x
    BY <2>2, SameSeq
  <2> QED
    BY <1>1, <2>1, <2>3
<1> QED
  BY <1>4, <1>5

\* A buffer that differs from another one in its first e bytes only.
KeptFrom(a, b, e) ==
    /\ a \in Seq(Nat) /\ b \in Seq(Nat) /\ Len(a) = Len(b)
    /\ \A j \in 1 .. Len(b) : j > e => a[j] = b[j]

LEMMA KeptOn ==
    ASSUME NEW a, NEW b, NEW c, NEW e \in Nat, NEW f \in Nat, NEW g \in Nat,
           KeptFrom(a, b, e), KeptFrom(b, c, f), e <= g, f <= g
    PROVE  KeptFrom(a, c, g)
<1>1. PICK n \in Nat : n = Len(a) /\ n = Len(b) /\ n = Len(c)
  BY DEF KeptFrom
<1>2. a \in Seq(Nat) /\ c \in Seq(Nat)
  BY DEF KeptFrom
<1>3. ASSUME NEW j \in 1 .. n, j > g PROVE a[j] = c[j]
  <2>1. j > e /\ j > f
    BY <1>3
  <2>2. \A i \in 1 .. n : i > e => a[i] = b[i]
    BY <1>1 DEF KeptFrom
  <2>3. \A i \in 1 .. n : i > f => b[i] = c[i]
    BY <1>1 DEF KeptFrom
  <2> QED
    BY <1>3, <2>1, <2>2, <2>3
<1> QED
  BY <1>1, <1>2, <1>3 DEF KeptFrom

LEMMA OverIs ==
    ASSUME NEW buf \in Seq(Nat), NEW to \in Nat, NEW s \in Seq(Nat), NEW e \in Nat,
           to + Len(s) <= e
    PROVE  KeptFrom(Over(buf, to, s), buf, e)
<1>1. PICK n \in Nat, k \in Nat : n = Len(buf) /\ k = Len(s)
  OBVIOUS
<1>2. PICK b : b = Over(buf, to, s)
  OBVIOUS
<1>3. b = [j \in 1 .. n |-> IF j - to \in 1 .. k THEN s[j - to] ELSE buf[j]]
  BY <1>1, <1>2 DEF Over
<1>4. \A j \in 1 .. n : b[j] = IF j - to \in 1 .. k THEN s[j - to] ELSE buf[j]
  BY <1>3
<1>5. \A j \in 1 .. n : b[j] \in Nat
  <2>1. \A j \in 1 .. k : s[j] \in Nat
    BY <1>1
  <2>2. \A j \in 1 .. n : buf[j] \in Nat
    BY <1>1
  <2> QED
    BY <1>4, <2>1, <2>2
<1>6. b \in Seq(Nat) /\ Len(b) = n
  <2>1. b = [j \in 1 .. n |-> b[j]]
    BY <1>3
  <2>2. [j \in 1 .. n |-> b[j]] \in Seq(Nat) /\ Len([j \in 1 .. n |-> b[j]]) = n
    BY <1>5
  <2> QED
    BY <2>1, <2>2, Zenon
<1>7. ASSUME NEW j \in 1 .. n, j > e PROVE b[j] = buf[j]
  <2>1. j - to \notin 1 .. k
    BY <1>1, <1>7
  <2> QED
    BY <1>4, <2>1
<1> QED
  BY <1>1, <1>2, <1>6, <1>7 DEF KeptFrom

\* The recursion of Moved, a frame at a time.
MoveNext(g, to, at, size, i) ==
    Over(g, to + SumFunctionOnSet(size, 1 .. i - 1), SubSeq(g, at[i] + 1, at[i] + size[i]))
IsMoved(f, buf, to, at, size, n) ==
    f = [i \in 0 .. n |-> IF i = 0 THEN buf ELSE MoveNext(f[i - 1], to, at, size, i)]

LEMMA MovedIs ==
    ASSUME NEW buf, NEW to, NEW at, NEW size \in Seq(Nat), NEW n \in Nat, HasLen(size, n)
    PROVE  \E f : IsMoved(f, buf, to, at, size, n) /\ Moved(buf, to, at, size) = f[n]
<1> DEFINE P == {m \in 0 .. n : \E f : IsMoved(f, buf, to, at, size, m)}
<1>1. 0 \in P
  <2> DEFINE f == [s \in 0 .. 0 |-> buf]
  <2>1. IsMoved(f, buf, to, at, size, 0)
    BY DEF IsMoved
  <2> QED
    BY <2>1
<1>2. ASSUME NEW m \in 0 .. n - 1, m \in P PROVE m + 1 \in P
  <2>1. PICK f : IsMoved(f, buf, to, at, size, m)
    BY <1>2
  <2> DEFINE g == [s \in 0 .. m + 1 |-> IF s <= m THEN f[s] ELSE MoveNext(f[m], to, at, size, s)]
  <2>2. IsMoved(g, buf, to, at, size, m + 1)
    <3>1. ASSUME NEW s \in 0 .. m + 1
          PROVE  g[s] = IF s = 0 THEN buf ELSE MoveNext(g[s - 1], to, at, size, s)
      <4>1. CASE s = 0
        BY <2>1, <4>1 DEF IsMoved
      <4>2. CASE s \in 1 .. m
        <5>1. s \in 0 .. m /\ s # 0 /\ s <= m /\ s - 1 \in 0 .. m + 1 /\ s - 1 <= m
          BY <4>2
        <5>2. f[s] = MoveNext(f[s - 1], to, at, size, s)
          BY <2>1, <5>1 DEF IsMoved
        <5>3. g[s] = f[s] /\ g[s - 1] = f[s - 1]
          BY <5>1
        <5> QED
          BY <5>1, <5>2, <5>3, Zenon
      <4>3. CASE s = m + 1
        BY <4>3
      <4> QED
        BY <4>1, <4>2, <4>3
    <3>2. g = [s \in 0 .. m + 1 |-> g[s]]
      OBVIOUS
    <3> HIDE DEF g
    <3>3. g = [s \in 0 .. m + 1 |-> IF s = 0 THEN buf ELSE MoveNext(g[s - 1], to, at, size, s)]
      BY <3>1, <3>2
    <3> QED
      BY <3>3 DEF IsMoved
  <2> QED
    BY <2>2
<1> HIDE DEF P
<1>3. n \in P
  <2>1. \A i \in 0 .. n : i \in P
    BY <1>1, <1>2, InductionTo
  <2> QED
    BY <2>1
<1>4. IsMoved(CHOOSE f : IsMoved(f, buf, to, at, size, n), buf, to, at, size, n)
  BY <1>3 DEF P
<1>5. Moved(buf, to, at, size) = (CHOOSE f : IsMoved(f, buf, to, at, size, n))[n]
  BY Zenon DEF Moved, IsMoved, MoveNext, HasLen
<1> QED
  BY <1>4, <1>5

\* Frames that lie in the buffer, and are all moved up to e.
InBuffer(buf, at, size, n) ==
    \A i \in 1 .. n : at[i] \in Nat /\ at[i] + size[i] <= Len(buf)

LEMMA MovedKeeps ==
    ASSUME NEW buf \in Seq(Nat), NEW to \in Nat, NEW at, NEW size \in Seq(Nat), NEW n \in Nat,
           HasLen(size, n), InBuffer(buf, at, size, n), NEW sum \in Nat, sum = Total(size, n)
    PROVE  KeptFrom(Moved(buf, to, at, size), buf, to + sum)
<1>1. PICK f : IsMoved(f, buf, to, at, size, n) /\ Moved(buf, to, at, size) = f[n]
  BY MovedIs
<1>2. \A i \in 1 .. n : size[i] \in Nat
  BY DEF HasLen
<1>3. PICK e \in Nat : e = to + sum
  OBVIOUS
<1> DEFINE P == {i \in 0 .. n : KeptFrom(f[i], buf, e)}
<1>4. 0 \in P
  <2>1. f[0] = buf
    BY <1>1 DEF IsMoved
  <2>2. KeptFrom(buf, buf, e)
    BY DEF KeptFrom
  <2> QED
    BY <2>1, <2>2
<1>5. ASSUME NEW i \in 0 .. n - 1, i \in P PROVE i + 1 \in P
  <2>1. PICK j \in 1 .. n : j = i + 1 /\ j - 1 = i /\ j \in 0 .. n
    OBVIOUS
  <2>2. f[j] = MoveNext(f[i], to, at, size, j)
    <3>1. f[j] = MoveNext(f[j - 1], to, at, size, j)
      BY <1>1, <2>1 DEF IsMoved
    <3> QED
      BY <2>1, <3>1
  <2>3. PICK g \in Seq(Nat) : g = f[i] /\ KeptFrom(g, buf, e) /\ Len(g) = Len(buf)
    BY <1>5 DEF KeptFrom
  <2>4. PICK a \in Nat, z \in Nat : a = at[j] /\ z = size[j] /\ a + z <= Len(g)
    BY <1>2, <2>1, <2>3 DEF InBuffer
  <2>5. PICK t \in Nat : t = Total(size, i) /\ t + z <= sum
    <3>1. \A k \in 0 .. n : Total(size, k) \in Nat /\ \A l \in 0 .. k : Total(size, l) <= Total(size, k)
      BY <1>2, TotalGrows
    <3>2. \A k \in 1 .. n : size[k] \in Int
      BY <1>2
    <3>3. \A k \in 0 .. n - 1 : Total(size, k + 1) = Total(size, k) + size[k + 1]
      BY <3>2, TotalStep, ZenonT(40)
    <3>4. Total(size, i + 1) = Total(size, i) + z
      BY <2>1, <2>4, <3>3
    <3>5. i \in 0 .. n /\ i + 1 \in 0 .. n /\ n \in 0 .. n /\ i + 1 \in 0 .. n
      OBVIOUS
    <3>6. Total(size, i) \in Nat /\ Total(size, i + 1) <= sum
      BY <3>1, <3>5
    <3> QED
      BY <3>4, <3>6
  <2>6. PICK s \in Seq(Nat) : s = SubSeq(g, a + 1, a + z) /\ Len(s) = z
    <3>1. SubSeq(g, a + 1, a + z) \in Seq(Nat) /\ Len(SubSeq(g, a + 1, a + z)) = z
      <4>1. g \in Seq(Nat) /\ a + z <= Len(g)
        BY <2>3, <2>4
      <4> HIDE DEF P
      <4> QED
        BY <4>1, PartOf, SMTT(30)
    <3> QED
      BY <3>1
  <2>7. f[j] = Over(g, to + t, s)
    BY <2>1, <2>2, <2>3, <2>4, <2>5, <2>6 DEF MoveNext, Total
  <2>8. to + t \in Nat /\ (to + t) + Len(s) <= e
    BY <1>3, <2>5, <2>6, SMTT(30)
  <2>9. KeptFrom(Over(g, to + t, s), g, e)
    BY <2>3, <2>8, OverIs
  <2>10. e <= e
    OBVIOUS
  <2>11. KeptFrom(f[j], buf, e)
    BY <2>3, <2>7, <2>9, <2>10, KeptOn
  <2> QED
    BY <2>1, <2>11
<1> HIDE DEF P
<1>6. n \in P
  <2>1. \A i \in 0 .. n : i \in P
    BY <1>4, <1>5, InductionTo
  <2> QED
    BY <2>1
<1> QED
  BY <1>1, <1>3, <1>6 DEF P

\* A packet that parsed, repacked in place without padding: it takes no more
\* than it did, and nothing behind it changes.
Shrunk(r, buf, dst, end) ==
    \E n \in Nat : n = r.ret /\ n >= 1 /\ n <= end /\ KeptFrom(r.buf, buf, dst + n)

LEMMA RepackedShrinks ==
    ASSUME NEW data \in Seq(Nat), NEW sd \in BOOLEAN, Parse(data, sd) # Invalid,
           NEW end \in Nat, EndsAt(data, sd, end), NEW room \in Nat, end <= room,
           NEW buf \in Seq(Nat), NEW from \in Nat, NEW dst \in Nat, from + end <= Len(buf)
    PROVE  Shrunk(Repacked(buf, from, data, dst, room, sd, FALSE), buf, dst, end)
<1>1. PICK p : p = Parse(data, sd) /\ ParseFor(data, sd, p)
  BY ParseFits
<1>2. PICK q : q = Packed(data[1], p.size, sd, room, FALSE)
  OBVIOUS
<1>3. Rewritten(q, p, room, FALSE)
  <2>1. Parse(data, sd).packet_offset <= room /\ FALSE \in BOOLEAN
    BY DEF EndsAt
  <2> QED
    BY <1>1, <1>2, <2>1, RewrittenIs
<1>4. PICK sum \in Nat, off \in Nat : sum = SumSeq(p.size) /\ off = p.offset /\ off + sum <= end
  BY <1>1, <1>3 DEF Rewritten, EndsAt
<1>5. PICK head \in Seq(Nat), k \in Nat, ret \in Nat :
         /\ head = q.head /\ k = Len(head) /\ ret = q.ret /\ ret > 0
         /\ ret = k + sum /\ k <= off
  <2>1. /\ q.head \in Seq(Nat) /\ q.ret \in Nat /\ q.ret > 0
        /\ q.ret = Len(q.head) + sum /\ Len(q.head) <= off
    BY <1>3, <1>4 DEF Rewritten
  <2> QED
    BY <2>1
<1>6. PICK size \in Seq(Nat), n \in Nat : size = p.size /\ n = p.ret /\ HasLen(size, n)
  BY <1>1 DEF ParseFor, HasLen
<1>7. PICK at : at = [i \in 1 .. n |-> from + off + SumFunctionOnSet(size, 1 .. i - 1)]
  OBVIOUS
<1>8. PICK b : b = Over(buf, dst, head)
  OBVIOUS
<1>9. Repacked(buf, from, data, dst, room, sd, FALSE)
         = [ret |-> ret, buf |-> Moved(b, dst + k, at, size)]
  <2>1. CanCat(NewRp, data, sd)
    BY ValidIs
  <2>2. Repacked(buf, from, data, dst, room, sd, FALSE) = RepackedFrom(buf, from, dst, room, FALSE, p, q)
    BY <1>1, <1>2, <2>1, Zenon DEF Repacked
  <2>3. ~ (q.ret < 0)
    <3>1. ~ (ret < 0)
      BY <1>5
    <3> QED
      BY <1>5, <3>1, Zenon
  <2>4. RepackedAs(buf, from, dst, room, FALSE, p, q) = Moved(b, dst + k, at, size)
    BY <1>4, <1>5, <1>6, <1>7, <1>8, <2>3, Zenon DEF RepackedAs
  <2> QED
    BY <1>5, <2>2, <2>4, Zenon DEF RepackedFrom
<1>10. \A i \in 1 .. n : size[i] \in Nat
  BY <1>6 DEF HasLen
<1>11. sum = Total(size, n)
  BY <1>4, <1>6, SumSeqIs DEF HasLen
<1>12. PICK e \in Nat : e = dst + ret /\ dst + k <= e
  <2>1. ret = k + sum
    BY <1>5
  <2>2. dst + ret \in Nat /\ dst + k <= dst + ret
    BY <2>1
  <2> QED
    BY <2>2
<1>13. b \in Seq(Nat) /\ KeptFrom(b, buf, e) /\ Len(b) = Len(buf)
  <2>1. KeptFrom(b, buf, e)
    <3>1. dst + Len(head) <= e
      BY <1>5, <1>12
    <3> QED
      BY <1>8, <1>12, <3>1, OverIs
  <2> QED
    BY <2>1 DEF KeptFrom
<1>14. InBuffer(b, at, size, n)
  <2>1. ASSUME NEW i \in 1 .. n PROVE at[i] \in Nat /\ at[i] + size[i] <= Len(b)
    <3>1. PICK j \in 0 .. n - 1 : j = i - 1 /\ j + 1 = i /\ j \in 0 .. n /\ i \in 0 .. n /\ n \in 0 .. n
      OBVIOUS
    <3>2. \A l \in 0 .. n : Total(size, l) \in Nat /\ \A g \in 0 .. l : Total(size, g) <= Total(size, l)
      BY <1>10, TotalGrows
    <3>3. \A l \in 0 .. n - 1 : Total(size, l + 1) = Total(size, l) + size[l + 1]
      <4>1. \A l \in 1 .. n : size[l] \in Int
        BY <1>10
      <4> QED
        BY <4>1, TotalStep
    <3>4. PICK t \in Nat, z \in Nat : t = Total(size, j) /\ z = size[i]
      BY <1>10, <3>1, <3>2
    <3>5. Total(size, i) = t + z
      BY <3>1, <3>3, <3>4
    <3>6. t + z <= sum
      BY <1>11, <3>1, <3>2, <3>5
    <3>7. at[i] = from + off + t
      BY <1>7, <3>1, <3>4 DEF Total
    <3>8. from + off + t \in Nat /\ (from + off + t) + z <= Len(buf)
      <4>1. PICK l \in Nat : l = Len(buf) /\ from + end <= l
        OBVIOUS
      <4>2. off + sum <= end
        BY <1>4
      <4> QED
        BY <3>6, <4>1, <4>2
    <3> QED
      BY <1>13, <3>4, <3>7, <3>8
  <2> QED
    BY <2>1 DEF InBuffer
<1>15. KeptFrom(Moved(b, dst + k, at, size), b, e)
  <2>1. dst + k \in Nat /\ (dst + k) + sum = e
    BY <1>5, <1>12
  <2>2. KeptFrom(Moved(b, dst + k, at, size), b, (dst + k) + sum)
    BY <1>6, <1>11, <1>13, <1>14, <2>1, MovedKeeps
  <2> QED
    BY <2>1, <2>2
<1>16. KeptFrom(Moved(b, dst + k, at, size), buf, dst + ret)
  <2>1. e <= e
    OBVIOUS
  <2>2. KeptFrom(Moved(b, dst + k, at, size), buf, e)
    BY <1>13, <1>15, <2>1, KeptOn
  <2> QED
    BY <1>12, <2>2
<1>17. ret >= 1 /\ ret <= end
  <2>1. ret > 0 /\ ret = k + sum /\ k <= off /\ off + sum <= end
    BY <1>4, <1>5
  <2> QED
    BY <2>1
<1>18. PICK r : r = Repacked(buf, from, data, dst, room, sd, FALSE)
  OBVIOUS
<1>19. r.ret = ret /\ r.buf = Moved(b, dst + k, at, size)
  <2>1. r = [ret |-> ret, buf |-> Moved(b, dst + k, at, size)]
    BY <1>9, <1>18, Zenon
  <2> QED
    BY <2>1
<1> QED
  BY <1>16, <1>17, <1>18, <1>19, Zenon DEF Shrunk

\* The recursion of opus_multistream_packet_unpad.
UnpadNext(data, s, n, g) ==
    IF g.ret < 0 THEN g
    ELSE UnpaddedStream(g, SubSeq(g.buf, g.at + 1, Len(data)), s # n,
                        Parse(SubSeq(g.buf, g.at + 1, Len(data)), s # n))
NotUnpadded(data) == [ret |-> 0, buf |-> data, at |-> 0]
IsUnpadded(f, data, k, n) ==
    f = [s \in 0 .. k |-> IF s = 0 THEN NotUnpadded(data) ELSE UnpadNext(data, s, n, f[s - 1])]

LEMMA UnpaddedIs ==
    ASSUME NEW data, NEW n \in Nat
    PROVE  \E f : IsUnpadded(f, data, n, n) /\ MultiUnpadded(data, n) = f[n]
<1> DEFINE P == {m \in 0 .. n : \E f : IsUnpadded(f, data, m, n)}
<1>1. 0 \in P
  <2> DEFINE f == [s \in 0 .. 0 |-> NotUnpadded(data)]
  <2>1. IsUnpadded(f, data, 0, n)
    BY DEF IsUnpadded
  <2> QED
    BY <2>1
<1>2. ASSUME NEW m \in 0 .. n - 1, m \in P PROVE m + 1 \in P
  <2>1. PICK f : IsUnpadded(f, data, m, n)
    BY <1>2
  <2> DEFINE g == [s \in 0 .. m + 1 |-> IF s <= m THEN f[s] ELSE UnpadNext(data, s, n, f[m])]
  <2>2. IsUnpadded(g, data, m + 1, n)
    <3>1. ASSUME NEW s \in 0 .. m + 1
          PROVE  g[s] = IF s = 0 THEN NotUnpadded(data) ELSE UnpadNext(data, s, n, g[s - 1])
      <4>1. CASE s = 0
        BY <2>1, <4>1 DEF IsUnpadded
      <4>2. CASE s \in 1 .. m
        <5>1. s \in 0 .. m /\ s # 0 /\ s <= m /\ s - 1 \in 0 .. m + 1 /\ s - 1 <= m
          BY <4>2
        <5>2. f[s] = UnpadNext(data, s, n, f[s - 1])
          BY <2>1, <5>1 DEF IsUnpadded
        <5>3. g[s] = f[s] /\ g[s - 1] = f[s - 1]
          BY <5>1
        <5> QED
          BY <5>1, <5>2, <5>3, Zenon
      <4>3. CASE s = m + 1
        BY <4>3
      <4> QED
        BY <4>1, <4>2, <4>3
    <3>2. g = [s \in 0 .. m + 1 |-> g[s]]
      OBVIOUS
    <3> HIDE DEF g
    <3>3. g = [s \in 0 .. m + 1 |-> IF s = 0 THEN NotUnpadded(data) ELSE UnpadNext(data, s, n, g[s - 1])]
      BY <3>1, <3>2
    <3> QED
      BY <3>3 DEF IsUnpadded
  <2> QED
    BY <2>2
<1> HIDE DEF P
<1>3. n \in P
  <2>1. \A i \in 0 .. n : i \in P
    BY <1>1, <1>2, InductionTo
  <2> QED
    BY <2>1
<1>4. IsUnpadded(CHOOSE f : IsUnpadded(f, data, n, n), data, n, n)
  BY <1>3 DEF P
<1>5. MultiUnpadded(data, n) = (CHOOSE f : IsUnpadded(f, data, n, n))[n]
  BY DEF MultiUnpadded, IsUnpadded, NotUnpadded, UnpadNext
<1> QED
  BY <1>4, <1>5

\* What is in front of the stream that comes next may have changed, and what was
\* written is not ahead of it.
InPlace(g, at, data, s) ==
    \E n \in Nat : /\ n = g.ret /\ g.at = at /\ n <= at /\ at <= Len(data) /\ s <= n
                   /\ KeptFrom(g.buf, data, at)

LEMMA UnpadStep ==
    ASSUME NEW data \in Seq(Nat), NEW s \in Nat, NEW n \in Nat, NEW t \in Nat, NEW g, NEW at \in Nat,
           InPlace(g, at, data, s), NEW rest \in Seq(Nat), rest = SubSeq(data, at + 1, Len(data)),
           Parse(rest, t # n) # Invalid, NEW end \in Nat, EndsAt(rest, t # n, end)
    PROVE  InPlace(UnpadNext(data, t, n, g), at + end, data, s + 1)
<1>1. PICK done \in Nat : /\ done = g.ret /\ g.at = at /\ done <= at /\ at <= Len(data) /\ s <= done
                          /\ KeptFrom(g.buf, data, at)
  BY DEF InPlace
<1>2. PICK buf \in Seq(Nat), size \in Nat :
         /\ buf = g.buf /\ size = Len(buf) /\ size = Len(data) /\ KeptFrom(buf, data, at)
         /\ \A j \in 1 .. size : j > at => buf[j] = data[j]
  <2>1. /\ g.buf \in Seq(Nat) /\ Len(g.buf) = Len(data)
        /\ \A j \in 1 .. Len(data) : j > at => g.buf[j] = data[j]
    BY <1>1 DEF KeptFrom
  <2>2. PICK buf : buf = g.buf
    OBVIOUS
  <2>3. buf \in Seq(Nat) /\ Len(buf) \in Nat
    BY <2>1, <2>2
  <2> QED
    BY <1>1, <2>1, <2>2, <2>3, Zenon
<1>3. PICK len \in Nat : at + len = size
  <2>1. size - at \in Nat /\ at + (size - at) = size
    BY <1>1, <1>2
  <2> QED
    BY <2>1
<1>4. HasLen(rest, len) /\ \A i \in 1 .. len : rest[i] = data[at + i]
  <2>1. /\ Len(SubSeq(data, at + 1, at + len)) = len
        /\ \A i \in 1 .. len : SubSeq(data, at + 1, at + len)[i] = data[at + i]
    BY <1>2, <1>3, PartOf
  <2> QED
    BY <1>2, <1>3, <2>1 DEF HasLen
<1>5. SubSeq(buf, at + 1, size) = rest
  <2>1. PICK w \in Seq(Nat) : /\ w = SubSeq(buf, at + 1, at + len) /\ HasLen(w, len)
                              /\ \A i \in 1 .. len : w[i] = buf[at + i]
    <3>1. /\ SubSeq(buf, at + 1, at + len) \in Seq(Nat) /\ Len(SubSeq(buf, at + 1, at + len)) = len
          /\ \A i \in 1 .. len : SubSeq(buf, at + 1, at + len)[i] = buf[at + i]
      <4>1. buf \in Seq(Nat) /\ at + len <= Len(buf)
        BY <1>2, <1>3
      <4> QED
        BY <4>1, PartOf, SMTT(30)
    <3> QED
      BY <3>1 DEF HasLen
  <2>2. \A i \in 1 .. len : at + i \in 1 .. size /\ at + i > at
    BY <1>3
  <2>3. \A i \in 1 .. len : w[i] = rest[i]
    BY <1>2, <1>4, <2>1, <2>2
  <2>4. w = rest
    BY <1>4, <2>1, <2>3, SameSeq
  <2> QED
    BY <1>3, <2>1, <2>4
<1>6. PICK sd \in BOOLEAN : sd = (t # n)
  OBVIOUS
<1>7. PICK p : p = Parse(rest, sd) /\ p # Invalid
  BY <1>6
<1>8. ~ (p.ret < 0)
  BY <1>7, ValidRet
<1>9. PICK part : part = SubSeq(rest, 1, end)
  OBVIOUS
<1>10. part \in Seq(Nat) /\ end <= len /\ Parse(part, sd) = p /\ EndsAt(part, sd, end) /\ p.packet_offset = end
  <2>1. EndsAt(rest, sd, end)
    BY <1>6
  <2>2. part \in Seq(Nat) /\ end <= Len(rest) /\ Parse(part, sd) = p
    BY <1>7, <1>9, <2>1, StreamAgain, ZenonT(40)
  <2>3. end <= len
    BY <1>4, <2>2 DEF HasLen
  <2> QED
    BY <1>7, <2>1, <2>2, <2>3 DEF EndsAt
<1>11. PICK r : r = Repacked(buf, at, part, done, len, sd, FALSE)
  OBVIOUS
<1>12. UnpadNext(data, t, n, g) = UnpaddedNext(g, p, r)
  <2>1. ~ (g.ret < 0)
    <3>1. ~ (done < 0)
      OBVIOUS
    <3> QED
      BY <1>1, <3>1, Zenon
  <2>2. UnpadNext(data, t, n, g) = UnpaddedStream(g, rest, sd, p)
    BY <1>1, <1>2, <1>5, <1>6, <1>7, <2>1, Zenon DEF UnpadNext
  <2>3. Len(rest) = len
    BY <1>4 DEF HasLen
  <2> QED
    BY <1>1, <1>2, <1>8, <1>9, <1>10, <1>11, <2>2, <2>3, Zenon DEF UnpaddedStream
<1>13. Shrunk(r, buf, done, end)
  <2>1. at + end <= Len(buf) /\ Parse(part, sd) # Invalid
    BY <1>2, <1>3, <1>7, <1>10
  <2> QED
    BY <1>10, <1>11, <2>1, RepackedShrinks
<1>14. PICK k \in Nat : k = r.ret /\ k >= 1 /\ k <= end /\ KeptFrom(r.buf, buf, done + k)
  BY <1>13 DEF Shrunk
<1>15. UnpadNext(data, t, n, g) = [ret |-> done + k, buf |-> r.buf, at |-> at + end]
  <2>1. ~ (r.ret < 0)
    <3>1. ~ (k < 0)
      OBVIOUS
    <3> QED
      BY <1>14, <3>1, Zenon
  <2> QED
    BY <1>1, <1>10, <1>12, <1>14, <2>1, Zenon DEF UnpaddedNext
<1>16. done + k \in Nat /\ at + end \in Nat /\ done + k <= at + end /\ at + end <= Len(data) /\ s + 1 <= done + k
       /\ at <= at + end
  <2>1. PICK l \in Nat : l = Len(data) /\ l = size
    BY <1>2
  <2>2. done <= at /\ s <= done /\ at + len = size /\ end <= len /\ k >= 1 /\ k <= end
    BY <1>1, <1>3, <1>10, <1>14
  <2> QED
    BY <2>1, <2>2
<1>17. KeptFrom(r.buf, data, at + end)
  BY <1>2, <1>14, <1>16, KeptOn
<1>18. PICK u : u = UnpadNext(data, t, n, g)
  OBVIOUS
<1>19. u.ret = done + k /\ u.buf = r.buf /\ u.at = at + end
  BY <1>15, <1>18
<1> QED
  BY <1>16, <1>17, <1>18, <1>19, Zenon DEF InPlace

\* The rest of the packet from at on parses and ends at end.
RestParses(data, at, sd, end) ==
    /\ at <= Len(data) /\ SubSeq(data, at + 1, Len(data)) \in Seq(Nat)
    /\ Len(SubSeq(data, at + 1, Len(data))) = Len(data) - at
    /\ Parse(SubSeq(data, at + 1, Len(data)), sd) # Invalid
    /\ EndsAt(SubSeq(data, at + 1, Len(data)), sd, end)

StreamReadAt(data, t, n, g, at, end) ==
    /\ at = g.at /\ RestParses(data, at, t # n, end)
    /\ StreamNext(data, t, n, g).at = at + end

StreamReadOn(data, t, n, g) ==
    g.ok = TRUE /\ \E at \in Nat, end \in Nat : StreamReadAt(data, t, n, g, at, end)

StreamNextIs(k, g, p, rest) ==
    k = IF ~ g.ok \/ p.ret < 0 THEN [g EXCEPT !.ok = FALSE]
        ELSE [ok |-> TRUE, at |-> g.at + p.packet_offset,
              parts |-> Append(g.parts, [at |-> g.at, data |-> SubSeq(rest, 1, p.packet_offset)])]

\* A stream that is read on parses, and so did those in front of it.
LEMMA StreamRead ==
    ASSUME NEW data \in Seq(Nat), NEW s \in Nat, NEW n \in Nat, NEW t \in Nat, NEW g,
           StreamsFor(g, data, s), StreamNext(data, t, n, g).ok = TRUE
    PROVE  StreamReadOn(data, t, n, g)
<1>1. PICK rest : rest = SubSeq(data, g.at + 1, Len(data))
  OBVIOUS
<1>2. PICK sd \in BOOLEAN : sd = (t # n)
  OBVIOUS
<1>3. PICK p : p = Parse(rest, sd)
  OBVIOUS
<1>4. PICK k : k = StreamNext(data, t, n, g) /\ StreamNextIs(k, g, p, rest)
  BY <1>1, <1>2, <1>3, Zenon DEF StreamNext, StreamNextIs
<1>5. g.ok \in BOOLEAN
  BY DEF StreamsFor
<1>6. ASSUME ~ g.ok \/ p.ret < 0 PROVE FALSE
  <2>1. k = [g EXCEPT !.ok = FALSE]
    BY <1>4, <1>6, Zenon DEF StreamNextIs
  <2>2. k.ok = FALSE
    BY <1>5, <2>1
  <2>3. k.ok = TRUE
    BY <1>4
  <2> QED
    BY <2>2, <2>3
<1>7. g.ok = TRUE
  BY <1>5, <1>6
<1>8. PICK at \in Nat : at = g.at /\ at <= Len(data)
  BY <1>7 DEF StreamsFor
<1>9. PICK len \in Nat : at + len = Len(data)
  <2>1. Len(data) - at \in Nat /\ at + (Len(data) - at) = Len(data)
    BY <1>8
  <2> QED
    BY <2>1, Zenon
<1>10. rest \in Seq(Nat) /\ Len(rest) = Len(data) - at
  <2>1. SubSeq(data, at + 1, at + len) \in Seq(Nat) /\ Len(SubSeq(data, at + 1, at + len)) = len
    BY <1>9, PartOf, SMTT(30)
  <2>2. Len(data) - at = len
    BY <1>9
  <2> QED
    BY <1>1, <1>8, <1>9, <2>1, <2>2
<1>11. p # Invalid
  BY <1>3, <1>6, <1>10, ValidRet
<1>12. PICK end \in Nat : end = p.packet_offset
  BY <1>3, <1>10, <1>11, ParseFits DEF ParseFor
<1>13. k.at = at + end
  <2>1. k = [ok |-> TRUE, at |-> g.at + p.packet_offset,
             parts |-> Append(g.parts, [at |-> g.at, data |-> SubSeq(rest, 1, p.packet_offset)])]
    BY <1>4, <1>6, Zenon DEF StreamNextIs
  <2>2. k.at = g.at + p.packet_offset
    BY <2>1
  <2> QED
    BY <1>8, <1>12, <2>2
<1>14. RestParses(data, at, t # n, end)
  BY <1>1, <1>2, <1>3, <1>8, <1>10, <1>11, <1>12, Zenon DEF RestParses, EndsAt
<1>15. StreamReadAt(data, t, n, g, at, end)
  BY <1>4, <1>8, <1>13, <1>14, Zenon DEF StreamReadAt
<1> QED
  BY <1>7, <1>8, <1>12, <1>15, Zenon DEF StreamReadOn

\* Of streams that all parse, unpadding refuses none.
LEMMA UnpadAccepts ==
    ASSUME NEW data \in Seq(Nat), NEW n \in Nat, n >= 1, StreamsOf(data, n).ok
    PROVE  MultiUnpadded(data, n).ret > 0
<1>1. PICK f : IsStreams(f, data, n, n) /\ StreamsOf(data, n) = f[n]
  BY StreamsAre DEF StreamsOf
<1>2. PICK u : IsUnpadded(u, data, n, n) /\ MultiUnpadded(data, n) = u[n]
  BY UnpaddedIs
<1> DEFINE Goes(s) == f[s].ok = TRUE => \E at \in Nat : at = f[s].at /\ InPlace(u[s], at, data, s)
           P == {s \in 0 .. n : StreamsFor(f[s], data, s) /\ Goes(s)}
<1>3. 0 \in P
  <2>1. f[0] = NoStreams /\ u[0] = NotUnpadded(data)
    BY <1>1, <1>2 DEF IsStreams, IsUnpadded
  <2>2. StreamsFor(NoStreams, data, 0)
    <3>1. <<>> \in Seq(Part) /\ Len(<<>>) = 0
      OBVIOUS
    <3> QED
      BY <3>1 DEF StreamsFor, NoStreams
  <2>3. KeptFrom(data, data, 0)
    BY DEF KeptFrom
  <2>4. NotUnpadded(data).ret = 0 /\ NotUnpadded(data).at = 0 /\ NotUnpadded(data).buf = data
    BY DEF NotUnpadded
  <2>5. InPlace(NotUnpadded(data), 0, data, 0)
    <3>1. 0 \in Nat /\ 0 <= 0 /\ 0 <= Len(data)
      OBVIOUS
    <3> QED
      BY <2>3, <2>4, <3>1, Zenon DEF InPlace
  <2>6. NoStreams.at = 0
    BY DEF NoStreams
  <2>7. Goes(0)
    BY <2>1, <2>5, <2>6
  <2> QED
    BY <2>1, <2>2, <2>7
<1>4. ASSUME NEW s \in 0 .. n - 1, s \in P PROVE s + 1 \in P
  <2>1. PICK t \in 1 .. n : t = s + 1 /\ t - 1 = s /\ t \in 0 .. n /\ t # 0
    OBVIOUS
  <2>2. f[t] = StreamNext(data, t, n, f[s]) /\ u[t] = UnpadNext(data, t, n, u[s])
    <3>1. f[t] = StreamNext(data, t, n, f[t - 1]) /\ u[t] = UnpadNext(data, t, n, u[t - 1])
      BY <1>1, <1>2, <2>1 DEF IsStreams, IsUnpadded
    <3> QED
      BY <2>1, <3>1
  <2>3. StreamsFor(f[s], data, s) /\ Goes(s)
    BY <1>4
  <2>4. StreamsFor(f[t], data, t)
    BY <2>1, <2>2, <2>3, StreamStep
  <2>5. ASSUME f[t].ok = TRUE PROVE \E at \in Nat : at = f[t].at /\ InPlace(u[t], at, data, t)
    <3>1. StreamNext(data, t, n, f[s]).ok = TRUE
      BY <2>2, <2>5
    <3>2. f[s].ok = TRUE
      <4>1. StreamReadOn(data, t, n, f[s])
        <5>1. s \in Nat /\ t \in Nat
          OBVIOUS
        <5> QED
          BY <2>3, <3>1, <5>1, StreamRead, Zenon
      <4> QED
        BY <4>1, Zenon DEF StreamReadOn
    <3>3. PICK at \in Nat, end \in Nat : /\ at = f[s].at /\ RestParses(data, at, t # n, end)
                                         /\ StreamNext(data, t, n, f[s]).at = at + end
      <4>1. StreamReadOn(data, t, n, f[s])
        <5>1. s \in Nat /\ t \in Nat
          OBVIOUS
        <5> QED
          BY <2>3, <3>1, <5>1, StreamRead, Zenon
      <4> QED
        BY <4>1, Zenon DEF StreamReadOn, StreamReadAt
    <3>4. InPlace(u[s], at, data, s)
      BY <2>3, <3>2, <3>3
    <3>5. PICK rest \in Seq(Nat) : /\ rest = SubSeq(data, at + 1, Len(data))
                                   /\ Parse(rest, t # n) # Invalid /\ EndsAt(rest, t # n, end)
      BY <3>3 DEF RestParses
    <3>6. InPlace(UnpadNext(data, t, n, u[s]), at + end, data, s + 1)
      <4>1. s \in Nat /\ t \in Nat
        OBVIOUS
      <4> QED
        BY <3>4, <3>5, <4>1, UnpadStep
    <3>7. at + end \in Nat
      OBVIOUS
    <3> QED
      BY <2>1, <2>2, <3>3, <3>6, <3>7
  <2> QED
    BY <2>1, <2>4, <2>5
<1> HIDE DEF P
<1>5. n \in P
  <2>1. \A s \in 0 .. n : s \in P
    BY <1>3, <1>4, InductionTo
  <2> QED
    BY <2>1
<1>6. StreamsFor(f[n], data, n) /\ Goes(n)
  BY <1>5 DEF P
<1>7. f[n].ok = TRUE
  BY <1>1, <1>6 DEF StreamsFor
<1>8. PICK at \in Nat : InPlace(u[n], at, data, n)
  BY <1>6, <1>7
<1>9. PICK r \in Nat : r = u[n].ret /\ n <= r
  BY <1>8 DEF InPlace
<1>10. r > 0
  BY <1>9
<1> QED
  BY <1>2, <1>9, <1>10

\* The streams in front of the last one are those of the whole packet.
LEMMA BeforeLast ==
    ASSUME NEW data, NEW n \in Nat, n >= 1
    PROVE  StreamsOf(data, n) = StreamNext(data, n, n, FirstStreams(data, n - 1, n))
<1>1. PICK k \in Nat : k = n - 1 /\ k + 1 = n
  <2>1. n - 1 \in Nat /\ (n - 1) + 1 = n
    OBVIOUS
  <2> QED
    BY <2>1
<1>2. PICK f : IsStreams(f, data, n, n) /\ StreamsOf(data, n) = f[n]
  BY StreamsAre DEF StreamsOf
<1>3. PICK g : IsStreams(g, data, k, n) /\ FirstStreams(data, k, n) = g[k]
  BY StreamsAre
<1> DEFINE P == {s \in 0 .. k : f[s] = g[s]}
<1>4. 0 \in P
  BY <1>1, <1>2, <1>3 DEF IsStreams
<1>5. ASSUME NEW s \in 0 .. k - 1, s \in P PROVE s + 1 \in P
  <2>1. PICK t \in 1 .. k : t = s + 1 /\ t - 1 = s /\ t \in 0 .. k /\ t \in 0 .. n /\ t # 0
    BY <1>1
  <2>2. f[t] = StreamNext(data, t, n, f[t - 1]) /\ g[t] = StreamNext(data, t, n, g[t - 1])
    BY <1>2, <1>3, <2>1 DEF IsStreams
  <2>3. f[t - 1] = g[t - 1]
    BY <1>5, <2>1
  <2>4. f[t] = g[t]
    BY <2>2, <2>3, Zenon
  <2> QED
    BY <2>1, <2>4
<1> HIDE DEF P
<1>6. k \in P
  <2>1. \A s \in 0 .. k : s \in P
    BY <1>4, <1>5, InductionTo
  <2> QED
    BY <2>1
<1>7. f[k] = g[k]
  BY <1>6 DEF P
<1>8. f[n] = StreamNext(data, n, n, f[k])
  <2>1. n \in 0 .. n /\ n # 0 /\ n - 1 = k
    BY <1>1
  <2>2. f[n] = StreamNext(data, n, n, f[n - 1])
    BY <1>2, <2>1 DEF IsStreams
  <2> QED
    BY <2>1, <2>2
<1> QED
  BY <1>1, <1>2, <1>3, <1>7, <1>8

\* A packet that parses can be padded.
LEMMA PadAccepts ==
    ASSUME NEW data \in Seq(Nat), Parse(data, FALSE) # Invalid, NEW more \in Nat
    PROVE  Padded(data, more).ret > 0
<1>1. PICK room \in Nat : room = Len(data) + more
  OBVIOUS
<1>2. Parse(data, FALSE).packet_offset <= room
  <2>1. Parse(data, FALSE).packet_offset = Len(data)
    BY ParseFits DEF ParseFor
  <2>2. Len(data) <= room
    BY <1>1
  <2> QED
    BY <2>1, <2>2, Zenon
<1>3. PICK buf : buf = Over(data \o [i \in 1 .. more |-> 0], more, data)
  OBVIOUS
<1>4. FALSE \in BOOLEAN /\ TRUE \in BOOLEAN
  OBVIOUS
<1>5. Repacked(buf, more, data, 0, room, FALSE, TRUE).ret > 0
  BY <1>2, <1>4, RepackedRet
<1> QED
  BY <1>1, <1>3, <1>5, Zenon DEF Padded

LEMMA UnpadOne ==
    ASSUME NEW data \in Seq(Nat), Parse(data, FALSE) # Invalid
    PROVE  Repacked(data, 0, data, 0, Len(data), FALSE, FALSE).ret > 0
<1>1. PICK room \in Nat : room = Len(data)
  OBVIOUS
<1>2. Parse(data, FALSE).packet_offset <= room
  <2>1. Parse(data, FALSE).packet_offset = Len(data)
    BY ParseFits DEF ParseFor
  <2>2. room <= room
    OBVIOUS
  <2> QED
    BY <1>1, <2>1, <2>2, Zenon
<1>4. FALSE \in BOOLEAN
  OBVIOUS
<1>5. Repacked(data, 0, data, 0, room, FALSE, FALSE).ret > 0
  BY <1>2, <1>4, RepackedRet
<1> QED
  BY <1>1, <1>5, Zenon

\* And so can the last of several streams.
LEMMA PadLastAccepts ==
    ASSUME NEW data \in Seq(Nat), NEW n \in Nat, n >= 1, StreamsOf(data, n).ok, NEW more \in Nat
    PROVE  /\ FirstStreams(data, n - 1, n).ok
           /\ Padded(SubSeq(data, FirstStreams(data, n - 1, n).at + 1, Len(data)), more).ret > 0
<1>1. PICK k \in Nat : k = n - 1
  <2>1. n - 1 \in Nat
    OBVIOUS
  <2> QED
    BY <2>1
<1>2. PICK g : g = FirstStreams(data, k, n) /\ StreamsFor(g, data, k)
  BY StreamsFit
<1>3. StreamNext(data, n, n, g).ok = TRUE
  <2>1. StreamsFor(StreamsOf(data, n), data, n)
    BY StreamsFit DEF StreamsOf
  <2>2. StreamsOf(data, n).ok = TRUE
    BY <2>1 DEF StreamsFor
  <2> QED
    BY <1>1, <1>2, <2>2, BeforeLast
<1>4. PICK at \in Nat, end \in Nat : at = g.at /\ RestParses(data, at, n # n, end)
  <2>1. StreamReadOn(data, n, n, g)
    BY <1>2, <1>3, StreamRead, Zenon
  <2> QED
    BY <2>1, Zenon DEF StreamReadOn, StreamReadAt
<1>5. g.ok = TRUE
  <2>1. StreamReadOn(data, n, n, g)
    BY <1>2, <1>3, StreamRead, Zenon
  <2> QED
    BY <2>1, Zenon DEF StreamReadOn
<1>6. (n # n) = FALSE
  OBVIOUS
<1>7. PICK rest \in Seq(Nat) : rest = SubSeq(data, at + 1, Len(data)) /\ Parse(rest, FALSE) # Invalid
  BY <1>4, <1>6 DEF RestParses
<1>8. Padded(rest, more).ret > 0
  BY <1>7, PadAccepts
<1> QED
  BY <1>1, <1>2, <1>4, <1>5, <1>7, <1>8

\* A TOC byte over its configuration: the four values of its last two bits.
Quarter(t, q) == \E x \in {0, 1, 2, 3} : t = 4 * q + x

LEMMA Quarters ==
    ASSUME NEW t \in Nat
    PROVE  \E q \in Nat : Quarter(t, q) /\ Config(t) = 4 * q
<1>1. PICK q \in Nat : q = t \div 4
  OBVIOUS
<1>2. PICK x \in {0, 1, 2, 3} : x = t % 4
  OBVIOUS
<1>3. t = 4 * q + x
  BY <1>1, <1>2
<1>4. t - (t % 4) = 4 * q
  BY <1>2, <1>3
<1> QED
  BY <1>3, <1>4, Zenon DEF Quarter, Config

LEMMA LengthOfQuarter ==
    ASSUME NEW a \in Nat, NEW b \in Nat, NEW q \in Nat, Quarter(a, q), Quarter(b, q)
    PROVE  SamplesPerFrame(a, 8000) = SamplesPerFrame(b, 8000)
<1>1. PICK x \in {0, 1, 2, 3} : a = 4 * q + x
  BY DEF Quarter
<1>2. PICK y \in {0, 1, 2, 3} : b = 4 * q + y
  BY DEF Quarter
<1>3. PICK e \in Nat, d \in {0, 1} : q = 2 * e + d
  <2>1. q \div 2 \in Nat /\ q % 2 \in {0, 1} /\ q = 2 * (q \div 2) + (q % 2)
    OBVIOUS
  <2> QED
    BY <2>1
<1>4. a \div 8 = e
  BY <1>1, <1>3
<1>5. b \div 8 = e
  BY <1>2, <1>3
<1>6. (a >= 128) = (b >= 128) /\ (a >= 96) = (b >= 96)
  BY <1>1, <1>2
<1>7. CASE a >= 128
  BY <1>4, <1>5, <1>6, <1>7 DEF SamplesPerFrame
<1>8. CASE ~ (a >= 128)
  <2>1. ~ (b >= 128)
    BY <1>6, <1>8
  <2>2. CASE a >= 96
    BY <1>4, <1>5, <1>6, <1>8, <2>1, <2>2 DEF SamplesPerFrame
  <2>3. CASE ~ (a >= 96)
    BY <1>4, <1>5, <1>6, <1>8, <2>1, <2>3 DEF SamplesPerFrame
  <2> QED
    BY <2>2, <2>3
<1> QED
  BY <1>7, <1>8

\* Packets of one configuration have frames of one length.
LEMMA LengthOfConfig ==
    ASSUME NEW a \in Nat, NEW b \in Nat, Config(a) = Config(b)
    PROVE  SamplesPerFrame(a, 8000) = SamplesPerFrame(b, 8000)
<1>1. PICK p \in Nat : Quarter(a, p) /\ Config(a) = 4 * p
  BY Quarters
<1>2. PICK q \in Nat : Quarter(b, q) /\ Config(b) = 4 * q
  BY Quarters
<1>3. p = q
  <2>1. 4 * p = 4 * q
    BY <1>1, <1>2, Zenon
  <2> QED
    BY <2>1
<1> QED
  BY <1>1, <1>2, <1>3, LengthOfQuarter

\* Why a packet that parses is not submitted: it is of another configuration,
\* or it would be more than 120 ms.
Differs(r, data) == r.frames # <<>> /\ Config(r.toc) # Config(data[1])
TooLong(r, data) ==
    Duration(Len(r.frames) + Parse(data, FALSE).ret, data[1]) > 960
Refused(r, data) == Differs(r, data) \/ TooLong(r, data)

LEMMA CatAccepts ==
    ASSUME NEW r, RpInv(r), NEW data \in Seq(Nat), Parse(data, FALSE) # Invalid
    PROVE  CanCat(r, data, FALSE) \/ Refused(r, data)
<1>1. FALSE \in BOOLEAN
  OBVIOUS
<1>2. PICK p : p = Parse(data, FALSE) /\ ParseFor(data, FALSE, p)
  BY <1>1, ParseFits
<1>3. data # <<>> /\ data[1] \in Nat /\ CanCat(NewRp, data, FALSE)
  BY <1>1, ValidIs
<1>4. PICK n \in Nat : n = p.ret /\ n = NbFrames(data) /\ n >= 1
  BY <1>2 DEF ParseFor
<1>5. CASE r.frames = <<>>
  <2>1. NewRp.frames = <<>>
    BY DEF NewRp
  <2>2. Toc(r, data) = Toc(NewRp, data) /\ FrameSize(r, data) = FrameSize(NewRp, data)
    BY <1>5, <2>1 DEF Toc, FrameSize
  <2>3. CanCat(r, data, FALSE)
    BY <1>3, <1>5, <2>1, <2>2, ZenonT(40) DEF CanCat, Fits
  <2> QED
    BY <2>3
<1>6. CASE r.frames # <<>> /\ Config(r.toc) # Config(data[1])
  <2>1. Differs(r, data)
    BY <1>6 DEF Differs
  <2> QED
    BY <2>1, Zenon DEF Refused
<1>7. CASE r.frames # <<>> /\ Config(r.toc) = Config(data[1])
  <2>1. PICK m \in Nat : m = Len(r.frames)
    BY DEF RpInv
  <2>2. PICK t \in Nat : t = data[1]
    BY <1>3
  <2>3. PICK S : S = SamplesPerFrame(t, 8000)
    OBVIOUS
  <2>4. S \in Nat
    <3>1. S \in {20, 40, 80, 160, 320, 480}
      BY <2>3, FrameLength
    <3> QED
      BY <3>1
  <2>5. Toc(r, data) = r.toc /\ FrameSize(r, data) = S
    <3>1. Toc(r, data) = r.toc /\ FrameSize(r, data) = r.framesize
      BY <1>7 DEF Toc, FrameSize
    <3>2. r.toc \in Nat /\ r.framesize = SamplesPerFrame(r.toc, 8000)
      BY <1>7 DEF RpInv
    <3>3. SamplesPerFrame(r.toc, 8000) = S
      BY <1>7, <2>2, <2>3, <3>2, LengthOfConfig
    <3> QED
      BY <3>1, <3>2, <3>3
  <2>6. CASE (n + m) * S <= 960
    <3>1. Fits(r, data)
      BY <1>4, <2>1, <2>5, <2>6, ZenonT(40) DEF Fits
    <3>2. NbFrames(data) >= 1 /\ p.ret >= 1
      BY <1>4
    <3>3. CanCat(r, data, FALSE)
      BY <1>2, <1>3, <1>7, <2>5, <3>1, <3>2, Zenon DEF CanCat
    <3> QED
      BY <3>3
  <2>7. CASE ~ ((n + m) * S <= 960)
    <3>1. n + m = m + n
      OBVIOUS
    <3>2. (n + m) * S > 960
      BY <2>4, <2>7
    <3>3. (m + n) * S > 960
      BY <3>1, <3>2, ZenonT(40)
    <3>4. Duration(m + n, t) > 960
      BY <2>3, <3>3 DEF Duration
    <3>5. TooLong(r, data)
      BY <1>2, <1>4, <2>1, <2>2, <3>4, ZenonT(40) DEF TooLong
    <3>6. Refused(r, data)
      BY <3>5, Zenon DEF Refused
    <3> QED
      BY <3>6
  <2> QED
    BY <2>6, <2>7
<1> QED
  BY <1>5, <1>6, <1>7, Zenon

\* The property, by the call it is about.
AcceptedFor(o) ==
    /\ o.call \in {"pad", "unpad"} /\ Parse(o.data, FALSE).ret > 0 => o.ret > 0
    /\ o.call \in {"multi_unpad", "multi_pad"} /\ StreamsOf(o.m.data, o.m.streams).ok =>
          o.ret > 0
    /\ o.call = "cat" /\ Parse(o.data, FALSE).ret > 0 =>
          o.ok \/ (o.before.frames # <<>> /\ Config(o.before.toc) # Config(o.data[1]))
               \/ Duration(Len(o.before.frames) + Parse(o.data, FALSE).ret, o.data[1]) > 960

LEMMA AcceptedIs == (ValidAccepted <=> AcceptedFor(op)) /\ (ValidAccepted' <=> AcceptedFor(op'))
BY Zenon DEF ValidAccepted, AcceptedFor

OneAccepted(o) ==
    o.call \in {"pad", "unpad"} /\ Parse(o.data, FALSE).ret > 0 => o.ret > 0
MultiAccepted(o) ==
    o.call \in {"multi_unpad", "multi_pad"} /\ StreamsOf(o.m.data, o.m.streams).ok => o.ret > 0
CatAccepted(o) ==
    o.call = "cat" /\ Parse(o.data, FALSE).ret > 0 =>
        o.ok \/ Differs(o.before, o.data) \/ TooLong(o.before, o.data)

LEMMA AllAccepted ==
    ASSUME NEW o, OneAccepted(o), MultiAccepted(o), CatAccepted(o)
    PROVE  AcceptedFor(o)
<1>1. o.call \in {"pad", "unpad"} /\ Parse(o.data, FALSE).ret > 0 => o.ret > 0
  BY Zenon DEF OneAccepted
<1>2. o.call \in {"multi_unpad", "multi_pad"} /\ StreamsOf(o.m.data, o.m.streams).ok => o.ret > 0
  BY Zenon DEF MultiAccepted
<1>3. Differs(o.before, o.data) =>
         o.before.frames # <<>> /\ Config(o.before.toc) # Config(o.data[1])
  BY Zenon DEF Differs
<1>4. TooLong(o.before, o.data) =>
         Duration(Len(o.before.frames) + Parse(o.data, FALSE).ret, o.data[1]) > 960
  BY Zenon DEF TooLong
<1>5. o.call = "cat" /\ Parse(o.data, FALSE).ret > 0 =>
         o.ok \/ (o.before.frames # <<>> /\ Config(o.before.toc) # Config(o.data[1]))
               \/ Duration(Len(o.before.frames) + Parse(o.data, FALSE).ret, o.data[1]) > 960
  BY <1>3, <1>4, Zenon DEF CatAccepted
<1> QED
  BY <1>1, <1>2, <1>5, Zenon DEF AcceptedFor

LEMMA ElseAccepted ==
    ASSUME NEW o, o.call \notin {"pad", "unpad", "multi_unpad", "multi_pad", "cat"}
    PROVE  AcceptedFor(o)
<1>1. OneAccepted(o)
  BY DEF OneAccepted
<1>2. MultiAccepted(o)
  BY DEF MultiAccepted
<1>3. CatAccepted(o)
  BY DEF CatAccepted
<1> QED
  BY <1>1, <1>2, <1>3, AllAccepted, Zenon

LEMMA AcceptedMulti ==
    ASSUME NEW o, o.call \in {"multi_unpad", "multi_pad"},
           StreamsOf(o.m.data, o.m.streams).ok => o.ret > 0
    PROVE  AcceptedFor(o)
<1>1. OneAccepted(o)
  BY DEF OneAccepted
<1>2. MultiAccepted(o)
  BY Zenon DEF MultiAccepted
<1>3. CatAccepted(o)
  BY DEF CatAccepted
<1> QED
  BY <1>1, <1>2, <1>3, AllAccepted, Zenon

LEMMA AcceptedCat ==
    ASSUME NEW o, o.call = "cat", Parse(o.data, FALSE).ret > 0 => o.ok \/ Refused(o.before, o.data)
    PROVE  AcceptedFor(o)
<1>1. OneAccepted(o)
  BY DEF OneAccepted
<1>2. MultiAccepted(o)
  BY DEF MultiAccepted
<1>3. CatAccepted(o)
  BY Zenon DEF CatAccepted, Refused
<1> QED
  BY <1>1, <1>2, <1>3, AllAccepted, Zenon

LEMMA PadValid ==
    ASSUME NEW data \in Packets, NEW more \in MoreBytes, Pad(data, more)
    PROVE  ValidAccepted'
<1>1. data \in Seq(Nat) /\ more \in Nat
  BY RepacketizerAssumption, BytesAreNumbers
<1>2. PICK ret : ret = Padded(data, more).ret
  OBVIOUS
<1>3. PICK buf : op' = [call |-> "pad", data |-> data, more |-> more, ret |-> ret, buf |-> buf]
  BY <1>2, Zenon DEF Pad
<1>4. op'.call = "pad" /\ op'.data = data /\ op'.ret = ret
  BY <1>3
<1>5. ASSUME Parse(op'.data, FALSE).ret > 0 PROVE op'.ret > 0
  <2>1. Parse(data, FALSE) # Invalid
    <3>1. Parse(data, FALSE).ret > 0
      BY <1>4, <1>5, Zenon
    <3>2. FALSE \in BOOLEAN
      OBVIOUS
    <3> QED
      BY <1>1, <3>1, <3>2, ValidRet
  <2> QED
    BY <1>1, <1>2, <1>4, <2>1, PadAccepts
<1>6. OneAccepted(op')
  BY <1>5, Zenon DEF OneAccepted
<1>7. MultiAccepted(op') /\ CatAccepted(op')
  BY <1>4 DEF MultiAccepted, CatAccepted
<1> QED
  BY <1>6, <1>7, AllAccepted, AcceptedIs, Zenon

LEMMA UnpadValid ==
    ASSUME NEW data \in Packets, Unpad(data)
    PROVE  ValidAccepted'
<1>1. data \in Seq(Nat)
  BY RepacketizerAssumption, BytesAreNumbers
<1>2. PICK ret : ret = Repacked(data, 0, data, 0, Len(data), FALSE, FALSE).ret
  OBVIOUS
<1>3. PICK buf : op' = [call |-> "unpad", data |-> data, ret |-> ret, buf |-> buf]
  BY <1>2, Zenon DEF Unpad
<1>4. op'.call = "unpad" /\ op'.data = data /\ op'.ret = ret
  BY <1>3
<1>5. ASSUME Parse(op'.data, FALSE).ret > 0 PROVE op'.ret > 0
  <2>1. Parse(data, FALSE) # Invalid
    <3>1. Parse(data, FALSE).ret > 0
      BY <1>4, <1>5, Zenon
    <3>2. FALSE \in BOOLEAN
      OBVIOUS
    <3> QED
      BY <1>1, <3>1, <3>2, ValidRet
  <2> QED
    BY <1>1, <1>2, <1>4, <2>1, UnpadOne
<1>6. OneAccepted(op')
  BY <1>5, Zenon DEF OneAccepted
<1>7. MultiAccepted(op') /\ CatAccepted(op')
  BY <1>4 DEF MultiAccepted, CatAccepted
<1> QED
  BY <1>6, <1>7, AllAccepted, AcceptedIs, Zenon

LEMMA MultiUnpadValid ==
    ASSUME NEW m \in MultiPackets, MultiUnpad(m)
    PROVE  ValidAccepted'
<1>1. m.data \in Seq(Nat) /\ m.streams \in Nat /\ m.streams >= 1
  BY RepacketizerAssumption, BytesAreNumbers
<1>2. PICK ret : ret = MultiUnpadded(m.data, m.streams).ret
  OBVIOUS
<1>3. PICK buf : op' = [call |-> "multi_unpad", m |-> m, ret |-> ret, buf |-> buf]
  BY <1>2, Zenon DEF MultiUnpad
<1>4. op'.call = "multi_unpad" /\ op'.m = m /\ op'.ret = ret
  BY <1>3
<1>5. ASSUME StreamsOf(op'.m.data, op'.m.streams).ok PROVE op'.ret > 0
  <2>1. StreamsOf(m.data, m.streams).ok
    BY <1>4, <1>5, Zenon
  <2> QED
    BY <1>1, <1>2, <1>4, <2>1, UnpadAccepts
<1> QED
  BY <1>4, <1>5, AcceptedMulti, AcceptedIs

LEMMA MultiPadValid ==
    ASSUME NEW m \in MultiPackets, NEW more \in MoreBytes, MultiPad(m, more)
    PROVE  ValidAccepted'
<1>1. /\ m.data \in Seq(Nat) /\ m.streams \in Nat /\ m.streams >= 1
      /\ more \in Nat
  BY RepacketizerAssumption, BytesAreNumbers
<1>2. PICK head : head = FirstStreams(m.data, m.streams - 1, m.streams)
  OBVIOUS
<1>3. PICK r : r = Padded(SubSeq(m.data, head.at + 1, Len(m.data)), more)
  OBVIOUS
<1>4. PICK ret : ret = IF head.ok THEN r.ret ELSE INVALID_PACKET
  OBVIOUS
<1>5. PICK buf : op' = [call |-> "multi_pad", m |-> m, ret |-> ret, buf |-> buf]
  BY <1>2, <1>3, <1>4, Zenon DEF MultiPad
<1>6. op'.call = "multi_pad" /\ op'.m = m /\ op'.ret = ret
  BY <1>5
<1>7. ASSUME StreamsOf(op'.m.data, op'.m.streams).ok PROVE op'.ret > 0
  <2>1. StreamsOf(m.data, m.streams).ok
    BY <1>6, <1>7, Zenon
  <2>2. head.ok /\ r.ret > 0
    BY <1>1, <1>2, <1>3, <2>1, PadLastAccepts
  <2>3. ret = r.ret
    BY <1>4, <2>2, Zenon
  <2> QED
    BY <1>6, <2>2, <2>3
<1> QED
  BY <1>6, <1>7, AcceptedMulti, AcceptedIs

LEMMA CatValid ==
    ASSUME RpInv(rp), NEW data \in ToSubmit, Cat(data)
    PROVE  ValidAccepted'
<1>1. data \in Seq(Nat)
  BY RepacketizerAssumption, BytesAreNumbers
<1>2. PICK r : r = rp
  OBVIOUS
<1>3. PICK ok : ok = CanCat(r, data, FALSE)
  OBVIOUS
<1>4. op' = [call |-> "cat", data |-> data, before |-> r, ok |-> ok]
  BY <1>2, <1>3, Zenon DEF Cat
<1>5. op'.call = "cat" /\ op'.data = data /\ op'.before = r /\ op'.ok = ok
  BY <1>4
<1>6. ASSUME Parse(op'.data, FALSE).ret > 0 PROVE op'.ok \/ Refused(op'.before, op'.data)
  <2>1. Parse(data, FALSE) # Invalid
    <3>1. Parse(data, FALSE).ret > 0
      BY <1>5, <1>6, Zenon
    <3>2. FALSE \in BOOLEAN
      OBVIOUS
    <3> QED
      BY <1>1, <3>1, <3>2, ValidRet
  <2>2. CanCat(r, data, FALSE) \/ Refused(r, data)
    BY <1>1, <1>2, <2>1, CatAccepts
  <2> QED
    BY <1>3, <1>5, <2>2, Zenon
<1> QED
  BY <1>5, <1>6, AcceptedCat, AcceptedIs

LEMMA ToolsValid ==
    ASSUME WithinInv, Next
    PROVE  ValidAccepted'
<1>0. RpInv(rp)
  BY DEF WithinInv
<1>1. ASSUME NEW data \in ToSubmit, Cat(data) PROVE ValidAccepted'
  BY <1>0, <1>1, CatValid
<1>2. ASSUME Reset PROVE ValidAccepted'
  <2>1. op'.call = "none"
    BY <1>2 DEF Reset, NoOp
  <2> QED
    BY <2>1, ElseAccepted, AcceptedIs
<1>3. ASSUME NEW begin, NEW end, NEW maxlen, NEW sd, NEW pad, OutRange(begin, end, maxlen, sd, pad)
      PROVE ValidAccepted'
  <2>1. op'.call = "out"
    BY <1>3 DEF OutRange
  <2> QED
    BY <2>1, ElseAccepted, AcceptedIs
<1>4. ASSUME NEW data \in Packets, NEW more \in MoreBytes, Pad(data, more) PROVE ValidAccepted'
  BY <1>4, PadValid
<1>5. ASSUME NEW data \in Packets, Unpad(data) PROVE ValidAccepted'
  BY <1>5, UnpadValid
<1>6. ASSUME NEW m \in MultiPackets, MultiUnpad(m) PROVE ValidAccepted'
  BY <1>6, MultiUnpadValid
<1>7. ASSUME NEW m \in MultiPackets, NEW more \in MoreBytes, MultiPad(m, more) PROVE ValidAccepted'
  BY <1>7, MultiPadValid
<1>8. ASSUME NEW data, NEW sd, ParseBytes(data, sd) PROVE ValidAccepted'
  <2>1. op'.call = "parse"
    BY <1>8 DEF ParseBytes
  <2> QED
    BY <2>1, ElseAccepted, AcceptedIs
<1> QED
  BY <1>1, <1>2, <1>3, <1>4, <1>5, <1>6, <1>7, <1>8 DEF Next

LEMMA StreamsValid ==
    ASSUME Encoder \/ OwnDecoder \/ ForeignDecoder
    PROVE  ValidAccepted'
<1>1. op'.call \in {"enc_init", "refused", "encode", "header", "decode"}
  BY StreamCalls
<1> QED
  BY <1>1, ElseAccepted, AcceptedIs

\* What parses is accepted: padding and unpadding a packet, of one stream or of
\* several, succeeds, and a packet is refused by the repacketizer only if it is
\* of another configuration or makes more than 120 ms.
THEOREM ValidIsAccepted == MSSpec => []ValidAccepted
<1>1. MSInit => WithinInv /\ ValidAccepted
  <2>1. SUFFICES ASSUME MSInit PROVE WithinInv /\ ValidAccepted
    OBVIOUS
  <2>2. rp = NewRp /\ op.call = "none"
    BY <2>1 DEF MSInit, Init, NoOp
  <2>3. RpInv(rp)
    BY <2>2, NewRpInv DEF RpInv
  <2>4. WithinInv
    BY <2>2, <2>3 DEF WithinInv, ParsedInv
  <2>5. ValidAccepted
    BY <2>2, ElseAccepted, AcceptedIs
  <2> QED
    BY <2>4, <2>5
<1>2. WithinInv /\ ValidAccepted /\ [MSNext]_allVars => (WithinInv /\ ValidAccepted)'
  <2>1. ASSUME WithinInv, ValidAccepted, UNCHANGED allVars PROVE WithinInv' /\ ValidAccepted'
    <3>1. rp' = rp /\ op' = op
      BY <2>1 DEF allVars, vars
    <3>2. WithinInv'
      BY <2>1, <3>1 DEF WithinInv, ParsedInv
    <3>3. ValidAccepted'
      BY <2>1, <3>1, AcceptedIs, Zenon
    <3> QED
      BY <3>2, <3>3
  <2> QED
    BY <2>1, ToolsWithin, StreamsWithin, ToolsValid, StreamsValid DEF MSNext, Tools
<1> QED
  BY <1>1, <1>2, PTL DEF MSSpec
=============================================================================
