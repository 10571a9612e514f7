--------------------------- MODULE OsMallocProofs ---------------------------
(***************************************************************************)
(* Theorems about OsMalloc, for any number and shape of size classes, any  *)
(* requests and both pointer widths, on the little-endian machines: where  *)
(* LowByte is not 0 a grant can leave the pool (OsMallocOr32.cfg) and none *)
(* of this is claimed.                                                     *)
(***************************************************************************)
EXTENDS OsMalloc, TLAPS

\* Every block an owner holds still has all its flags.
LiveFlagged == \A b \in live : Span(b) \subseteq used[b.cls]

\* What keeps the wrapped multi-piece scan inside the pool.
PiecePositive == \A i \in Slots(Big) : piece[i] > 0

\* The inductive invariant, for the machines it is one on.
HeapInv ==
    /\ LowByte = 0
    /\ TypeOK
    /\ LiveFlagged
    /\ PiecePositive
    /\ NoOverlap

\* The constants as the proofs use them.
LEMMA Constants ==
    /\ Big \in Class
    /\ \A c \in Class : Cnt[c] \in Nat /\ Cnt[c] > 0 /\ Bytes[c] \in Nat /\ Bytes[c] > 0
BY ClassAssumption DEF Class, Big

\* A class below the biggest one is only searched for single blocks.
LEMMA SmallSingle ==
    ASSUME NEW size, NEW c \in Class, NEW n, Tries(size, c, n), c # Big
    PROVE  n = 1
BY ClassAssumption DEF Tries, Class, Big

\* A run that the search finds lies inside the class and none of it is flagged:
\* the byte behind the flags stops a scan that wrapped round.
LEMMA FoundFits ==
    ASSUME HeapInv, NEW c \in Class, NEW n \in Nat \ {0}, NEW i \in Nat,
           Found(c, n, i), c = Big \/ n = 1
    PROVE  /\ i .. i + n - 1 \subseteq Slots(c)
           /\ (i .. i + n - 1) \cap used[c] = {}
<1>1. /\ pos[c] \in Nat /\ pos[c] < Cnt[c]
      /\ Cnt[c] \in Nat /\ Cnt[c] > 0
      /\ used[c] \subseteq Slots(c)
  BY Constants DEF HeapInv, TypeOK, Slots
<1>2. Run(c, i, n)
  BY DEF Found, Later, Earlier
<1>3. \A j \in 0 .. n - 1 : ~ Flagged(c, i + j)
  BY <1>2 DEF Run
<1>4. i + n <= Cnt[c]
  <2>1. CASE i \in Later(c, n)
    BY <1>1, <2>1 DEF Later
  <2>2. CASE i \in Earlier(c, n) /\ n = 1
    BY <1>1, <2>2 DEF Earlier
  <2>3. CASE i \in Earlier(c, n) /\ c = Big
    <3>1. i <= pos[c]
      BY <1>1, <2>3 DEF Earlier
    <3>2. SUFFICES ASSUME i + n > Cnt[c] PROVE FALSE
      BY <1>1
    <3>3. Cnt[c] - i \in 0 .. n - 1 /\ i + (Cnt[c] - i) = Cnt[c]
      BY <1>1, <3>1, <3>2
    <3>4. Cnt[c] + LowByte = Cnt[c] /\ ~ Flagged(c, Cnt[c])
      <4>1. LowByte = 0
        BY DEF HeapInv
      <4>2. ~ Flagged(c, i + (Cnt[c] - i))
        BY <1>3, <3>3
      <4> QED
        BY <1>1, <3>3, <4>1, <4>2
    <3>5. piece[0] # 0
      BY <1>1, <2>3 DEF HeapInv, PiecePositive, Slots
    <3> QED
      BY <1>1, <3>4, <3>5 DEF Flagged
  <2> QED
    BY <2>1, <2>2, <2>3 DEF Found
<1>5. ASSUME NEW k \in i .. i + n - 1 PROVE k \in Slots(c) /\ k \notin used[c]
  <2>1. k - i \in 0 .. n - 1 /\ i + (k - i) = k
    OBVIOUS
  <2>2. ~ Flagged(c, k)
    BY <1>3, <2>1
  <2> QED
    BY <1>1, <1>4, <2>2 DEF Flagged, Slots
<1> QED
  BY <1>5

\* What os_malloc hands out: a block of the class, inside it, of which no part
\* is flagged - so no part of it belongs to anyone else.
LEMMA GrantIsFree ==
    ASSUME HeapInv, NEW size \in Nat, NEW b \in Candidates(size), Grants(size, b)
    PROVE  /\ b \in Blocks
           /\ b.idx \in Slots(b.cls)
           /\ Span(b) \subseteq Slots(b.cls)
           /\ Span(b) \cap used[b.cls] = {}
           /\ \A d \in live : d.cls = b.cls => Span(b) \cap Span(d) = {}
<1>1. /\ b \in Blocks
      /\ b.idx \in Slots(b.cls)
      /\ b.cls \in Class /\ b.idx \in Nat /\ b.cnt \in Nat \ {0}
  <2>1. PICK c \in Class :
           b \in [cls : {c}, idx : Slots(c), cnt : 1 .. Cnt[Big], size : {size}]
    BY DEF Candidates
  <2> QED
    BY <2>1, Constants DEF Blocks, Slots
<1>2. b.cls = Big \/ b.cnt = 1
  BY <1>1, SmallSingle DEF Grants
<1>3. Found(b.cls, b.cnt, b.idx)
  BY DEF Grants
<1>4. Span(b) \subseteq Slots(b.cls) /\ Span(b) \cap used[b.cls] = {}
  BY <1>1, <1>2, <1>3, FoundFits DEF Span
<1>5. \A d \in live : d.cls = b.cls => Span(b) \cap Span(d) = {}
  BY <1>4 DEF HeapInv, LiveFlagged
<1> QED
  BY <1>1, <1>4, <1>5

\* Taking b off the heap: the state os_free(b) leaves behind.
LEMMA FreeKeepsOthers ==
    ASSUME NEW u, u \in [Class -> SUBSET Nat], NEW b \in Blocks, NEW d \in Blocks,
           Span(d) \subseteq u[d.cls],
           b.cls = d.cls => Span(b) \cap Span(d) = {}
    PROVE  Span(d) \subseteq UsedWithout(u, b)[d.cls]
<1>1. b.idx \in Span(b)
  BY DEF Span, Blocks
<1>2. d.cls \in Class /\ b.cls \in Class
  BY DEF Blocks
<1> QED
  BY <1>1, <1>2 DEF UsedWithout

LEMMA FreeType ==
    ASSUME NEW u \in [Class -> SUBSET Nat], \A c \in Class : u[c] \subseteq Slots(c),
           NEW p \in [Slots(Big) -> Nat], \A i \in Slots(Big) : p[i] > 0,
           NEW b \in Blocks
    PROVE  /\ UsedWithout(u, b) \in [Class -> SUBSET Nat]
           /\ \A c \in Class : UsedWithout(u, b)[c] \subseteq Slots(c)
           /\ PieceWithout(p, b) \in [Slots(Big) -> Nat]
           /\ \A i \in Slots(Big) : PieceWithout(p, b)[i] > 0
<1>1. b.cls \in Class
  BY DEF Blocks
<1>2. /\ UsedWithout(u, b) \in [Class -> SUBSET Nat]
      /\ \A c \in Class : UsedWithout(u, b)[c] \subseteq Slots(c)
  BY <1>1 DEF UsedWithout
<1>3. /\ PieceWithout(p, b) \in [Slots(Big) -> Nat]
      /\ \A i \in Slots(Big) : PieceWithout(p, b)[i] > 0
  <2>1. CASE SearchIndex(b.idx) /\ b.cls = Big
    <3>1. PieceWithout(p, b) = [p EXCEPT ![b.idx] = 1]
      BY <2>1 DEF PieceWithout
    <3>2. [p EXCEPT ![b.idx] = 1] \in [Slots(Big) -> Nat]
      OBVIOUS
    <3>3. \A i \in Slots(Big) : [p EXCEPT ![b.idx] = 1][i] \in {1, p[i]}
      OBVIOUS
    <3> QED
      BY <3>1, <3>2, <3>3
  <2>2. CASE ~ (SearchIndex(b.idx) /\ b.cls = Big)
    <3>1. PieceWithout(p, b) = p
      BY <2>2 DEF PieceWithout
    <3> QED
      BY <3>1
  <2> QED
    BY <2>1, <2>2
<1> QED
  BY <1>2, <1>3

LEMMA GrantType ==
    ASSUME TypeOK, PiecePositive, NEW b \in Blocks, Span(b) \subseteq Slots(b.cls)
    PROVE  /\ UsedWith(b) \in [Class -> SUBSET Nat]
           /\ \A c \in Class : UsedWith(b)[c] \subseteq Slots(c)
           /\ PieceWith(b) \in [Slots(Big) -> Nat]
           /\ \A i \in Slots(Big) : PieceWith(b)[i] > 0
           /\ \A c \in Class : used[c] \subseteq UsedWith(b)[c]
           /\ Span(b) \subseteq UsedWith(b)[b.cls]
<1>1. b.cls \in Class /\ b.cnt \in Nat /\ b.cnt > 0
  BY DEF Blocks
<1>2. Slots(b.cls) \subseteq Nat
  BY <1>1, Constants DEF Slots
<1> QED
  BY <1>1, <1>2 DEF TypeOK, PiecePositive, UsedWith, PieceWith

-----------------------------------------------------------------------------
LEMMA InitInv == LowByte = 0 /\ Init => HeapInv
<1> SUFFICES ASSUME LowByte = 0, Init PROVE HeapInv
  OBVIOUS
<1>1. TypeOK
  BY Constants DEF Init, TypeOK, Slots
<1>2. LiveFlagged /\ NoOverlap
  BY DEF Init, LiveFlagged, NoOverlap
<1>3. PiecePositive
  BY DEF Init, PiecePositive
<1> QED
  BY <1>1, <1>2, <1>3 DEF HeapInv

LEMMA MallocInv ==
    ASSUME HeapInv, NEW size \in Sizes, Malloc(size)
    PROVE  HeapInv'
<1>1. CASE UNCHANGED vars
  BY <1>1 DEF vars, HeapInv, TypeOK, LiveFlagged, PiecePositive, NoOverlap
<1>2. ASSUME NEW b \in Candidates(size), Grants(size, b),
             used'  = UsedWith(b),
             piece' = PieceWith(b),
             pos'   = [pos EXCEPT ![b.cls] = b.idx],
             live'  = live \cup {b}
      PROVE  HeapInv'
  <2>1. size \in Nat
    BY SizeAssumption
  <2>2. /\ b \in Blocks
        /\ b.idx \in Slots(b.cls)
        /\ Span(b) \subseteq Slots(b.cls)
        /\ \A d \in live : d.cls = b.cls => Span(b) \cap Span(d) = {}
    BY <1>2, <2>1, GrantIsFree
  <2>3. b.cls \in Class /\ b.idx \in Nat
    BY <2>2 DEF Blocks
  <2>4. TypeOK'
    BY <1>2, <2>2, <2>3, GrantType DEF HeapInv, TypeOK
  <2>5. LiveFlagged'
    BY <1>2, <2>2, GrantType DEF HeapInv, TypeOK, LiveFlagged, Blocks
  <2>6. PiecePositive'
    BY <1>2, <2>2, GrantType DEF HeapInv, PiecePositive
  <2>7. NoOverlap'
    BY <1>2, <2>2 DEF HeapInv, NoOverlap
  <2> QED
    BY <2>4, <2>5, <2>6, <2>7 DEF HeapInv
<1> QED
  BY <1>1, <1>2 DEF Malloc, Grant, Refuse

LEMMA FreeInv ==
    ASSUME HeapInv, NEW b \in live, Free(b)
    PROVE  HeapInv'
<1>1. b \in Blocks /\ live \subseteq Blocks
  BY DEF HeapInv, TypeOK
<1>2. TypeOK' /\ PiecePositive'
  BY <1>1, FreeType DEF Free, HeapInv, TypeOK, PiecePositive
<1>3. LiveFlagged'
  <2> SUFFICES ASSUME NEW d \in live, d # b PROVE Span(d) \subseteq used'[d.cls]
    BY DEF Free, LiveFlagged
  <2>1. b.cls = d.cls => Span(b) \cap Span(d) = {}
    BY DEF HeapInv, NoOverlap
  <2> QED
    BY <1>1, <2>1, FreeKeepsOthers DEF Free, HeapInv, LiveFlagged, TypeOK
<1>4. NoOverlap'
  BY DEF Free, HeapInv, NoOverlap
<1> QED
  BY <1>2, <1>3, <1>4 DEF HeapInv

LEMMA ReallocInv ==
    ASSUME HeapInv, NEW b \in live, NEW size \in Sizes, Realloc(b, size)
    PROVE  HeapInv'
<1>1. b \in Blocks /\ live \subseteq Blocks /\ size \in Nat
  BY SizeAssumption DEF HeapInv, TypeOK
<1>2. CASE ReallocRejects(b)
  BY <1>1, <1>2 DEF ReallocRejects, HeapInv, TypeOK, LiveFlagged, PiecePositive, NoOverlap
<1>3. CASE ReallocKeeps(b, size)
  <2> DEFINE kept == [b EXCEPT !.size = size]
  <2>1. /\ kept \in Blocks /\ kept.cls = b.cls /\ Span(kept) = Span(b)
        /\ live' = (live \ {b}) \cup {kept}
        /\ UNCHANGED <<used, pos, piece>>
    BY <1>1, <1>3 DEF ReallocKeeps, Blocks, Span
  <2> HIDE DEF kept
  <2>2. TypeOK' /\ PiecePositive'
    BY <1>1, <2>1 DEF HeapInv, TypeOK, PiecePositive
  <2>3. LiveFlagged'
    BY <2>1 DEF HeapInv, LiveFlagged
  <2>4. NoOverlap'
    BY <2>1 DEF HeapInv, NoOverlap
  <2> QED
    BY <2>2, <2>3, <2>4 DEF HeapInv
<1>4. CASE ReallocMoves(b, size) /\ Refuses(size) /\ live' = live \ {b}
           /\ used' = UsedWithout(used, b) /\ piece' = PieceWithout(piece, b)
           /\ UNCHANGED pos
  <2>1. Free(b)
    BY <1>4 DEF Free
  <2> QED
    BY <2>1, FreeInv
<1>5. ASSUME NEW new \in Candidates(size), Grants(size, new),
             used'  = UsedWithout(UsedWith(new), b),
             piece' = PieceWithout(PieceWith(new), b),
             pos'   = [pos EXCEPT ![new.cls] = new.idx],
             live'  = (live \ {b}) \cup {new}
      PROVE  HeapInv'
  <2>1. /\ new \in Blocks
        /\ new.idx \in Slots(new.cls)
        /\ Span(new) \subseteq Slots(new.cls)
        /\ \A d \in live : d.cls = new.cls => Span(new) \cap Span(d) = {}
    BY <1>1, <1>5, GrantIsFree
  <2>2. new.cls \in Class /\ new.idx \in Nat
    BY <2>1 DEF Blocks
  <2>3. /\ UsedWith(new) \in [Class -> SUBSET Nat]
        /\ \A c \in Class : UsedWith(new)[c] \subseteq Slots(c)
        /\ PieceWith(new) \in [Slots(Big) -> Nat]
        /\ \A i \in Slots(Big) : PieceWith(new)[i] > 0
        /\ \A c \in Class : used[c] \subseteq UsedWith(new)[c]
        /\ Span(new) \subseteq UsedWith(new)[new.cls]
    BY <2>1, GrantType DEF HeapInv
  <2>4. TypeOK' /\ PiecePositive'
    <3>1. /\ used' \in [Class -> SUBSET Nat]
          /\ \A c \in Class : used'[c] \subseteq Slots(c)
          /\ piece' \in [Slots(Big) -> Nat]
          /\ \A i \in Slots(Big) : piece'[i] > 0
      BY <1>1, <1>5, <2>3, FreeType
    <3>2. pos' \in [Class -> Nat] /\ \A c \in Class : pos'[c] \in Slots(c)
      BY <1>5, <2>1, <2>2 DEF HeapInv, TypeOK
    <3>3. live' \subseteq Blocks
      BY <1>1, <1>5, <2>1
    <3> QED
      BY <3>1, <3>2, <3>3 DEF TypeOK, PiecePositive
  <2>5. LiveFlagged'
    <3> SUFFICES ASSUME NEW d \in live' PROVE Span(d) \subseteq used'[d.cls]
      BY DEF LiveFlagged
    <3>1. d \in Blocks /\ d.cls \in Class
      BY <1>1, <1>5, <2>1 DEF Blocks
    <3>2. Span(d) \subseteq UsedWith(new)[d.cls]
      BY <1>5, <2>3, <3>1 DEF HeapInv, LiveFlagged
    <3>3. b.cls = d.cls => Span(b) \cap Span(d) = {}
      BY <1>5, <2>1 DEF HeapInv, NoOverlap
    <3> QED
      BY <1>1, <1>5, <2>3, <3>1, <3>2, <3>3, FreeKeepsOthers
  <2>6. NoOverlap'
    BY <1>5, <2>1 DEF HeapInv, NoOverlap
  <2> QED
    BY <2>4, <2>5, <2>6 DEF HeapInv
<1> QED
  BY <1>2, <1>3, <1>4, <1>5 DEF Realloc, ReallocMoves

LEMMA NextInv == HeapInv /\ [Next]_vars => HeapInv'
<1> SUFFICES ASSUME HeapInv, [Next]_vars PROVE HeapInv'
  OBVIOUS
<1>1. CASE \E size \in Sizes : Malloc(size)
  BY <1>1, MallocInv
<1>2. CASE \E b \in live : Free(b)
  BY <1>2, FreeInv
<1>3. CASE \E b \in live, size \in Sizes : Realloc(b, size)
  BY <1>3, ReallocInv
<1>4. CASE UNCHANGED vars
  BY <1>4 DEF vars, HeapInv, TypeOK, LiveFlagged, PiecePositive, NoOverlap
<1> QED
  BY <1>1, <1>2, <1>3, <1>4 DEF Next, FreeForeign

THEOREM HeapInvariant == LowByte = 0 /\ Spec => []HeapInv
<1> SUFFICES ASSUME LowByte = 0 PROVE Spec => []HeapInv
  OBVIOUS
<1>1. Init => HeapInv
  BY InitInv
<1> QED
  BY <1>1, NextInv, PTL DEF Spec

-----------------------------------------------------------------------------
(* What the invariant gives.                                               *)

\* Every variable of the heap keeps its type.
THEOREM HeapTypeOK == LowByte = 0 /\ Spec => []TypeOK
BY HeapInvariant, PTL DEF HeapInv

\* os_malloc never hands out a byte that somebody else still owns.
THEOREM HeapNoOverlap == LowByte = 0 /\ Spec => []NoOverlap
BY HeapInvariant, PTL DEF HeapInv

\* Every block handed out lies inside its class, although the wrapped scan for
\* several pieces checks no bound.
THEOREM HeapWithinPool == LowByte = 0 /\ Spec => []WithinPool
<1>1. HeapInv => WithinPool
  <2> SUFFICES ASSUME HeapInv PROVE WithinPool
    OBVIOUS
  <2>1. ASSUME NEW b \in live PROVE Span(b) \subseteq Slots(b.cls)
    <3>1. b.cls \in Class
      BY DEF HeapInv, TypeOK, Blocks
    <3> QED
      BY <3>1 DEF HeapInv, TypeOK, LiveFlagged
  <2>2. piece[0] # 0
    <3>1. 0 \in Slots(Big)
      BY Constants DEF Slots
    <3> QED
      BY <3>1 DEF HeapInv, PiecePositive
  <2> QED
    BY <2>1, <2>2 DEF WithinPool
<1> QED
  BY <1>1, HeapInvariant, PTL

\* A block that stays with its owner through a call keeps all its flags, so
\* that no later call can hand out a part of it.
THEOREM HeapOthersKept == LowByte = 0 /\ Spec => OthersKept
<1>1. HeapInv' => \A b \in live \cap live' : Span(b) \subseteq used'[b.cls]
  BY DEF HeapInv, LiveFlagged
<1>2. HeapInv /\ [Next]_vars => [\A b \in live \cap live' : Span(b) \subseteq used'[b.cls]]_vars
  BY <1>1, NextInv
<1> QED
  BY <1>2, HeapInvariant, PTL DEF Spec, OthersKept

-----------------------------------------------------------------------------
(* The room a block has.                                                   *)

\* The shift and the mask of os_malloc round up.
LEMMA PiecesCover ==
    ASSUME NEW size \in Nat
    PROVE  size <= Pieces(size) * Bytes[Big]
<1> DEFINE B == Bytes[Big]
           S == size + B - 1
<1>1. B \in Nat /\ B > 0 /\ S \in Int
  BY Constants
<1> HIDE DEF B
<1>2. S = B * (S \div B) + (S % B) /\ S % B < B /\ S \div B \in Int
  BY <1>1
<1>3. size <= B * (S \div B)
  BY <1>1, <1>2
<1>4. B * (S \div B) = (S \div B) * B
  BY <1>1, <1>2
<1> QED
  BY <1>1, <1>3, <1>4 DEF Pieces, B

\* The inductive form of Roomy.
Fits(b, p) ==
    /\ b.size <= Capacity(b)
    /\ IF b.cls = Big THEN p[b.idx] = b.cnt ELSE b.cnt = 1
RoomInv == \A b \in live : Fits(b, piece)

\* A granted block has the room that was asked for, on every promotion.
LEMMA GrantFits ==
    ASSUME HeapInv, NEW size \in Nat, NEW b \in Candidates(size), Grants(size, b)
    PROVE  Fits(b, PieceWith(b))
<1>1. /\ b \in Blocks /\ b.idx \in Slots(b.cls)
      /\ b.cls \in Class /\ b.cnt \in Nat \ {0} /\ b.size = size
  BY GrantIsFree DEF Blocks, Grants
<1>2. Bytes[b.cls] \in Nat /\ Bytes[Big] \in Nat /\ Bytes[b.cls] > 0
  BY <1>1, Constants
<1>3. PICK first \in 1 .. b.cls :
        /\ Starts(size, first)
        /\ b.cnt = IF first = Big THEN Pieces(size) ELSE 1
  BY DEF Grants, Tries
<1>4. first \in Class /\ Bytes[first] \in Nat
  BY <1>1, Constants, ClassAssumption DEF Class
<1>5. size <= Capacity(b)
  <2>1. CASE first = Big
    <3>1. b.cls = Big
      BY <1>1, <1>3, <2>1, ClassAssumption DEF Class, Big
    <3> QED
      BY <1>1, <1>3, <2>1, <3>1, PiecesCover DEF Capacity
  <2>2. CASE first # Big
    <3>1. b.cnt = 1 /\ size <= Bytes[first]
      BY <1>3, <2>2 DEF Starts
    <3>2. Bytes[first] <= Bytes[b.cls]
      <4>1. first = b.cls \/ first < b.cls
        BY <1>1, <1>4 DEF Class
      <4>2. first < b.cls => Bytes[first] < Bytes[b.cls]
        BY <1>1, <1>4, ClassAssumption
      <4> QED
        BY <1>2, <1>4, <4>1, <4>2
    <3> QED
      BY <1>2, <1>4, <3>1, <3>2 DEF Capacity
  <2> QED
    BY <2>1, <2>2
<1>6. IF b.cls = Big THEN PieceWith(b)[b.idx] = b.cnt ELSE b.cnt = 1
  <2>1. b.cls # Big => b.cnt = 1
    BY <1>1, SmallSingle DEF Grants
  <2>2. b.cls = Big => PieceWith(b)[b.idx] = b.cnt
    BY <1>1 DEF PieceWith, HeapInv, TypeOK
  <2> QED
    BY <2>1, <2>2
<1> QED
  BY <1>1, <1>5, <1>6 DEF Fits

\* Neither a grant nor a free disturbs the piece count of another block.
LEMMA GrantKeepsPiece ==
    ASSUME NEW b \in Blocks, NEW d \in Blocks, Fits(d, piece), TypeOK,
           d.cls = b.cls => Span(b) \cap Span(d) = {}
    PROVE  Fits(d, PieceWith(b))
<1>1. b.idx \in Span(b) /\ d.idx \in Span(d)
  BY DEF Span, Blocks
<1>2. d.cls = Big /\ b.cls = Big => d.idx # b.idx
  BY <1>1
<1>3. ASSUME d.cls = Big PROVE PieceWith(b)[d.idx] = piece[d.idx]
  BY <1>2, <1>3 DEF PieceWith, TypeOK
<1> QED
  BY <1>3 DEF Fits

LEMMA FreeKeepsPiece ==
    ASSUME NEW p, NEW b \in Blocks, NEW d \in Blocks, Fits(d, p),
           d.cls = b.cls => Span(b) \cap Span(d) = {}
    PROVE  Fits(d, PieceWithout(p, b))
<1>1. b.idx \in Span(b) /\ d.idx \in Span(d)
  BY DEF Span, Blocks
<1>2. d.cls = Big /\ b.cls = Big => d.idx # b.idx
  BY <1>1
<1>3. ASSUME d.cls = Big PROVE PieceWithout(p, b)[d.idx] = p[d.idx]
  BY <1>2, <1>3 DEF PieceWithout
<1> QED
  BY <1>3 DEF Fits

LEMMA FreeRoom ==
    ASSUME HeapInv, RoomInv, NEW b \in live, Free(b)
    PROVE  RoomInv'
<1> SUFFICES ASSUME NEW d \in live, d # b PROVE Fits(d, piece')
  BY DEF Free, RoomInv
<1>1. /\ b \in Blocks /\ d \in Blocks
      /\ d.cls = b.cls => Span(b) \cap Span(d) = {}
  BY DEF HeapInv, TypeOK, NoOverlap
<1> QED
  BY <1>1, FreeKeepsPiece DEF RoomInv, Free

LEMMA NextRoom == HeapInv /\ RoomInv /\ [Next]_vars => RoomInv'
<1> SUFFICES ASSUME HeapInv, RoomInv, [Next]_vars PROVE RoomInv'
  OBVIOUS
<1>1. live \subseteq Blocks
  BY DEF HeapInv, TypeOK
<1>2. CASE UNCHANGED vars
  BY <1>2 DEF vars, RoomInv
<1>3. ASSUME NEW size \in Sizes, Malloc(size) PROVE RoomInv'
  <2>1. CASE UNCHANGED vars
    BY <2>1 DEF vars, RoomInv
  <2>2. ASSUME NEW b \in Candidates(size), Grants(size, b),
               piece' = PieceWith(b), live' = live \cup {b}
        PROVE  RoomInv'
    <3>1. size \in Nat
      BY SizeAssumption
    <3>2. Fits(b, piece')
      BY <2>2, <3>1, GrantFits
    <3>3. ASSUME NEW d \in live PROVE Fits(d, piece')
      <4>1. b \in Blocks /\ (d.cls = b.cls => Span(b) \cap Span(d) = {})
        BY <2>2, <3>1, GrantIsFree
      <4> QED
        BY <1>1, <2>2, <4>1, GrantKeepsPiece DEF RoomInv, HeapInv
    <3> QED
      BY <2>2, <3>2, <3>3 DEF RoomInv
  <2> QED
    BY <1>3, <2>1, <2>2 DEF Malloc, Grant, Refuse
<1>4. ASSUME NEW b \in live, Free(b) PROVE RoomInv'
  BY <1>4, FreeRoom
<1>5. ASSUME NEW b \in live, NEW size \in Sizes, Realloc(b, size) PROVE RoomInv'
  <2>1. CASE ReallocRejects(b)
    BY <2>1 DEF ReallocRejects, RoomInv
  <2>2. CASE ReallocKeeps(b, size)
    <3> DEFINE kept == [b EXCEPT !.size = size]
    <3>1. /\ kept.cls = b.cls /\ kept.idx = b.idx /\ kept.cnt = b.cnt /\ kept.size = size
          /\ live' = (live \ {b}) \cup {kept}
          /\ piece' = piece /\ size <= OldSize(b)
      BY <1>1, <2>2 DEF ReallocKeeps, Blocks
    <3> HIDE DEF kept
    <3>2. OldSize(b) = Capacity(b)
      <4>1. b.cls \in Class /\ b.cnt \in Nat /\ Bytes[b.cls] \in Nat
        BY <1>1, Constants DEF Blocks
      <4> QED
        BY <4>1 DEF RoomInv, Fits, OldSize, Capacity
    <3>3. Fits(kept, piece)
      BY <3>1, <3>2 DEF RoomInv, Fits, Capacity
    <3> QED
      BY <3>1, <3>3 DEF RoomInv
  <2>3. CASE Free(b)
    BY <2>3, FreeRoom
  <2>4. ASSUME NEW new \in Candidates(size), Grants(size, new),
               piece' = PieceWithout(PieceWith(new), b),
               live'  = (live \ {b}) \cup {new}
        PROVE  RoomInv'
    <3>1. size \in Nat
      BY SizeAssumption
    <3>2. /\ new \in Blocks
          /\ \A d \in live : d.cls = new.cls => Span(new) \cap Span(d) = {}
      BY <2>4, <3>1, GrantIsFree
    <3>3. Fits(new, PieceWith(new))
      BY <2>4, <3>1, GrantFits
    <3>4. Fits(new, piece')
      <4>1. new.cls = b.cls => Span(b) \cap Span(new) = {}
        BY <3>2
      <4> QED
        BY <1>1, <2>4, <3>2, <3>3, <4>1, FreeKeepsPiece
    <3>5. ASSUME NEW d \in live, d # b PROVE Fits(d, piece')
      <4>1. Fits(d, PieceWith(new))
        BY <1>1, <3>2, GrantKeepsPiece DEF RoomInv, HeapInv
      <4>2. d.cls = b.cls => Span(b) \cap Span(d) = {}
        BY <3>5 DEF HeapInv, NoOverlap
      <4> QED
        BY <1>1, <2>4, <4>1, <4>2, FreeKeepsPiece
    <3> QED
      BY <2>4, <3>4, <3>5 DEF RoomInv
  <2> QED
    BY <1>5, <2>1, <2>2, <2>3, <2>4 DEF Realloc, ReallocMoves, Free
<1> QED
  BY <1>2, <1>3, <1>4, <1>5 DEF Next, FreeForeign

\* Every block has room for what its owner asked for, and os_realloc reads the
\* size of a block back right.
THEOREM HeapRoomy == LowByte = 0 /\ Spec => []Roomy
<1> SUFFICES ASSUME LowByte = 0 PROVE Spec => []Roomy
  OBVIOUS
<1>1. Init => HeapInv /\ RoomInv
  BY InitInv DEF Init, RoomInv
<1>2. Spec => [](HeapInv /\ RoomInv)
  BY <1>1, NextInv, NextRoom, PTL DEF Spec
<1>3. HeapInv /\ RoomInv => Roomy
  <2> SUFFICES ASSUME HeapInv, RoomInv, NEW b \in live
               PROVE  b.size <= Capacity(b) /\ OldSize(b) = Capacity(b)
    BY DEF Roomy
  <2>1. b.cls \in Class /\ b.cnt \in Nat /\ Bytes[b.cls] \in Nat
    BY Constants DEF HeapInv, TypeOK, Blocks
  <2> QED
    BY <2>1 DEF RoomInv, Fits, OldSize, Capacity
<1> QED
  BY <1>2, <1>3, PTL

-----------------------------------------------------------------------------
(* When the heap says no                                                   *)

\* The two ranges of the search together are the whole class.
LEMMA NoFitMeansFlagged ==
    ASSUME HeapInv, NEW c \in Class, NEW n \in Nat, NoFit(c, n),
           NEW i \in 0 .. Cnt[c] - n, i < Cnt[c]
    PROVE  (i .. i + n - 1) \cap used[c] # {}
<1>1. Cnt[c] \in Nat /\ pos[c] \in Nat /\ i \in Nat
  BY Constants DEF HeapInv, TypeOK
<1>2. ~ Run(c, i, n)
  <2>1. CASE i <= pos[c]
    BY <1>1, <2>1 DEF NoFit, Earlier
  <2>2. CASE i > pos[c]
    BY <1>1, <2>2 DEF NoFit, Later
  <2> QED
    BY <1>1, <2>1, <2>2
<1>3. PICK j \in 0 .. n - 1 : Flagged(c, i + j)
  BY <1>2 DEF Run
<1>4. i + j < Cnt[c] /\ i + j \in i .. i + n - 1
  BY <1>1, <1>3
<1>5. i + j \in used[c]
  BY <1>3, <1>4 DEF Flagged
<1> QED
  BY <1>4, <1>5

\* Only a full heap says no, for every request of at least a byte: neither the
\* promotion through the classes nor the next-fit search, which starts behind
\* the last grant and wraps, ever misses a fit.  (os_malloc(0) spans no piece.)
THEOREM HeapRefusesOnlyWhenFull ==
    LowByte = 0 /\ 0 \notin Sizes /\ Spec => []RefusesOnlyWhenFull
<1>1. 0 \notin Sizes /\ HeapInv => RefusesOnlyWhenFull
  <2> SUFFICES ASSUME 0 \notin Sizes, HeapInv, NEW size \in Sizes, Refuses(size)
               PROVE  /\ \A c \in Class \ {Big} : size <= Bytes[c] => used[c] = Slots(c)
                      /\ \A i \in 0 .. Cnt[Big] - Pieces(size) :
                            (i .. i + Pieces(size) - 1) \cap used[Big] # {}
    BY DEF RefusesOnlyWhenFull
  <2>1. PICK n \in 1 .. Cnt[Big], first \in 1 .. Big :
           /\ Starts(size, first) /\ NoFit(Big, n)
           /\ \A d \in first .. Big - 1 : NoFit(d, 1)
           /\ n = IF first = Big THEN Pieces(size) ELSE 1
    BY DEF Refuses, Tries
  <2>2. size \in Nat \ {0} /\ Big \in Nat /\ Big \in Class
    BY SizeAssumption, Constants, ClassAssumption DEF Big
  <2>3. ASSUME NEW c \in Class, NoFit(c, 1) PROVE used[c] = Slots(c)
    <3>1. Cnt[c] \in Nat /\ used[c] \subseteq Slots(c)
      BY Constants DEF HeapInv, TypeOK
    <3>2. ASSUME NEW i \in Slots(c) PROVE i \in used[c]
      <4>1. i \in 0 .. Cnt[c] - 1 /\ i < Cnt[c] /\ i .. i + 1 - 1 = {i}
        BY <3>1 DEF Slots
      <4> QED
        BY <2>3, <4>1, NoFitMeansFlagged
    <3> QED
      BY <3>1, <3>2
  <2>4. ASSUME NEW c \in Class \ {Big}, size <= Bytes[c] PROVE used[c] = Slots(c)
    <3>1. c \in Nat /\ c < Big /\ c >= 1 /\ Bytes[c] \in Nat
      BY <2>2, Constants DEF Class, Big
    <3>2. first <= c
      BY <2>1, <2>2, <2>4, <3>1 DEF Starts
    <3> QED
      BY <2>1, <2>2, <2>3, <3>1, <3>2
  <2>5. ASSUME NEW i \in 0 .. Cnt[Big] - Pieces(size)
        PROVE  (i .. i + Pieces(size) - 1) \cap used[Big] # {}
    <3>1. Pieces(size) \in Nat \ {0} /\ Cnt[Big] \in Nat
      <4> DEFINE B == Bytes[Big]
      <4>1. B \in Nat /\ B > 0 /\ Cnt[Big] \in Nat
        BY Constants
      <4> HIDE DEF B
      <4>2. (size + B - 1) \div B \in Nat \ {0}
        BY <2>2, <4>1
      <4> QED
        BY <4>1, <4>2 DEF Pieces, B
    <3>2. i < Cnt[Big]
      BY <3>1
    <3>3. CASE first = Big
      BY <2>1, <2>2, <3>1, <3>2, <3>3, NoFitMeansFlagged
    <3>4. CASE first # Big
      <4>1. used[Big] = Slots(Big)
        BY <2>1, <2>2, <2>3, <3>4
      <4>2. i \in i .. i + Pieces(size) - 1 /\ i \in Slots(Big)
        BY <3>1, <3>2 DEF Slots
      <4> QED
        BY <4>1, <4>2
    <3> QED
      BY <3>3, <3>4
  <2> QED
    BY <2>4, <2>5
<1> SUFFICES ASSUME LowByte = 0, 0 \notin Sizes PROVE Spec => []RefusesOnlyWhenFull
  OBVIOUS
<1>2. HeapInv => RefusesOnlyWhenFull
  BY <1>1
<1>3. Spec => []HeapInv
  BY HeapInvariant
<1> QED
  BY <1>2, <1>3, PTL

-----------------------------------------------------------------------------
(* No block below the biggest class is lost                                *)

\* A flag of a small class belongs to an owner, and its blocks are single.
SmallInv ==
    /\ \A b \in live : b.cls # Big => b.cnt = 1
    /\ \A c \in Class \ {Big} : \A k \in used[c] :
          \E b \in live : b.cls = c /\ b.idx = k

\* What a search hands out of a small class is one block.
LEMMA GrantSingle ==
    ASSUME HeapInv, NEW size \in Nat, NEW b \in Candidates(size), Grants(size, b)
    PROVE  /\ b \in Blocks /\ b.cls \in Class
           /\ b.cls # Big => b.cnt = 1 /\ Span(b) = {b.idx}
<1>1. b \in Blocks /\ b.cls \in Class /\ b.idx \in Nat /\ b.cnt \in Nat
  BY GrantIsFree DEF Blocks
<1>2. b.cls # Big => b.cnt = 1
  BY <1>1, SmallSingle DEF Grants
<1> QED
  BY <1>1, <1>2 DEF Span

\* os_free with 32-bit pointers clears the one flag it is about.
LEMMA FreeSmall ==
    ASSUME AddressBits = 32, NEW u \in [Class -> SUBSET Nat], NEW b \in Blocks
    PROVE  /\ \A c \in Class : UsedWithout(u, b)[c] \subseteq u[c]
           /\ b.idx \notin UsedWithout(u, b)[b.cls]
BY DEF UsedWithout, SearchIndex, Blocks

LEMMA SmallNext ==
    AddressBits = 32 /\ HeapInv /\ SmallInv /\ [Next]_vars => SmallInv'
<1> SUFFICES ASSUME AddressBits = 32, HeapInv, SmallInv, [Next]_vars
             PROVE  SmallInv'
  OBVIOUS
<1>1. live \subseteq Blocks /\ used \in [Class -> SUBSET Nat] /\ Sizes \subseteq Nat
  BY SizeAssumption DEF HeapInv, TypeOK
<1>2. ASSUME NEW b \in live, used' = UsedWithout(used, b), live' = live \ {b}
      PROVE  SmallInv'
  BY <1>1, <1>2, FreeSmall DEF SmallInv, Blocks
<1>3. ASSUME NEW size \in Sizes, Malloc(size) PROVE SmallInv'
  <2>1. CASE Refuse(size)
    BY <2>1 DEF Refuse, vars, SmallInv
  <2>2. ASSUME NEW b \in Candidates(size), Grant(size, b) PROVE SmallInv'
    <3>1. /\ Grants(size, b) /\ live' = live \cup {b}
          /\ used' = [used EXCEPT ![b.cls] = used[b.cls] \cup Span(b)]
      BY <2>2 DEF Grant, UsedWith
    <3>2. b.cls \in Class /\ (b.cls # Big => b.cnt = 1 /\ Span(b) = {b.idx})
      BY <1>1, <3>1, GrantSingle
    <3>3. ASSUME NEW c \in Class \ {Big}, NEW k \in used'[c]
          PROVE  \E d \in live' : d.cls = c /\ d.idx = k
      <4>1. k \in used[c] \/ (c = b.cls /\ k = b.idx)
        BY <1>1, <3>1, <3>2, <3>3
      <4> QED
        BY <3>1, <4>1 DEF SmallInv
    <3> QED
      BY <3>1, <3>2, <3>3 DEF SmallInv
  <2> QED
    BY <1>3, <2>1, <2>2 DEF Malloc
<1>4. ASSUME NEW b \in live, NEW size \in Sizes, Realloc(b, size) PROVE SmallInv'
  <2>1. b \in Blocks
    BY <1>1
  <2>2. CASE ReallocRejects(b)
    BY <2>2 DEF ReallocRejects, SearchIndex
  <2>3. CASE ReallocKeeps(b, size)
    <3> DEFINE kept == [b EXCEPT !.size = size]
    <3>1. /\ kept.cls = b.cls /\ kept.idx = b.idx /\ kept.cnt = b.cnt
          /\ live' = (live \ {b}) \cup {kept} /\ used' = used
      BY <2>1, <2>3 DEF ReallocKeeps, Blocks
    <3> HIDE DEF kept
    <3> QED
      BY <3>1 DEF SmallInv
  <2>4. CASE ReallocMoves(b, size)
    <3>1. CASE used' = UsedWithout(used, b) /\ live' = live \ {b}
      BY <1>2, <3>1
    <3>2. ASSUME NEW new \in Candidates(size), Grants(size, new),
                 used' = UsedWithout(UsedWith(new), b),
                 live' = (live \ {b}) \cup {new}
          PROVE  SmallInv'
      <4>1. new \in Blocks /\ new.cls \in Class
            /\ (new.cls # Big => new.cnt = 1 /\ Span(new) = {new.idx})
        BY <1>1, <3>2, GrantSingle
      <4>2. UsedWith(new) \in [Class -> SUBSET Nat]
            /\ \A c \in Class : UsedWith(new)[c] =
                  used[c] \cup (IF c = new.cls THEN Span(new) ELSE {})
        BY <1>1, <4>1 DEF UsedWith, Span, Blocks
      <4>3. ASSUME NEW c \in Class \ {Big}, NEW k \in used'[c]
            PROVE  \E d \in live' : d.cls = c /\ d.idx = k
        <5>1. k \in UsedWith(new)[c] /\ (c = b.cls => k # b.idx)
          BY <2>1, <3>2, <4>2, <4>3, FreeSmall
        <5>2. k \in used[c] \/ (c = new.cls /\ k = new.idx)
          BY <4>1, <4>2, <4>3, <5>1
        <5> QED
          BY <3>2, <4>3, <5>1, <5>2 DEF SmallInv
      <4> QED
        BY <3>2, <4>1, <4>3 DEF SmallInv
    <3> QED
      BY <2>4, <3>1, <3>2 DEF ReallocMoves
  <2> QED
    BY <1>4, <2>2, <2>3, <2>4 DEF Realloc
<1>5. CASE UNCHANGED vars
  BY <1>5 DEF vars, SmallInv
<1> QED
  BY <1>2, <1>3, <1>4, <1>5 DEF Next, Free, FreeForeign

\* With 32-bit pointers no block below the biggest class is ever lost: every
\* flag there belongs to an owner, through any promotions and reallocations.
THEOREM HeapSmallExact ==
    LowByte = 0 /\ AddressBits = 32 /\ Spec => []SmallClassesExact
<1> SUFFICES ASSUME LowByte = 0, AddressBits = 32 PROVE Spec => []SmallClassesExact
  OBVIOUS
<1>1. Init => HeapInv /\ SmallInv
  BY InitInv DEF Init, SmallInv
<1>2. HeapInv /\ SmallInv /\ [Next]_vars => SmallInv'
  BY SmallNext
<1>4. Spec => [](HeapInv /\ SmallInv)
  BY <1>1, <1>2, NextInv, PTL DEF Spec
<1>3. HeapInv /\ SmallInv => SmallClassesExact
  <2> SUFFICES ASSUME HeapInv, SmallInv, NEW c \in Class \ {Big}, NEW k \in used[c]
               PROVE  \E b \in live : b.cls = c /\ k \in Span(b)
    BY DEF SmallClassesExact, Lost
  <2>1. PICK b \in live : b.cls = c /\ b.idx = k
    BY DEF SmallInv
  <2>2. b.cnt \in Nat \ {0} /\ b.idx \in Nat
    BY DEF HeapInv, TypeOK, Blocks
  <2> QED
    BY <2>1, <2>2 DEF Span
<1> QED
  BY <1>3, <1>4, PTL

=============================================================================
