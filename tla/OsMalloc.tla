------------------------------ MODULE OsMalloc ------------------------------
(***************************************************************************)
(* platform/os_malloc.c: the DSP's private heap.  The pool is cut into     *)
(* size classes of equal blocks; every class keeps one flag byte per block *)
(* and the position of its last grant, from which the next-fit search      *)
(* starts.  A request is served by the smallest class that is big enough,  *)
(* or by the next class up when that one is full; only the biggest class   *)
(* serves a request with several adjacent blocks ("pieces").               *)
(*                                                                         *)
(* The last index of a class is Cnt[c] - 1, as in C.  `used' is the set of *)
(* indices whose flag byte is 1.  `live' is not in the code: it is the set *)
(* of blocks handed out and not yet given back, as their owners see them.  *)
(* The heap is only used from the start_up thread, so a call is one step.  *)
(***************************************************************************)
EXTENDS Integers, FiniteSets

CONSTANTS
    NClass,       \* number of size classes (7 in the code)
    Bytes,        \* Bytes[c]: size of a block of class c
    Cnt,          \* Cnt[c]: number of blocks of class c
    Sizes,        \* the sizes clients ask for
    AddressBits,  \* width of a pointer difference: 32 (or32, x86), 64 (x86-64)
    LowByte       \* where the low byte of an int lies: 0 on the little-endian
                  \* x86, 3 on the big-endian or32

Class == 1..NClass
Big   == NClass                  \* BYTE_8K, the only multi-piece class
Slots(c) == 0 .. Cnt[c] - 1

\* Variants named Bug_... are not part of the specification: each is a
\* plausible mistake in the definition that follows it (see README.md).
Bug_PiecesRoundDown(size) == size \div Bytes[Big]

\* The number of blocks of the biggest class that a request spans.
Pieces(size) == (size + Bytes[Big] - 1) \div Bytes[Big]

ASSUME ClassAssumption ==
    /\ NClass \in Nat /\ NClass >= 2
    /\ Bytes \in [Class -> Nat \ {0}]
    /\ \A c, d \in Class : c < d => Bytes[c] < Bytes[d]
    /\ Cnt \in [Class -> Nat \ {0}]
    /\ AddressBits \in {32, 64}
    /\ LowByte \in 0 .. 3

\* No client asks for more than the biggest class holds: such a request makes
\* the search bound total_cnt - req_cnt + 1 wrap, and it runs off the pool.
ASSUME SizeAssumption ==
    /\ Sizes \subseteq Nat
    /\ \A s \in Sizes : Pieces(s) <= Cnt[Big]

VARIABLES used, pos, piece, live
vars == <<used, pos, piece, live>>

Blocks == [cls : Class, idx : Nat, cnt : Nat \ {0}, size : Nat]
Span(b) == b.idx .. b.idx + b.cnt - 1
Capacity(b) == b.cnt * Bytes[b.cls]

-----------------------------------------------------------------------------
(* search_block *)

Bug_FlaggedNoStop(c, k) == k \in used[c]

\* A flag byte as the scan reads it.  The scan of the biggest class can read
\* past the end of block_8K_flags, into block_8K_piece: the low byte of
\* block_8K_piece[0] is the only one there that stops it.  (The other bytes of
\* a count are 0; a scan that has passed this one is outside the pool anyway.)
Flagged(c, k) ==
    IF k < Cnt[c] THEN k \in used[c] ELSE k = Cnt[c] + LowByte /\ piece[0] # 0

Run(c, i, n) == \A j \in 0 .. n - 1 : ~ Flagged(c, i + j)

Bug_EarlierExclusive(c, n) == {i \in 0 .. pos[c] - 1 : Run(c, i, n)}

Later(c, n)   == {i \in pos[c] + 1 .. Cnt[c] - n : Run(c, i, n)}
Earlier(c, n) == {i \in 0 .. pos[c] : Run(c, i, n)}

\* Next fit: the first run after the last grant, else the first one up to it.
Found(c, n, i) ==
    \/ /\ i \in Later(c, n)
       /\ \A k \in Later(c, n) : i <= k
    \/ /\ Later(c, n) = {}
       /\ i \in Earlier(c, n)
       /\ \A k \in Earlier(c, n) : i <= k

NoFit(c, n) == Later(c, n) = {} /\ Earlier(c, n) = {}

Bug_SearchIndexWide(i) == i = 0

\* search_index: the shift by 32 - blockShift is meant to reject an address
\* inside a block.  It drops the index only where pointers have 32 bits; with
\* 64 bits every index but 0 survives the shift and is rejected as well.
SearchIndex(i) == AddressBits = 32 \/ i = 0

-----------------------------------------------------------------------------
(* os_malloc *)

\* The class the chain of size tests picks first.
Starts(size, c) ==
    /\ \A d \in 1 .. c - 1 : size > Bytes[d]
    /\ c # Big => size <= Bytes[c]

\* Class c is searched for n adjacent blocks: it is the first choice, or every
\* class from the first choice up to it is full (a promoted request asks for
\* one block of the class it is promoted to).
Tries(size, c, n) == \E first \in 1 .. c :
    /\ Starts(size, first)
    /\ \A d \in first .. c - 1 : NoFit(d, 1)
    /\ n = IF first = Big THEN Pieces(size) ELSE 1

\* The block os_malloc(size) hands out, in the state it is called in.
Grants(size, b) ==
    /\ b.size = size
    /\ Tries(size, b.cls, b.cnt)
    /\ Found(b.cls, b.cnt, b.idx)

Bug_RefusesUnpromoted(size) == \E c \in Class :
    Starts(size, c) /\ NoFit(c, IF c = Big THEN Pieces(size) ELSE 1)

\* os_malloc(size) returns NULL.
Refuses(size) == \E n \in 1 .. Cnt[Big] : Tries(size, Big, n) /\ NoFit(Big, n)

Candidates(size) ==
    UNION {[cls : {c}, idx : Slots(c), cnt : 1 .. Cnt[Big], size : {size}] : c \in Class}

Bug_UsedWithFirst(b) == [used EXCEPT ![b.cls] = @ \cup {b.idx}]

\* The flag bytes and block_8K_piece after the grant of b.
UsedWith(b)  == [used EXCEPT ![b.cls] = @ \cup Span(b)]
PieceWith(b) == IF b.cls = Big THEN [piece EXCEPT ![b.idx] = b.cnt] ELSE piece

Bug_UsedWithoutOneMore(u, b) ==
    [u EXCEPT ![b.cls] = @ \ (b.idx .. b.idx + b.cnt)]

\* os_free of block b: one flag byte and one piece count are reset, whatever
\* the number of blocks b spans.
UsedWithout(u, b) ==
    IF SearchIndex(b.idx) THEN [u EXCEPT ![b.cls] = @ \ {b.idx}] ELSE u
PieceWithout(p, b) ==
    IF SearchIndex(b.idx) /\ b.cls = Big THEN [p EXCEPT ![b.idx] = 1] ELSE p

-----------------------------------------------------------------------------
\* os_malloc_init
Init ==
    /\ used  = [c \in Class |-> {}]
    /\ pos   = [c \in Class |-> Cnt[c] - 1]
    /\ piece = [i \in Slots(Big) |-> 1]
    /\ live  = {}

\* os_malloc(size) hands out b.
Grant(size, b) ==
    /\ Grants(size, b)
    /\ used'  = UsedWith(b)
    /\ piece' = PieceWith(b)
    /\ pos'   = [pos EXCEPT ![b.cls] = b.idx]
    /\ live'  = live \cup {b}

\* os_malloc(size) returns NULL.
Refuse(size) == Refuses(size) /\ UNCHANGED vars

Malloc(size) == (\E b \in Candidates(size) : Grant(size, b)) \/ Refuse(size)

\* os_free, called by the owner of b
Free(b) ==
    /\ used'  = UsedWithout(used, b)
    /\ piece' = PieceWithout(piece, b)
    /\ live'  = live \ {b}
    /\ UNCHANGED pos

\* os_free of an address that lies in no class, as the decoder does with its
\* static lacing table: the error is logged and nothing changes.
FreeForeign == UNCHANGED vars

\* os_realloc reads the size of a block off its address.
OldSize(b) == Bytes[b.cls] * (IF b.cls = Big THEN piece[b.idx] ELSE 1)

\* The address of a block of the biggest class is rejected: the caller gets
\* NULL, the block stays as it was and nobody holds it any more.
ReallocRejects(b) ==
    /\ b.cls = Big /\ ~ SearchIndex(b.idx)
    /\ live' = live \ {b}
    /\ UNCHANGED <<used, pos, piece>>

\* The block is big enough: the caller keeps it, also when it asks for less.
ReallocKeeps(b, size) ==
    /\ b.cls # Big \/ SearchIndex(b.idx)
    /\ size <= OldSize(b)
    /\ live' = (live \ {b}) \cup {[b EXCEPT !.size = size]}
    /\ UNCHANGED <<used, pos, piece>>

\* The block is too small: a new one is taken, then the old one is freed; it
\* is freed as well when there is no new one.
ReallocMoves(b, size) ==
    /\ b.cls # Big \/ SearchIndex(b.idx)
    /\ size > OldSize(b)
    /\ \/ \E new \in Candidates(size) :
             /\ Grants(size, new)
             /\ used'  = UsedWithout(UsedWith(new), b)
             /\ piece' = PieceWithout(PieceWith(new), b)
             /\ pos'   = [pos EXCEPT ![new.cls] = new.idx]
             /\ live'  = (live \ {b}) \cup {new}
       \/ /\ Refuses(size)
          /\ used'  = UsedWithout(used, b)
          /\ piece' = PieceWithout(piece, b)
          /\ live'  = live \ {b}
          /\ UNCHANGED pos

Realloc(b, size) ==
    ReallocRejects(b) \/ ReallocKeeps(b, size) \/ ReallocMoves(b, size)

Next ==
    \/ \E size \in Sizes : Malloc(size)
    \/ \E b \in live : Free(b)
    \/ FreeForeign
    \/ \E b \in live, size \in Sizes : Realloc(b, size)

Spec == Init /\ [][Next]_vars

-----------------------------------------------------------------------------
TypeOK ==
    /\ used \in [Class -> SUBSET Nat]
    /\ \A c \in Class : used[c] \subseteq Slots(c)
    /\ pos \in [Class -> Nat]
    /\ \A c \in Class : pos[c] \in Slots(c)
    /\ piece \in [Slots(Big) -> Nat]
    /\ live \subseteq Blocks

\* No two owners share a byte of the pool.  A free that clears too much, a
\* search that misreads a flag or a realloc that frees in the wrong order hands
\* the same block out twice.
NoOverlap ==
    \A b, d \in live : b.cls = d.cls /\ b # d => Span(b) \cap Span(d) = {}

\* What is handed out lies inside its class, although the multi-piece scan
\* checks no bound after it has wrapped round: it is stopped by the piece
\* count behind the flags, which must never be 0 - and whose low byte must be
\* the next one, as it is on x86 and is not on or32.
WithinPool ==
    /\ \A b \in live : Span(b) \subseteq Slots(b.cls)
    /\ piece[0] # 0

\* A block has room for what its owner asked for, through every promotion to a
\* bigger class, and os_realloc reads back the room the block really has.
Roomy ==
    \A b \in live : b.size <= Capacity(b) /\ OldSize(b) = Capacity(b)

\* Only a full heap says no: when os_malloc returns NULL there are not n free
\* adjacent blocks anywhere in the biggest class, nor one in a smaller class
\* that would do.
RefusesOnlyWhenFull ==
    \A size \in Sizes : Refuses(size) =>
        /\ \A c \in Class \ {Big} : size <= Bytes[c] => used[c] = Slots(c)
        /\ \A i \in 0 .. Cnt[Big] - Pieces(size) :
              (i .. i + Pieces(size) - 1) \cap used[Big] # {}

\* Blocks flagged as handed out that nobody owns.
Lost(c) == used[c] \ UNION {Span(b) : b \in {d \in live : d.cls = c}}

\* In the classes below the biggest one no block is ever lost, through any
\* sequence of promotions and reallocations (builds with 32-bit pointers; with
\* 64 bits os_free itself loses them, see Reclaims).
SmallClassesExact ==
    \A c \in Class \ {Big} : Lost(c) = {}

\* The owner has given b back in this step, to os_free or to os_realloc.
GivenBack(b) == \A d \in live' : d.cls # b.cls \/ d.idx # b.idx

\* os_free lets the pool have back the block it is given, as free() does
\* (libsrc/opus/celt/os_support.h:63): its first flag is clear after the call.
\* An owner only passes addresses that os_malloc returned, but with 64-bit
\* pointers search_index turns away all of them but a class's first.
Reclaims == [][\A b \in live : GivenBack(b) => b.idx \notin used'[b.cls]]_vars

\* As free() does, they let the pool have back all of the block: none of it is
\* lost (libsrc/opus/celt/os_support.h:63 takes os_free for free()).
ReclaimsAll == [][\A b \in live : GivenBack(b) => Span(b) \cap Lost(b.cls)' = {}]_vars

\* A step touches the flags of no block but the one it is about: a block that
\* stays with its owner keeps all its flags.
OthersKept ==
    [][\A b \in live \cap live' : Span(b) \subseteq used'[b.cls]]_vars
=============================================================================
