----------------------------- MODULE OggStream -----------------------------
(***************************************************************************)
(* A logical Ogg stream (api/avutils/framing.c): packets are cut into      *)
(* segments of at most MaxSeg bytes, the segment lengths ("lacing") and the *)
(* bytes travel in pages, and packets are put together again.  A stream is *)
(* a record os, the fields of ogg_stream_state; the lacing table is an     *)
(* argument of its own, lv, because all streams of the program share one   *)
(* (int lacing_val[2048], framing.c:28).                                   *)
(***************************************************************************)
EXTENDS Integers, Sequences, FiniteSetsExt, Functions

CONSTANTS
    MaxSeg,         \* a segment this long says the packet goes on (255)
    MaxVals,        \* segments of a page (255)
    Nominal,        \* bytes after which a page is closed (4096)
    PageLimit,      \* where pagein lets the page number wrap (0xffff)
    LacingStorage   \* entries of the lacing table (2048)

\* An entry of the table: the segment length (0xff), the flag of a first
\* segment (0x100), of the last one of a stream (0x200), of a gap (0x400).
Entry == [val : 0 .. MaxSeg, first : BOOLEAN, eos : BOOLEAN, hole : BOOLEAN]
Segment(val) == [val |-> val, first |-> FALSE, eos |-> FALSE, hole |-> FALSE]
Hole == [Segment(0) EXCEPT !.hole = TRUE]

Slots == 0 .. LacingStorage - 1
Tables == [Slots -> Entry]
ZeroTable == [i \in Slots |-> Segment(0)]

\* ogg_stream_init; body is body_data up to body_fill, ok says that it exists
NewStream(serial) ==
    [body |-> <<>>, body_returned |-> 0, lacing_fill |-> 0, lacing_packet |-> 0,
     lacing_returned |-> 0, e_o_s |-> FALSE, b_o_s |-> FALSE, pageno |-> 0,
     serialno |-> serial, ok |-> TRUE]

\* ogg_stream_clear, which ogg_stream_init calls when the heap gave no body
ClearedStream == [NewStream(0) EXCEPT !.ok = FALSE]

\* ogg_stream_reset_serialno
Reset(os, serial) ==
    IF os.ok THEN [NewStream(serial) EXCEPT !.pageno = -1] ELSE os

\* The bytes that entries m .. n - 1 stand for.
Bytes(lv, m, n) == SumFunctionOnSet([i \in Slots |-> lv[i].val], m .. n - 1)

\* Stores v at entry i; a store behind the table is not seen again.
Store(lv, i, v) == [j \in Slots |-> IF j = i THEN v ELSE lv[j]]

\* memmove of entries n .. fill - 1 to the front
MovedDown(lv, n, fill) == [i \in Slots |-> IF i < fill - n THEN lv[i + n] ELSE lv[i]]

\* Bytes m + 1 .. m + n of the body; what lies behind the fill is stale.
Stale == <<0, 0>>
Slice(body, m, n) ==
    [i \in 1 .. n |-> IF m + i \in 1 .. Len(body) THEN body[m + i] ELSE Stale]

-----------------------------------------------------------------------------
(* Writing pages                                                           *)

\* How many segments the next page takes: the first packet alone if it opens
\* the stream, otherwise segments until they hold more than Nominal bytes.
PageVals(os, lv) ==
    LET maxvals == Min({os.lacing_fill, MaxVals})
    IN IF ~ os.b_o_s
       THEN Min({v \in 1 .. maxvals : v = maxvals \/ lv[v - 1].val < MaxSeg})
       ELSE Min({v \in 0 .. maxvals : v = maxvals \/ Bytes(lv, 0, v) > Nominal})

CanFlush(os) == os.ok /\ os.lacing_fill > 0

\* The page ogg_stream_flush makes.
FlushedPage(os, lv) ==
    LET vals == PageVals(os, lv)
    IN [serialno |-> os.serialno,
        version  |-> 0,
        pageno   |-> IF os.pageno = -1 THEN 0 ELSE os.pageno,
        continued |-> ~ lv[0].first,
        bos      |-> ~ os.b_o_s,
        eos      |-> os.e_o_s /\ os.lacing_fill = vals,
        segs     |-> [i \in 1 .. vals |-> lv[i - 1].val],
        body     |-> Slice(os.body, os.body_returned, Bytes(lv, 0, vals))]

Flushed(os, lv) ==
    LET vals == PageVals(os, lv)
    IN [os EXCEPT !.b_o_s = TRUE,
                  !.pageno = IF @ = -1 THEN 1 ELSE @ + 1,
                  !.lacing_fill = @ - vals,
                  !.body_returned = @ + Bytes(lv, 0, vals)]

FlushedTable(os, lv) == MovedDown(lv, PageVals(os, lv), os.lacing_fill)

\* Whether ogg_stream_pageout makes a page.
CanPageOut(os) ==
    /\ CanFlush(os)
    /\ \/ os.e_o_s
       \/ Len(os.body) - os.body_returned > Nominal
       \/ os.lacing_fill >= MaxVals
       \/ ~ os.b_o_s

-----------------------------------------------------------------------------
(* Reading pages: ogg_stream_pagein                                        *)

\* What has been returned is dropped, from the body and from the table.
Compacted(os) ==
    [os EXCEPT !.body = SubSeq(@, os.body_returned + 1, Len(@)),
               !.body_returned   = 0,
               !.lacing_fill     = @ - os.lacing_returned,
               !.lacing_packet   = @ - os.lacing_returned,
               !.lacing_returned = 0]

CompactedTable(os, lv) == MovedDown(lv, os.lacing_returned, os.lacing_fill)

Bug_Unrolled(os, lv) ==
    [os EXCEPT !.lacing_fill = os.lacing_packet]

\* A page is missing: the packet that waits for it is given up.
Unrolled(os, lv) ==
    [os EXCEPT !.body = SubSeq(@, 1, Len(@) - Bytes(lv, os.lacing_packet, os.lacing_fill)),
               !.lacing_fill = os.lacing_packet]

Bug_WithHole(os) ==
    IF os.pageno # -1 THEN [os EXCEPT !.lacing_packet = @ + 1] ELSE os

\* A gap is noted, as an entry of its own, unless the stream was just reset.
WithHole(os) ==
    IF os.pageno # -1
    THEN [os EXCEPT !.lacing_fill = @ + 1, !.lacing_packet = @ + 1]
    ELSE os

\* The segments of a continued page that belong to a packet given up.
Orphaned(os, lv, page) ==
    page.continued /\ (os.lacing_fill < 1 \/ lv[os.lacing_fill - 1] = Hole)

SkippedSegs(os, lv, page) ==
    IF Orphaned(os, lv, page)
    THEN LET n == Len(page.segs)
         IN Min({k \in 0 .. n : k = n \/ (k > 0 /\ page.segs[k] < MaxSeg)})
    ELSE 0

\* The segments from the skip-th on are appended; lacing_packet ends up behind
\* the last one that ends a packet.
AppendedTable(os, lv, page, skip) ==
    LET fill   == os.lacing_fill
        n      == Len(page.segs) - skip
        first  == page.bos /\ ~ Orphaned(os, lv, page)
        last   == fill + n - 1
        added  == [i \in Slots |->
                      IF i \in fill .. last
                      THEN [Segment(page.segs[skip + i - fill + 1]) EXCEPT
                               !.first = first /\ i = fill]
                      ELSE lv[i]]
    IN IF page.eos /\ last \in Slots
       THEN [added EXCEPT ![last].eos = TRUE] ELSE added

Appended(os, page, skip) ==
    LET n     == Len(page.segs) - skip
        ends  == {k \in 1 .. n : page.segs[skip + k] < MaxSeg}
        bytes == SumFunctionOnSet(page.segs, 1 .. skip)
    IN [os EXCEPT
           !.body = @ \o SubSeq(page.body, bytes + 1, Len(page.body)),
           !.lacing_fill = @ + n,
           !.lacing_packet = IF ends = {} THEN @ ELSE os.lacing_fill + Max(ends),
           !.e_o_s = @ \/ page.eos]

\* os->pageno = pageno + 1, except that the number wraps at 16 bits.
NextPageno(os, page) == IF os.pageno = PageLimit THEN 0 ELSE page.pageno + 1

\* The page is in sequence, or the gap before it has been dealt with.
InSequence(os, lv, page) ==
    IF page.pageno = os.pageno
    THEN [os |-> os, lv |-> lv]
    ELSE LET u == Unrolled(os, lv)
         IN [os |-> WithHole(u),
             lv |-> IF os.pageno # -1 THEN Store(lv, u.lacing_fill, Hole) ELSE lv]

Accepts(os, page) == page.serialno = os.serialno /\ page.version = 0

\* The stream and the table after ogg_stream_pagein.
PageIn(os, lv, page) ==
    LET c  == Compacted(os)
        cv == CompactedTable(os, lv)
        s  == InSequence(c, cv, page)
        k  == SkippedSegs(s.os, s.lv, page)
    IN IF ~ os.ok THEN [os |-> os, lv |-> lv]
       ELSE IF ~ Accepts(c, page) THEN [os |-> c, lv |-> cv]
       ELSE [os |-> [Appended(s.os, page, k) EXCEPT !.pageno = NextPageno(s.os, page)],
             lv |-> AppendedTable(s.os, s.lv, page, k)]

-----------------------------------------------------------------------------
(* Reading packets: ogg_stream_packetout                                   *)

HasPacket(os) == os.ok /\ os.lacing_returned < os.lacing_packet
AtHole(os, lv) == HasPacket(os) /\ lv[os.lacing_returned].hole

\* The entry that ends the packet which begins at lacing_returned.
Ending(os, lv) ==
    Min({i \in Slots : /\ i >= os.lacing_returned
                       /\ i = LacingStorage - 1 \/ lv[i].val < MaxSeg})

PacketBytes(os, lv) == Bytes(lv, os.lacing_returned, Ending(os, lv) + 1)

\* The packet and its beginning-of-stream flag.
Packet(os, lv) == Slice(os.body, os.body_returned, PacketBytes(os, lv))
PacketBos(os, lv) == lv[os.lacing_returned].first

AfterPacket(os, lv) ==
    [os EXCEPT !.body_returned = @ + PacketBytes(os, lv),
               !.lacing_returned = Ending(os, lv) + 1]

AfterHole(os) == [os EXCEPT !.lacing_returned = @ + 1]
=============================================================================
