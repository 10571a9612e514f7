------------------------------ MODULE OggSync ------------------------------
(***************************************************************************)
(* Finding pages in a stream of bytes (ogg_sync_* of                       *)
(* api/avutils/framing.c).  A byte is a record with a field k: "page" is   *)
(* the first byte of a capture pattern and carries the page that follows   *)
(* (field pg), "head" any other byte of its header and segment table,      *)
(* "body" one of its body; "O" is an 'O' that opens no page, "junk" any    *)
(* other byte.  The build verifies no checksum (NEED_CRC is not defined),  *)
(* so whatever follows a capture pattern is the page it announces.         *)
(***************************************************************************)
EXTENDS Integers, Sequences, FiniteSetsExt

CONSTANTS
    HeadLen,   \* bytes of a header before its segment table (27)
    Chunk      \* bytes read at a time (1024)

ASSUME SyncAssumption == HeadLen \in Nat \ {0} /\ Chunk \in Nat /\ HeadLen <= Chunk

PageBytes(page) ==
    <<[k |-> "page", pg |-> page]>>
    \o [i \in 1 .. HeadLen - 1 + Len(page.segs) |-> [k |-> "head"]]
    \o [i \in 1 .. Len(page.body) |-> [k |-> "body"]]

PageLen(page) == HeadLen + Len(page.segs) + Len(page.body)

\* ogg_sync_init; data is the buffer up to oy->fill
NewSync == [data |-> <<>>, returned |-> 0, headerbytes |-> 0, bodybytes |-> 0,
            unsynced |-> FALSE]

Bug_Shifted(oy) == oy

\* ogg_sync_buffer: what was returned makes room
Shifted(oy) ==
    [oy EXCEPT !.data = SubSeq(@, oy.returned + 1, Len(@)), !.returned = 0]

\* ogg_sync_buffer and ogg_sync_wrote: a chunk is behind it
Filled(oy, bytes) == [oy EXCEPT !.data = @ \o bytes]

-----------------------------------------------------------------------------
(* ogg_sync_pageseek                                                       *)

Waiting(oy) == Len(oy.data) - oy.returned
AtCapture(oy) == oy.data[oy.returned + 1].k = "page"
CapturedPage(oy) == oy.data[oy.returned + 1].pg

\* The capture pattern is not there: the seek skips bytes.
Lost(oy) == oy.headerbytes = 0 /\ Waiting(oy) >= HeadLen /\ ~ AtCapture(oy)

\* The header and the segment table are there, or were at an earlier look.
HeaderRead(oy) ==
    IF oy.headerbytes # 0 THEN oy
    ELSE IF /\ Waiting(oy) >= HeadLen /\ AtCapture(oy)
            /\ Waiting(oy) >= HeadLen + Len(CapturedPage(oy).segs)
    THEN [oy EXCEPT !.bodybytes = @ + Len(CapturedPage(oy).body),
                    !.headerbytes = HeadLen + Len(CapturedPage(oy).segs)]
    ELSE oy

Whole(oy) ==
    LET r == HeaderRead(oy)
    IN r.headerbytes # 0 /\ r.bodybytes + r.headerbytes <= Waiting(oy)

\* Neither a whole page nor anything to skip.
NeedsMore(oy) == ~ Lost(oy) /\ ~ Whole(oy)

AfterPage(oy) ==
    LET r == HeaderRead(oy)
    IN [r EXCEPT !.returned = @ + r.headerbytes + r.bodybytes,
                 !.headerbytes = 0, !.bodybytes = 0, !.unsynced = FALSE]

\* sync_fail: on to the next 'O', or to the end of the data
AfterLost(oy) ==
    LET os == {i \in oy.returned + 1 .. Len(oy.data) - 1 :
                  oy.data[i + 1].k \in {"page", "O"}}
    IN [oy EXCEPT !.returned = IF os = {} THEN Len(oy.data) ELSE Min(os),
                  !.headerbytes = 0, !.bodybytes = 0]
=============================================================================
