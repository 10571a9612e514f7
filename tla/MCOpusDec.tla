----------------------------- MODULE MCOpusDec -----------------------------
(* Segments of two bytes and pages of at most two segments or five bytes; *)
(* audio packets of one, two and three bytes: inside a page, ending in an *)
(* empty segment, and over two pages.                                     *)
EXTENDS OpusDec

Pkt(stream, kind, size) == [stream |-> stream, kind |-> kind, size |-> size]

MCPrograms ==
    {<<Pkt(1, "head", 1), Pkt(1, "tags", 1),
       Pkt(1, "audio", 1), Pkt(1, "audio", 3), Pkt(1, "audio", 2), Pkt(1, "audio", 1)>>,
     <<Pkt(1, "head", 1), Pkt(1, "tags", 1), Pkt(1, "audio", 2),
       Pkt(2, "head", 1), Pkt(2, "tags", 1), Pkt(2, "audio", 1)>>}

MCShort == {<<Pkt(1, "head", 1), Pkt(1, "tags", 1), Pkt(1, "audio", 1)>>}
MCLong == {<<Pkt(1, "head", 1), Pkt(1, "tags", 1), Pkt(1, "audio", 1), Pkt(1, "audio", 3), Pkt(1, "audio", 1)>>}

MCJunk == {<<[k |-> "junk"]>>, <<[k |-> "O"], [k |-> "junk"], [k |-> "O"]>>}
=============================================================================
