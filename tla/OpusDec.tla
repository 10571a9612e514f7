------------------------------ MODULE OpusDec ------------------------------
(***************************************************************************)
(* opus_dec_decode (api/avcodec/opus_dec.c) over ogg_sync and ogg_stream:  *)
(* the bytes of the input ring become pages, the pages packets, and the    *)
(* packets a header, tags, and audio for the decoder.  One task_process    *)
(* call is a loop of many steps; start_up serves one task at a time.  The  *)
(* lacing table is one for all tasks.                                      *)
(*                                                                         *)
(* The input ring is taken as the queue that InBuffer shows it to be.  The *)
(* host is external: it packs a program of chained streams with            *)
(* ogg_stream_packetin of libogg and with the page writer of framing.c,    *)
(* flushes when it likes, and the way to the DSP may lose pages and put    *)
(* junk between them.  Bytes arrive between two calls of task_process:     *)
(* what arrives during one is only seen by its next look at the ring.      *)
(***************************************************************************)
EXTENDS OggSync

CONSTANTS
    Tasks,
    Build,         \* "or32" or "x86": which branch of ogg_sync_buffer is compiled
    Programs,      \* the packet sequences a host may send
    JunkRuns,      \* what may stand between two pages
    MaxFaults,     \* bound: pages lost, junk runs and failures to allocate together
    MaxSeg, MaxVals, Nominal, PageLimit, LacingStorage,
    BodyStorage    \* bytes of body_data (32 KB)

Ogg == INSTANCE OggStream

None == 0    \* no decoder, no header yet; streams are numbered from 1

ASSUME DecAssumption ==
    /\ Build \in {"or32", "x86"}
    /\ MaxFaults \in Nat /\ Nominal \in Nat /\ PageLimit \in Nat
    /\ {MaxSeg, MaxVals, LacingStorage, BodyStorage} \subseteq Nat \ {0}

\* A program is not empty, and the host's table, which libogg expands, holds a
\* packet on top of less than a page; what is not a page has no capture pattern.
ASSUME HostAssumption ==
    /\ \A p \in Programs :
          /\ p \in Seq([stream : Nat \ {None}, kind : {"head", "tags", "audio"}, size : Nat])
          /\ p # <<>>
          /\ \A id \in 1 .. Len(p) : p[id].size \div MaxSeg + MaxVals <= LacingStorage
    /\ JunkRuns \subseteq Seq([k : {"junk", "O"}])

VARIABLES
    prog,       \* what the host of a task sends: packets of a stream, kind and size
    mux,        \* its stream state and table, the packet of each entry, the next packet
    pages,      \* history: the pages made, the packets they hold, whether they arrived
    wire,       \* the bytes in the input ring
    lacing,     \* int lacing_val[2048]
    dec,        \* OpusDecContext, and where the call is (pc)
    got,        \* history: pages taken out of the ring
    decoded,    \* history: the packets opus_multistream_decode was given, its decoder,
                \* what went to the output ring for it and where its format was told
    overrun,    \* history: more segments or bytes were stored than there is room for
    lost, junk, failures   \* history: pages lost, junk runs, streams and decoders not made

hostVars == <<prog, mux, pages, lost, junk>>
vars == <<hostVars, wire, lacing, dec, got, decoded, overrun, failures>>

MayFail == lost + junk + failures < MaxFaults

PacketAt(t, id) == prog[t][id]
WholePacket(t, id) == [i \in 1 .. PacketAt(t, id).size |-> <<id, i>>]

NULL == 0

\* opus_dec_init.  It stores neither rCtrl nor wCtrl.
NewDec ==
    [pc |-> "out", state |-> "READ_DATA", oy |-> NewSync, os |-> Ogg!ClearedStream,
     stream_init |-> FALSE, has_opus_stream |-> FALSE, has_tags_packet |-> FALSE,
     packet_count |-> 0, header |-> None, st |-> None, w_ctrl |-> NULL]

NewMux(stream) ==
    [os |-> Ogg!NewStream(stream), lv |-> Ogg!ZeroTable, own |-> <<>>, next |-> 1]

Init ==
    /\ prog \in [Tasks -> Programs]
    /\ mux = [t \in Tasks |-> NewMux(PacketAt(t, 1).stream)]
    /\ pages = [t \in Tasks |-> <<>>]
    /\ wire = [t \in Tasks |-> <<>>]
    /\ lacing = Ogg!ZeroTable
    /\ dec = [t \in Tasks |-> NewDec]
    /\ got = [t \in Tasks |-> 0]
    /\ decoded = [t \in Tasks |-> <<>>]
    /\ overrun = FALSE
    /\ lost = 0 /\ junk = 0 /\ failures = 0

-----------------------------------------------------------------------------
(* The host                                                                *)

DspVars == <<lacing, dec, got, decoded, overrun, failures>>

LastOfStream(t, id) ==
    id = Len(prog[t]) \/ PacketAt(t, id + 1).stream # PacketAt(t, id).stream

\* ogg_stream_packetin of libogg
PackedIn(m, t, id) ==
    LET p     == PacketAt(t, id)
        segs  == [i \in 1 .. p.size \div MaxSeg |-> MaxSeg] \o <<p.size % MaxSeg>>
        fill  == m.os.lacing_fill
    IN [m EXCEPT
          !.os.body = SubSeq(@, m.os.body_returned + 1, Len(@)) \o WholePacket(t, id),
          !.os.body_returned = 0,
          !.os.lacing_fill = @ + Len(segs),
          !.os.e_o_s = LastOfStream(t, id),
          !.lv = [i \in Ogg!Slots |->
                     IF i \in fill .. fill + Len(segs) - 1
                     THEN [Ogg!Segment(segs[i - fill + 1]) EXCEPT !.first = i = fill]
                     ELSE @[i]],
          !.own = @ \o [i \in 1 .. Len(segs) |-> id],
          !.next = @ + 1]

\* The next packet; a new stream, and what follows the tags, begins a page.
HostPacket(t) ==
    LET m   == mux[t]
        id  == m.next
        new == id > 1 /\ PacketAt(t, id).stream # PacketAt(t, id - 1).stream
    IN /\ dec[t].pc = "out"
       /\ id <= Len(prog[t])
       /\ ~ Ogg!CanPageOut(m.os)
       /\ new \/ (id > 1 /\ PacketAt(t, id - 1).kind = "tags") => m.os.lacing_fill = 0
       /\ LET n == IF new THEN [NewMux(PacketAt(t, id).stream) EXCEPT !.next = id] ELSE m
          IN mux' = [mux EXCEPT ![t] = PackedIn(n, t, id)]
       /\ UNCHANGED <<prog, pages, wire, lost, junk, DspVars>>

\* A page is due or flushed; it reaches the DSP or not.
HostPage(t) ==
    LET m    == mux[t]
        page == Ogg!FlushedPage(m.os, m.lv)
        vals == Len(page.segs)
    IN /\ dec[t].pc = "out"
       /\ Ogg!CanFlush(m.os)
       /\ \E arrives \in BOOLEAN :
             /\ arrives \/ MayFail
             /\ lost' = IF arrives THEN lost ELSE lost + 1
             /\ wire' = [wire EXCEPT ![t] = IF arrives THEN @ \o PageBytes(page) ELSE @]
             /\ pages' = [pages EXCEPT ![t] =
                   Append(@, [ids |-> {m.own[i] : i \in 1 .. vals}, arrived |-> arrives,
                              len |-> PageLen(page)])]
       /\ mux' = [mux EXCEPT ![t] =
             [@ EXCEPT !.os = Ogg!Flushed(m.os, m.lv), !.lv = Ogg!FlushedTable(m.os, m.lv),
                       !.own = SubSeq(@, vals + 1, Len(@))]]
       /\ UNCHANGED <<prog, junk, DspVars>>

HostJunk(t) ==
    /\ dec[t].pc = "out"
    /\ MayFail /\ junk' = junk + 1
    /\ \E j \in JunkRuns : wire' = [wire EXCEPT ![t] = @ \o j]
    /\ UNCHANGED <<prog, mux, pages, lost, DspVars>>

Host(t) == HostPacket(t) \/ HostPage(t) \/ HostJunk(t)

-----------------------------------------------------------------------------
(* opus_dec_decode                                                         *)

At(t, l) == dec[t].pc = l
Put(t, d) == dec' = [dec EXCEPT ![t] = d]
Idle(t) == dec[t].pc = "out"

\* task_process calls decode; after an audio packet it goes on behind it.
Decode(t) ==
    LET d == dec[t]
    IN /\ \A u \in Tasks : Idle(u)
       /\ IF d.state = "SYNC_PACKET"
          THEN Put(t, [d EXCEPT !.pc = "packet", !.packet_count = @ + 1])
          ELSE Put(t, [d EXCEPT !.pc = "read"])
       /\ UNCHANGED <<hostVars, wire, lacing, got, decoded, overrun, failures>>

\* ogg_sync_buffer and ogg_sync_wrote.  In the branch for OR32, which no makefile
\* defines, the ring is asked first.  The other one is what is built: os_buffer_read
\* takes the bytes and returns 0, which ogg_sync_buffer takes for an error: it
\* returns -1, and ogg_sync_wrote refuses 4294967295 bytes (a long of 64 bits).
Read(t) ==
    LET d == dec[t]
        n == Min({Chunk, Len(wire[t])})
        s == Shifted(d.oy)
    IN /\ At(t, "read")
       /\ IF Build = "x86"
          THEN /\ Put(t, [d EXCEPT !.oy = s, !.pc = "seek"])
               /\ wire' = [wire EXCEPT ![t] = SubSeq(@, n + 1, Len(@))]
          ELSE IF n < Chunk
          THEN /\ Put(t, [d EXCEPT !.oy = s, !.state = "READ_DATA", !.pc = "out"])
               /\ UNCHANGED wire
          ELSE /\ Put(t, [d EXCEPT !.oy = Filled(s, SubSeq(wire[t], 1, n)), !.pc = "seek"])
               /\ wire' = [wire EXCEPT ![t] = SubSeq(@, n + 1, Len(@))]
       /\ UNCHANGED <<hostVars, lacing, got, decoded, overrun, failures>>

\* ogg_sync_pageout needs more data.
SeekMore(t) ==
    LET d == dec[t]
    IN /\ At(t, "seek")
       /\ NeedsMore(d.oy)
       /\ Put(t, [d EXCEPT !.oy = HeaderRead(@), !.pc = "read"])
       /\ UNCHANGED <<hostVars, wire, lacing, got, decoded, overrun, failures>>

\* There is no page here: the first time ogg_sync_pageout says so, and the
\* decoder reads on; after that it seeks on by itself.
SeekLost(t) ==
    LET d == dec[t]
    IN /\ At(t, "seek")
       /\ Lost(d.oy)
       /\ Put(t, [d EXCEPT !.oy = [AfterLost(@) EXCEPT !.unsynced = TRUE],
                           !.pc = IF d.oy.unsynced THEN "seek" ELSE "read"])
       /\ UNCHANGED <<hostVars, wire, lacing, got, decoded, overrun, failures>>

\* ogg_stream_init with the first page; without memory for the body it leaves a
\* cleared stream behind, and the decoder does not look.
Opened(t, page, s, v) ==
    IF dec[t].stream_init
    THEN s = dec[t].os /\ v = lacing /\ UNCHANGED failures
    ELSE /\ v = Ogg!ZeroTable
         /\ \/ s = Ogg!NewStream(page.serialno) /\ UNCHANGED failures
            \/ /\ MayFail /\ failures' = failures + 1
               /\ s = Ogg!ClearedStream

Bug_Switched(s, page) == s

\* A page of another stream: ogg_stream_reset_serialno
Switched(s, page) ==
    IF page.serialno # s.serialno THEN Ogg!Reset(s, page.serialno) ELSE s

\* What the two fixed tables of a stream do not hold: neither is expanded.
Overruns(os) == os.lacing_fill > LacingStorage \/ Len(os.body) > BodyStorage

SeekPage(t) ==
    LET d    == dec[t]
        page == CapturedPage(d.oy)
    IN /\ At(t, "seek")
       /\ Whole(d.oy)
       /\ \E s \in {d.os, Ogg!NewStream(page.serialno), Ogg!ClearedStream},
             v \in {lacing, Ogg!ZeroTable} :
             /\ Opened(t, page, s, v)
             /\ LET in == Ogg!PageIn(Switched(s, page), v, page)
                IN /\ Put(t, [d EXCEPT !.oy = AfterPage(@), !.os = in.os,
                                       !.stream_init = TRUE, !.pc = "packet"])
                   /\ lacing' = in.lv
                   /\ overrun' = (overrun \/ Overruns(in.os))
       /\ got' = [got EXCEPT ![t] = @ + 1]
       /\ UNCHANGED <<hostVars, wire, decoded>>

\* ogg_stream_packetout has no packet, or reports a gap: either way the inner
\* loop is left, and what follows a gap waits for the next page.
NoPacket(t) ==
    LET d == dec[t]
    IN /\ At(t, "packet")
       /\ \/ ~ Ogg!HasPacket(d.os) /\ Put(t, [d EXCEPT !.pc = "seek"])
          \/ /\ Ogg!AtHole(d.os, lacing)
             /\ Put(t, [d EXCEPT !.os = Ogg!AfterHole(@), !.pc = "seek"])
       /\ UNCHANGED <<hostVars, wire, lacing, got, decoded, overrun, failures>>

IsHead(t, op) ==
    Len(op) > 0 /\ op[1][2] = 1 /\ PacketAt(t, op[1][1]).kind = "head"

Bug_Restarted(d) ==
    [d EXCEPT !.has_opus_stream = TRUE, !.has_tags_packet = FALSE]

\* An OpusHead at the beginning of a stream: a stream whose tags were seen ends,
\* with its decoder.
Restarted(d) ==
    LET e == IF d.has_opus_stream /\ d.has_tags_packet
             THEN [d EXCEPT !.has_opus_stream = FALSE, !.st = None] ELSE d
    IN IF e.has_opus_stream THEN e
       ELSE [e EXCEPT !.has_opus_stream = TRUE, !.has_tags_packet = FALSE,
                      !.packet_count = 0]

\* There is a packet: the context with the packet taken and an OpusHead heeded.
Taken(t) ==
    LET d  == dec[t]
        op == Ogg!Packet(d.os, lacing)
        e  == [d EXCEPT !.os = Ogg!AfterPacket(@, lacing)]
    IN IF Ogg!PacketBos(d.os, lacing) /\ IsHead(t, op) THEN Restarted(e) ELSE e

HasOp(t) ==
    At(t, "packet") /\ Ogg!HasPacket(dec[t].os) /\ ~ Ogg!AtHole(dec[t].os, lacing)

\* No OpusHead so far: the packet is dropped and the next page asked for.
NotStream(t) ==
    /\ HasOp(t)
    /\ ~ Taken(t).has_opus_stream
    /\ Put(t, [Taken(t) EXCEPT !.pc = "seek"])
    /\ UNCHANGED <<hostVars, wire, lacing, got, decoded, overrun, failures>>

\* The first packet: opus_header_parse, whose result is ignored (what does not
\* parse leaves the header as it was), and the decoder for that header.
Header(t) ==
    LET op == Ogg!Packet(dec[t].os, lacing)
        d  == Taken(t)
        h  == IF IsHead(t, op) THEN PacketAt(t, op[1][1]).stream ELSE d.header
    IN /\ HasOp(t)
       /\ d.has_opus_stream /\ d.packet_count = 0
       /\ \/ /\ h # None
             /\ Put(t, [d EXCEPT !.header = h, !.st = h, !.packet_count = 1])
             /\ UNCHANGED failures
          \/ /\ h = None \/ MayFail
             /\ failures' = failures + 1
             /\ Put(t, [d EXCEPT !.header = h, !.st = None, !.state = "SYNC_PAGEOUT",
                                 !.pc = "out"])
       /\ UNCHANGED <<hostVars, wire, lacing, got, decoded, overrun>>

\* The second packet, whatever it holds, is the tags.
Tags(t) ==
    LET d == Taken(t)
    IN /\ HasOp(t)
       /\ d.has_opus_stream /\ d.packet_count = 1
       /\ Put(t, [d EXCEPT !.has_tags_packet = TRUE, !.packet_count = 2])
       /\ UNCHANGED <<hostVars, wire, lacing, got, decoded, overrun, failures>>

\* What tmp32Buffer holds of a packet that was decoded into out_save_buf: the
\* statement that would bring it there is a comment.
tmp32Buffer(op) == <<>>

\* Any other packet is decoded, tmp32Buffer written to the ring, the format told, and
\* the call returns DECODEC_FINISH.  (What opus_multistream_decode refuses is not
\* written, and an error told in the same place.)
Audio(t) ==
    LET op == Ogg!Packet(dec[t].os, lacing)
        d  == Taken(t)
    IN /\ HasOp(t)
       /\ d.has_opus_stream /\ d.packet_count > 1
       /\ decoded' = [decoded EXCEPT ![t] =
             Append(@, [op |-> op, st |-> d.st, out |-> tmp32Buffer(op), told |-> d.w_ctrl])]
       /\ Put(t, [d EXCEPT !.state = "SYNC_PACKET", !.pc = "out"])
       /\ UNCHANGED <<hostVars, wire, lacing, got, overrun, failures>>

Dsp(t) ==
    \/ Decode(t) \/ Read(t)
    \/ SeekMore(t) \/ SeekLost(t) \/ SeekPage(t)
    \/ NoPacket(t) \/ NotStream(t) \/ Header(t) \/ Tags(t) \/ Audio(t)

Next == \E t \in Tasks : Host(t) \/ Dsp(t)

Spec == Init /\ [][Next]_vars

\* start_up calls task_process of each task that is at work in every turn.
FairSpec == Spec /\ \A t \in Tasks : WF_vars(Dsp(t))

-----------------------------------------------------------------------------
\* Which packets are lost with a page that did not arrive.
Damaged(t) == UNION {pages[t][n].ids : n \in {n \in 1 .. Len(pages[t]) : ~ pages[t][n].arrived}}

\* The way and the heap did nothing to the first two packets of any stream.
Sound(t) ==
    failures = 0 /\ \A id \in Damaged(t) : PacketAt(t, id).kind = "audio"

\* What is decoded are packets the host sent, whole, in the order it sent them,
\* none twice, whatever was lost and wherever pages and chunks end: a packet of
\* which a page is missing is never patched up from the pages that came.
Intact ==
    \A t \in Tasks :
        LET id(n) == decoded[t][n].op[1][1]
        IN \A n \in 1 .. Len(decoded[t]) :
              /\ Len(decoded[t][n].op) > 0
              /\ id(n) \in 1 .. mux[t].next - 1
              /\ decoded[t][n].op = WholePacket(t, id(n))
              /\ n > 1 => id(n - 1) < id(n)

\* opus_multistream_decode is never given a decoder that is not there.
DecoderThere ==
    \A t \in Tasks : \A n \in 1 .. Len(decoded[t]) : decoded[t][n].st # None

\* Audio, and nothing but audio, goes to the decoder made from the header of
\* its own stream, across chained streams; no packet ever meets a missing one.
OwnDecoder ==
    /\ DecoderThere
    /\ \A t \in Tasks : Sound(t) =>
          \A n \in 1 .. Len(decoded[t]) :
              LET p == PacketAt(t, decoded[t][n].op[1][1])
              IN p.kind = "audio" /\ p.stream = decoded[t][n].st

\* The pages that arrived, in order, as far as the decoder has taken them; after
\* a loss what the last of them brought may still be waiting.
Seen(t) ==
    LET came == {n \in 1 .. Len(pages[t]) : pages[t][n].arrived}
        upto == IF Damaged(t) = {} THEN got[t] ELSE got[t] - 1
    IN {n \in came : Cardinality({m \in came : m <= n}) <= upto}

\* The audio packets all of whose pages the decoder has taken.
Due(t) ==
    {id \in 1 .. mux[t].next - 1 :
        /\ PacketAt(t, id).kind = "audio"
        /\ \A i \in 1 .. Len(mux[t].own) : mux[t].own[i] # id
        /\ \A n \in 1 .. Len(pages[t]) : id \in pages[t][n].ids => n \in Seen(t)}

\* When the decoder waits for input it has decoded every packet it was given
\* in full: a loss costs the packets it hit and no other one.  As long as there is a
\* stream the two fixed tables are big enough: LacingStorage holds three pages and a
\* gap, BodyStorage the bytes of a segment that waits and of a page.
NoneLost ==
    \A t \in Tasks : Sound(t) =>
        /\ ~ overrun
        /\ Idle(t) /\ dec[t].state = "READ_DATA" =>
              \A id \in Due(t) :
                  \E n \in 1 .. Len(decoded[t]) : decoded[t][n].op[1][1] = id

\* The sync buffer never holds more than an incomplete page and a chunk, a chunk
\* for each stretch of junk, and one for each decoder that could not be made: the
\* call returns then before the pages behind are used up, and the next one reads
\* first.  Storage is not enlarged (framing.c:517), so this is what has to fit into
\* the 32 KB of in_save_buf.
SyncBounded ==
    \A t \in Tasks :
        Len(dec[t].oy.data) <=
            Chunk * (1 + junk + failures) + Max({0} \cup {pages[t][n].len - 1 : n \in 1 .. Len(pages[t])})

\* As long as the table has held every segment it is in order: what was returned,
\* the whole packets, the rest.  The last entry of the whole packets ends one, so
\* that looking for the end of a packet never leaves them.
LacingInOrder ==
    \A t \in Tasks :
        LET os == dec[t].os
        IN overrun \/ /\ 0 <= os.lacing_returned
                      /\ os.lacing_returned <= os.lacing_packet
                      /\ os.lacing_packet <= os.lacing_fill
                      /\ os.lacing_packet > 0 => lacing[os.lacing_packet - 1].val < MaxSeg

\* What goes to the output ring is what was decoded.
Heard == \A t \in Tasks : \A n \in 1 .. Len(decoded[t]) : decoded[t][n].out = decoded[t][n].op

\* The format of what was decoded is told in the write registers of the task.
FormatTold == \A t \in Tasks : \A n \in 1 .. Len(decoded[t]) : decoded[t][n].told # NULL

\* Every call of decode comes back to start_up.
DecodeReturns == \A t \in Tasks : dec[t].pc # "out" ~> dec[t].pc = "out"
=============================================================================
