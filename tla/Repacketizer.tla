---------------------------- MODULE Repacketizer ----------------------------
(***************************************************************************)
(* The repacketizer of libopus and the operations built on it              *)
(* (libsrc/opus/src/repacketizer.c): packets are submitted, ranges of      *)
(* their frames written out again, and single and multistream packets      *)
(* padded and unpadded in place.  Every call is a step; op is what the     *)
(* last one was given and returned.                                        *)
(***************************************************************************)
EXTENDS OpusPacket

CONSTANTS
    Packets,        \* well-formed packets, as any encoder may send them
    ToSubmit,       \* those that are collected
    MultiPackets,   \* [data, streams]: packets of several streams
    ByteStrings,    \* anything else a file may hold
    MaxLens,        \* buffer sizes handed to opus_repacketizer_out_range
    MoreBytes,      \* how much longer a packet is padded
    MaxCats         \* bound: packets submitted between two resets

\* unsigned char
Byte == 0 .. 255

ASSUME RepacketizerAssumption ==
    /\ ToSubmit \subseteq Seq(Byte) /\ ByteStrings \subseteq Seq(Byte)
    /\ Packets \subseteq Seq(Byte)
    /\ \A m \in MultiPackets : m.data \in Seq(Byte) /\ m.streams \in Nat \ {0}
    /\ MaxLens \subseteq Nat /\ MoreBytes \subseteq Nat \ {0}

VARIABLES
    rp,          \* OpusRepacketizer; frames holds the bytes that are pointed at
    submitted,   \* history: the lengths of the packets submitted
    op           \* the last call

vars == <<rp, submitted, op>>

\* opus_repacketizer_init
NewRp == [toc |-> 0, framesize |-> 0, frames |-> <<>>]
NoOp == [call |-> "none"]

Init == rp = NewRp /\ submitted = <<>> /\ op = NoOp

Lengths(frames) == [i \in DOMAIN frames |-> Len(frames[i])]

-----------------------------------------------------------------------------
(* Submitting: opus_repacketizer_cat_impl                                  *)

\* The TOC and frame duration of what is collected, or of this first packet.
Toc(r, data) == IF r.frames = <<>> THEN data[1] ELSE r.toc
FrameSize(r, data) ==
    IF r.frames = <<>> THEN SamplesPerFrame(data[1], 8000) ELSE r.framesize

Bug_Fits(r, data) == (NbFrames(data) + Len(r.frames)) * FrameSize(r, data) < 960

\* At most 120 ms together.
Fits(r, data) == (NbFrames(data) + Len(r.frames)) * FrameSize(r, data) <= 960

CanCat(r, data, sd) ==
    /\ data # <<>>
    /\ Config(Toc(r, data)) = Config(data[1])
    /\ NbFrames(data) >= 1
    /\ Fits(r, data)
    /\ Parse(data, sd).ret >= 1

\* A refused first packet leaves its TOC and frame size behind.
Catted(r, data, sd) ==
    IF data = <<>> THEN r
    ELSE [toc |-> Toc(r, data), framesize |-> FrameSize(r, data),
          frames |-> IF CanCat(r, data, sd)
                     THEN r.frames \o FramesOf(data, Parse(data, sd)) ELSE r.frames]

Cat(data) ==
    /\ Len(submitted) < MaxCats
    /\ op.call \in {"none", "cat"}
    /\ rp' = Catted(rp, data, FALSE)
    /\ IF CanCat(rp, data, FALSE)
       THEN submitted' = Append(submitted, Len(data))
       ELSE UNCHANGED submitted
    /\ op' = [call |-> "cat", data |-> data, before |-> rp, ok |-> CanCat(rp, data, FALSE)]

Reset == rp' = NewRp /\ submitted' = <<>> /\ op' = NoOp

-----------------------------------------------------------------------------
(* Writing: the header, then the frames one after the other, in place      *)

Over(buf, at, s) ==
    [j \in 1 .. Len(buf) |-> IF j - at \in 1 .. Len(s) THEN s[j - at] ELSE buf[j]]

\* OPUS_MOVE of each frame, from where it is (at) to its place behind the header
\* and the frames before; what an earlier move has overwritten moves on as it is.
Bug_Moved(buf, to, at, size) ==
    LET n == Len(size)
        f[i \in 0 .. n] ==
          IF i = 0 THEN buf
          ELSE LET k == n + 1 - i
               IN Over(f[i - 1], to + SumFunctionOnSet(size, 1 .. k - 1),
                       SubSeq(f[i - 1], at[k] + 1, at[k] + size[k]))
    IN f[n]

Moved(buf, to, at, size) ==
    LET f[i \in 0 .. Len(size)] ==
          IF i = 0 THEN buf
          ELSE Over(f[i - 1], to + SumFunctionOnSet(size, 1 .. i - 1),
                    SubSeq(f[i - 1], at[i] + 1, at[i] + size[i]))
    IN f[Len(size)]

Flat(frames) ==
    LET f[i \in 0 .. Len(frames)] == IF i = 0 THEN <<>> ELSE f[i - 1] \o frames[i]
    IN f[Len(frames)]

\* opus_repacketizer_out_range_impl into a buffer that holds none of the frames
OutRange(begin, end, maxlen, sd, pad) ==
    LET frames == SubSeq(rp.frames, begin + 1, end)
        q      == Packed(rp.toc, Lengths(frames), sd, maxlen, pad)
        bytes  == q.head \o Flat(frames)
    IN /\ begin < end /\ end <= Len(rp.frames)
       /\ op' = [call |-> "out", frames |-> frames, maxlen |-> maxlen, sd |-> sd,
                 ret |-> q.ret,
                 data |-> IF q.ret < 0 THEN <<>>
                          ELSE bytes \o [i \in 1 .. q.ret - Len(bytes) |-> 0]]
       /\ UNCHANGED <<rp, submitted>>

\* The frames of the packet at offset from of buf, which parsed as p, packed as q
\* at offset dst, where room bytes may be written.
RepackedAs(buf, from, dst, room, pad, p, q) ==
    LET at   == [i \in 1 .. p.ret |-> from + p.offset + SumFunctionOnSet(p.size, 1 .. i - 1)]
        done == Moved(Over(buf, dst, q.head), dst + Len(q.head), at, p.size)
        used == Len(q.head) + SumSeq(p.size)
    IN IF q.ret < 0 THEN buf
       ELSE IF pad THEN Over(done, dst + used, [i \in 1 .. room - used |-> 0])
       ELSE done

RepackedFrom(buf, from, dst, room, pad, p, q) ==
    [ret |-> q.ret, buf |-> RepackedAs(buf, from, dst, room, pad, p, q)]

\* opus_repacketizer_cat of data, the packet at offset from, to a new
\* repacketizer, and opus_repacketizer_out_range_impl: result and buffer.
Repacked(buf, from, data, dst, room, sd, pad) ==
    IF CanCat(NewRp, data, sd)
    THEN RepackedFrom(buf, from, dst, room, pad, Parse(data, sd),
                      Packed(data[1], Parse(data, sd).size, sd, room, pad))
    ELSE [ret |-> INVALID_PACKET, buf |-> buf]

\* opus_packet_pad: the packet is first moved to the end of the longer buffer
Padded(data, more) ==
    Repacked(Over(data \o [i \in 1 .. more |-> 0], more, data),
             more, data, 0, Len(data) + more, FALSE, TRUE)

Pad(data, more) ==
    /\ \E r \in {Padded(data, more)} :
          op' = [call |-> "pad", data |-> data, more |-> more, ret |-> r.ret, buf |-> r.buf]
    /\ UNCHANGED <<rp, submitted>>

\* opus_packet_unpad
Unpad(data) ==
    /\ \E r \in {Repacked(data, 0, data, 0, Len(data), FALSE, FALSE)} :
          op' = [call |-> "unpad", data |-> data, ret |-> r.ret, buf |-> r.buf]
    /\ UNCHANGED <<rp, submitted>>

\* The streams of a multistream packet: each but the last is self-delimited.
\* The first k of n streams, one behind the other.
FirstStreams(data, k, n) ==
    LET f[s \in 0 .. k] ==
          IF s = 0 THEN [ok |-> TRUE, at |-> 0, parts |-> <<>>]
          ELSE LET g    == f[s - 1]
                   rest == SubSeq(data, g.at + 1, Len(data))
                   p    == Parse(rest, s # n)
               IN IF ~ g.ok \/ p.ret < 0 THEN [g EXCEPT !.ok = FALSE]
                  ELSE [ok |-> TRUE, at |-> g.at + p.packet_offset,
                        parts |-> Append(g.parts, [at |-> g.at,
                                     data |-> SubSeq(rest, 1, p.packet_offset)])]
    IN f[k]

StreamsOf(data, n) == FirstStreams(data, n, n)

\* opus_multistream_packet_unpad: every stream moves down behind the one before.
\* g is what has been done so far, p the next stream, r its result.
UnpaddedNext(g, p, r) ==
    IF r.ret < 0 THEN [g EXCEPT !.ret = r.ret]
    ELSE [ret |-> g.ret + r.ret, buf |-> r.buf, at |-> g.at + p.packet_offset]

UnpaddedStream(g, rest, sd, p) ==
    IF p.ret < 0 THEN [g EXCEPT !.ret = p.ret]
    ELSE UnpaddedNext(g, p, Repacked(g.buf, g.at, SubSeq(rest, 1, p.packet_offset),
                                     g.ret, Len(rest), sd, FALSE))

MultiUnpadded(data, n) ==
    LET rest(g) == SubSeq(g.buf, g.at + 1, Len(data))
        f[s \in 0 .. n] ==
          IF s = 0 THEN [ret |-> 0, buf |-> data, at |-> 0]
          ELSE LET g == f[s - 1]
               IN IF g.ret < 0 THEN g
                  ELSE UnpaddedStream(g, rest(g), s # n, Parse(rest(g), s # n))
    IN f[n]

MultiUnpad(m) ==
    /\ \E r \in {MultiUnpadded(m.data, m.streams)} :
          op' = [call |-> "multi_unpad", m |-> m, ret |-> r.ret, buf |-> r.buf]
    /\ UNCHANGED <<rp, submitted>>

\* opus_multistream_packet_pad: the last stream is padded
MultiPad(m, more) ==
    /\ \E head \in {FirstStreams(m.data, m.streams - 1, m.streams)} :
       \E r \in {Padded(SubSeq(m.data, head.at + 1, Len(m.data)), more)} :
          op' = [call |-> "multi_pad", m |-> m,
                 ret |-> IF head.ok THEN r.ret ELSE INVALID_PACKET,
                 buf |-> SubSeq(m.data, 1, head.at) \o r.buf]
    /\ UNCHANGED <<rp, submitted>>

\* opus_packet_parse_impl of anything
ParseBytes(data, sd) ==
    /\ op' = [call |-> "parse", data |-> data, sd |-> sd, p |-> Parse(data, sd)]
    /\ UNCHANGED <<rp, submitted>>

\* What one call returns does not depend on what another one returned: a range is
\* only looked at right after a packet came, the stateless calls on their own.
Next ==
    \/ \E data \in ToSubmit : Cat(data)
    \/ Reset
    \/ /\ op.call = "cat"
       /\ \E begin, end \in 0 .. Len(rp.frames), maxlen \in MaxLens, sd, pad \in BOOLEAN :
             OutRange(begin, end, maxlen, sd, pad)
    \/ /\ op = NoOp /\ rp = NewRp
       /\ \/ \E data \in Packets, more \in MoreBytes : Pad(data, more)
          \/ \E data \in Packets : Unpad(data)
          \/ \E m \in MultiPackets : MultiUnpad(m)
          \/ \E m \in MultiPackets, more \in MoreBytes : MultiPad(m, more)
          \/ \E data \in ByteStrings, sd \in BOOLEAN : ParseBytes(data, sd)

Spec == Init /\ [][Next]_vars

-----------------------------------------------------------------------------
\* A packet holds these frames under this configuration and nothing else.
ParsedHolds(data, p, frames) ==
    /\ p.ret = Len(frames)
    /\ FramesOf(data, p) = frames
    /\ p.packet_offset = Len(data)

Holds(data, sd, toc, frames) ==
    ParsedHolds(data, Parse(data, sd), frames) /\ Config(data[1]) = Config(toc)

SameFrames(data, sd, as) ==
    Holds(data, sd, as[1], FramesOf(as, Parse(as, sd)))

SameParts(a, b, n) ==
    a.ok /\ \A s \in 1 .. n : SameFrames(a.parts[s].data, s # n, b.parts[s].data)

SameStreams(data, m) ==
    SameParts(StreamsOf(data, m.streams), StreamsOf(m.data, m.streams), m.streams)

\* What is written parses again into the frames it was made of, whatever code,
\* padding and delimiting are chosen, and in place no frame is overwritten
\* before it has been moved (the celt_assert of repacketizer.c:214).  Unpadding
\* never makes a packet longer (the celt_assert of repacketizer.c:271).
RoundTrip ==
    /\ op.call = "out" /\ op.ret > 0 =>
          /\ op.ret = Len(op.data) /\ op.ret <= op.maxlen
          /\ Holds(op.data, op.sd, rp.toc, op.frames)
    /\ op.call = "pad" /\ op.ret > 0 => SameFrames(op.buf, FALSE, op.data)
    /\ op.call = "unpad" /\ op.ret > 0 =>
          /\ op.ret <= Len(op.data)
          /\ SameFrames(SubSeq(op.buf, 1, op.ret), FALSE, op.data)
    /\ op.call = "multi_unpad" /\ op.ret > 0 =>
          SameStreams(SubSeq(op.buf, 1, op.ret), op.m)
    /\ op.call = "multi_pad" /\ op.ret > 0 => SameStreams(op.buf, op.m)

\* How long n frames of this configuration are, in samples at 8 kHz.
Duration(n, toc) == n * SamplesPerFrame(toc, 8000)

\* No call refuses a packet that parses: padding and unpadding succeed (opus.h
\* gives INVALID_PACKET for invalid data only), and submitting does unless the
\* configuration differs or more than 120 ms came together.
ValidAccepted ==
    /\ op.call \in {"pad", "unpad"} /\ Parse(op.data, FALSE).ret > 0 => op.ret > 0
    /\ op.call \in {"multi_unpad", "multi_pad"} /\ StreamsOf(op.m.data, op.m.streams).ok =>
          op.ret > 0
    /\ op.call = "cat" /\ Parse(op.data, FALSE).ret > 0 =>
          op.ok \/ (op.before.frames # <<>> /\ Config(op.before.toc) # Config(op.data[1]))
                \/ Duration(Len(op.before.frames) + Parse(op.data, FALSE).ret, op.data[1]) > 960

\* Whatever bytes a packet is made of, its frames lie inside it one after the
\* other, their count is the one opus_packet_get_nb_frames tells, and no more
\* than the 48 entries that size[] and the repacketizer have.
ParseWithin ==
    /\ op.call = "parse" /\ op.p.ret >= 0 =>
          /\ op.p.ret = NbFrames(op.data) /\ Len(op.p.size) = op.p.ret
          /\ op.p.ret \in 1 .. 48
          /\ \A i \in 1 .. op.p.ret : op.p.size[i] >= 0
          /\ op.p.offset + SumSeq(op.p.size) <= op.p.packet_offset
          /\ op.p.packet_offset <= Len(op.data)
          /\ ~ op.sd => op.p.packet_offset = Len(op.data)
    /\ Len(rp.frames) <= 48
    /\ Duration(Len(rp.frames), rp.toc) <= 960

\* "In order to guarantee success, this should be at least 1276 for a single
\* frame, or for multiple frames, 1277*(end-begin)" (opus.h:853-857)
RoomForFrames ==
    op.call = "out" /\ ~ op.sd
        /\ op.maxlen >= (IF Len(op.frames) = 1 THEN MaxFrame + 1
                         ELSE (MaxFrame + 2) * Len(op.frames)) =>
            op.ret > 0
=============================================================================
