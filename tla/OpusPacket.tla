----------------------------- MODULE OpusPacket -----------------------------
(***************************************************************************)
(* The framing of an Opus packet (libsrc/opus/src/opus.c and               *)
(* repacketizer.c of the bundled libopus), which every packet the decoder  *)
(* is given goes through: how frames are packed under a TOC byte, taken    *)
(* apart again, and repacked, also in place.  Packets are sequences of     *)
(* bytes; the lengths at which a size takes a second byte, padding goes on *)
(* and a frame is too long are parameters.                                 *)
(***************************************************************************)
EXTENDS Integers, Sequences, FiniteSetsExt, Functions

CONSTANTS
    Esc,        \* the first size that takes two bytes (252)
    PadMax,     \* the padding length byte that says there are more (255)
    MaxFrame    \* the longest frame (1275)

ASSUME PacketAssumption ==
    /\ Esc \in 4 .. 252 /\ Esc % 4 = 0
    /\ PadMax \in 2 .. 255
    /\ MaxFrame \in Esc .. 4 * 255 + 255

BAD_ARG == -1
BUFFER_TOO_SMALL == -2
INVALID_PACKET == -4

\* The low two bits say how many frames, the others how they are coded.
Code(toc) == toc % 4
Config(toc) == toc - (toc % 4)

\* opus_packet_get_samples_per_frame
SamplesPerFrame(toc, Fs) ==
    LET size == (toc \div 8) % 4
    IN IF toc >= 128 THEN (Fs * 2 ^ size) \div 400
       ELSE IF toc >= 96 THEN IF size % 2 = 1 THEN Fs \div 50 ELSE Fs \div 100
       ELSE IF size = 3 THEN (Fs * 60) \div 1000
       ELSE (Fs * 2 ^ size) \div 100

-----------------------------------------------------------------------------
(* Sizes                                                                   *)

\* encode_size
EncodeSize(n) ==
    IF n < Esc THEN <<n>>
    ELSE LET b == Esc + (n % 4) IN <<b, (n - b) \div 4>>

\* parse_size at offset at of which len bytes are left: bytes taken, size
ParseSize(data, at, len) ==
    IF len < 1 THEN [bytes |-> -1, size |-> -1]
    ELSE IF data[at + 1] < Esc THEN [bytes |-> 1, size |-> data[at + 1]]
    ELSE IF len < 2 THEN [bytes |-> -1, size |-> -1]
    ELSE [bytes |-> 2, size |-> 4 * data[at + 2] + data[at + 1]]

SumSeq(s) == SumFunctionOnSet(s, DOMAIN s)

-----------------------------------------------------------------------------
(* opus_packet_parse_impl                                                  *)

Invalid == [ret |-> INVALID_PACKET]

NoPadding == [ok |-> FALSE, bytes |-> 0, pad |-> 0, len |-> 0]

\* The padding length: bytes PadMax as long as it goes on, then another one.
\* Every byte is only looked at if something is left: ok, how many bytes it
\* took, the padding, and what is left of len.
Padding(data, at, len) ==
    LET ends == {k \in 0 .. len - 1 : data[at + k + 1] # PadMax}
        k    == Min(ends)
        last == data[at + k + 1]
        left == len - PadMax * k      \* a byte, and PadMax - 1 of padding, each
    IN IF ends = {} \/ left <= 0 THEN NoPadding
       ELSE [ok |-> left - 1 - last >= 0, bytes |-> k + 1,
             pad |-> (PadMax - 1) * k + last, len |-> left - 1 - last]

\* The sizes of the first n frames of a VBR packet, one after the other.
VbrSizes(data, at, len, n) ==
    LET f[i \in 0 .. n] ==
          IF i = 0 THEN [ok |-> TRUE, at |-> at, len |-> len, last |-> len, size |-> <<>>]
          ELSE LET g == f[i - 1]
                   p == ParseSize(data, g.at, g.len)
               IN IF ~ g.ok THEN g
                  ELSE [ok   |-> p.size >= 0 /\ p.size <= g.len - p.bytes,
                        at   |-> g.at + p.bytes,
                        len  |-> g.len - p.bytes,
                        last |-> g.last - p.bytes - p.size,
                        size |-> Append(g.size, p.size)]
    IN f[n]

\* The frames of a CBR packet, which share what is left.
EvenSizes(at, len, count) ==
    [ok |-> len % count = 0, at |-> at, len |-> len, last |-> len \div count,
     size |-> [i \in 1 .. count - 1 |-> len \div count]]

\* The frame count, and what the code byte and the count byte say before the
\* sizes of frames: where the frames or their sizes begin, what is left.
Counted(data) ==
    LET len   == Len(data) - 1
        code  == Code(data[1])
        ch    == data[2]
        count == ch % 64
        pads  == (ch \div 64) % 2 = 1
        p     == Padding(data, 2, len - 1)
    IN IF code # 3
       THEN [ok |-> TRUE, count |-> IF code = 0 THEN 1 ELSE 2, cbr |-> code = 1,
             vbr |-> code = 2, at |-> 1, len |-> len, pad |-> 0]
       ELSE IF len < 1 THEN [ok |-> FALSE]
       ELSE IF count = 0 \/ SamplesPerFrame(data[1], 48000) * count > 5760
       THEN [ok |-> FALSE]
       ELSE IF pads
       THEN [ok |-> p.ok, count |-> count, cbr |-> ch < 128, vbr |-> ch >= 128,
             at |-> 2 + p.bytes, len |-> p.len, pad |-> p.pad]
       ELSE [ok |-> TRUE, count |-> count, cbr |-> ch < 128, vbr |-> ch >= 128,
             at |-> 2, len |-> len - 1, pad |-> 0]

\* The sizes of all frames but the last, and the rest in last.
Sized(data, c, sd) ==
    IF c.vbr THEN VbrSizes(data, c.at, c.len, c.count - 1)
    ELSE IF c.cbr /\ ~ sd THEN EvenSizes(c.at, c.len, c.count)
    ELSE [ok |-> TRUE, at |-> c.at, len |-> c.len, last |-> c.len, size |-> <<>>]

Bug_Parsed(c, at, size) ==
    [ret |-> c.count, size |-> size, offset |-> at,
     packet_offset |-> at + SumSeq(size)]

Parsed(c, at, size) ==
    [ret |-> c.count, size |-> size, offset |-> at,
     packet_offset |-> c.pad + at + SumSeq(size)]

\* Self-delimited: the last frame (of CBR, every one) has its size before it.
Delimited(data, c, s) ==
    LET p == ParseSize(data, s.at, s.len)
    IN IF p.size < 0 \/ p.size > s.len - p.bytes THEN Invalid
       ELSE IF c.cbr
       THEN IF p.size * c.count > s.len - p.bytes THEN Invalid
            ELSE Parsed(c, s.at + p.bytes, [i \in 1 .. c.count |-> p.size])
       ELSE IF p.bytes + p.size > s.last THEN Invalid
       ELSE Parsed(c, s.at + p.bytes, Append(s.size, p.size))

\* c is what Counted says, s what Sized says.
ParsedAs(data, sd, c, s) ==
    IF ~ s.ok \/ s.last < 0 THEN Invalid
    ELSE IF sd THEN Delimited(data, c, s)
    ELSE IF s.last > MaxFrame THEN Invalid
    ELSE Parsed(c, s.at, Append(s.size, s.last))

ParsedCount(data, sd, c) ==
    IF c.ok THEN ParsedAs(data, sd, c, Sized(data, c, sd)) ELSE Invalid

Parse(data, sd) ==
    IF data = <<>> THEN Invalid ELSE ParsedCount(data, sd, Counted(data))

\* The bytes of each frame of a packet that parsed as p.
FramesOf(data, p) ==
    [i \in 1 .. p.ret |->
        LET at == p.offset + SumFunctionOnSet(p.size, 1 .. i - 1)
        IN SubSeq(data, at + 1, at + p.size[i])]

\* opus_packet_get_nb_frames
NbFrames(data) ==
    IF data = <<>> THEN BAD_ARG
    ELSE IF Code(data[1]) = 0 THEN 1
    ELSE IF Code(data[1]) # 3 THEN 2
    ELSE IF Len(data) < 2 THEN INVALID_PACKET
    ELSE data[2] % 64

-----------------------------------------------------------------------------
(* opus_repacketizer_out_range_impl, for frames of the given lengths        *)

\* The header of the packet: TOC, count, padding lengths and sizes; the TOC's
\* code is the cheapest that fits, unless there is padding to be stated.
SelfSize(size, sd) == IF sd THEN EncodeSize(size[Len(size)]) ELSE <<>>
AllButLast(size) == SubSeq(size, 1, Len(size) - 1)
EncodedSizes(size) ==
    LET f[i \in 0 .. Len(size)] == IF i = 0 THEN <<>> ELSE f[i - 1] \o EncodeSize(size[i])
    IN f[Len(size)]

Vbr(size) == \E i \in 2 .. Len(size) : size[i] # size[1]

\* tot_size of codes 0 to 2
Simple(size, sd) == Len(SelfSize(size, sd)) + SumSeq(size)
    + IF Len(size) = 2 /\ Vbr(size) THEN 1 + Len(EncodeSize(size[1])) ELSE 1

SimpleHead(toc, size, sd) ==
    (IF Len(size) = 1 THEN <<Config(toc)>>
     ELSE IF ~ Vbr(size) THEN <<Config(toc) + 1>>
     ELSE <<Config(toc) + 2>> \o EncodeSize(size[1])) \o SelfSize(size, sd)

Bug_Multiple(size, sd) == Len(SelfSize(size, sd)) + SumSeq(size) + 2
    + IF Vbr(size) THEN Len(EncodedSizes(size)) ELSE 0

\* tot_size of code 3 without padding
Multiple(size, sd) == Len(SelfSize(size, sd)) + SumSeq(size) + 2
    + IF Vbr(size) THEN Len(EncodedSizes(AllButLast(size))) ELSE 0

PadLengths(n) ==
    IF n = 0 THEN <<>>
    ELSE LET more == (n - 1) \div PadMax
         IN [i \in 1 .. more |-> PadMax] \o <<n - PadMax * more - 1>>

MultipleHead(toc, size, sd, pad) ==
    <<Config(toc) + 3,
      Len(size) + (IF Vbr(size) THEN 128 ELSE 0) + (IF pad # 0 THEN 64 ELSE 0)>>
    \o PadLengths(pad)
    \o (IF Vbr(size) THEN EncodedSizes(AllButLast(size)) ELSE <<>>)
    \o SelfSize(size, sd)

\* The header and the total size, or an error; padded up to maxlen if pad.
Packed(toc, size, sd, maxlen, pad) ==
    LET n      == Len(size)
        simple == Simple(size, sd)
        multi  == Multiple(size, sd)
    IN IF n <= 2 /\ simple > maxlen THEN [ret |-> BUFFER_TOO_SMALL]
       ELSE IF n <= 2 /\ ~ (pad /\ simple < maxlen)
       THEN [ret |-> simple, head |-> SimpleHead(toc, size, sd)]
       ELSE IF multi > maxlen THEN [ret |-> BUFFER_TOO_SMALL]
       ELSE IF pad
       THEN [ret |-> maxlen, head |-> MultipleHead(toc, size, sd, maxlen - multi)]
       ELSE [ret |-> multi, head |-> MultipleHead(toc, size, sd, 0)]
=============================================================================
