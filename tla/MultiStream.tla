---------------------------- MODULE MultiStream ----------------------------
(***************************************************************************)
(* Streams of more than one channel, from the encoder's set-up to the      *)
(* samples of the decoder: opus_enc_init (api/avcodec/opus_enc.c), the     *)
(* OpusHead packet (api/avutils/opus_header.c), the loop over the streams  *)
(* of opus_multistream_encode, and opus_multistream_decode with the        *)
(* decoder opus_dec_decode makes of the header (libsrc/opus/src).  The     *)
(* codec of one stream is external: it makes any packet it may make.       *)
(***************************************************************************)
EXTENDS Repacketizer

CONSTANTS
    Setups,          \* what the registers may ask of the encoder
    Coded,           \* Coded[s]: the packets the codec of stream s may make
    ForeignHeaders,  \* header packets of other encoders, sound and broken
    AnyHeaders,      \* header records to be written
    Packs,           \* packets of other encoders
    FrameRoom,       \* samples the decoder asks for (OPUS_FRAME_SZIE)
    OFrameRoom       \* OPUS_ENC_O_FRAME_BYTES

VARIABLES
    enc,    \* the encoder: its layout, frame size and budget, or None
    sent,   \* the packet it makes: bytes, frames and channels per stream
    h,      \* OpusDecContext.header
    dec     \* the layout of the decoder, or None

msVars == <<enc, sent, h, dec>>
allVars == <<vars, msVars>>

None == [streams |-> 0]
Muted == 255

-----------------------------------------------------------------------------
(* Layouts: which channel is the left, right or only one of which stream    *)

\* vorbis_mappings
Vorbis == <<
    [streams |-> 1, coupled |-> 0, mapping |-> <<0>>],
    [streams |-> 1, coupled |-> 1, mapping |-> <<0, 1>>],
    [streams |-> 2, coupled |-> 1, mapping |-> <<0, 2, 1>>],
    [streams |-> 2, coupled |-> 2, mapping |-> <<0, 1, 2, 3>>],
    [streams |-> 3, coupled |-> 2, mapping |-> <<0, 4, 1, 2, 3>>],
    [streams |-> 4, coupled |-> 2, mapping |-> <<0, 4, 1, 2, 3, 5>>],
    [streams |-> 4, coupled |-> 3, mapping |-> <<0, 4, 1, 2, 3, 5, 6>>],
    [streams |-> 5, coupled |-> 3, mapping |-> <<0, 6, 1, 2, 3, 4, 5, 7>>] >>

\* opus_multistream_surround_encoder_init
SurroundLayout(channels, family) ==
    IF family = 255
    THEN [streams |-> channels, coupled |-> 0, mapping |-> [c \in 1 .. channels |-> c - 1]]
    ELSE Vorbis[channels]

\* get_left_channel, get_right_channel, get_mono_channel: called again and again
\* from the last one found, they find all channels with this entry.
ChannelsOf(l, entry) == {c \in DOMAIN l.mapping : l.mapping[c] = entry}
Left(l, s) == ChannelsOf(l, 2 * s)
Right(l, s) == ChannelsOf(l, 2 * s + 1)
Mono(l, s) == ChannelsOf(l, s + l.coupled)

Bug_ValidLayout(l) ==
    /\ l.streams + l.coupled <= 255
    /\ \A c \in DOMAIN l.mapping : l.mapping[c] <= l.streams + l.coupled \/ l.mapping[c] = Muted

\* validate_layout
ValidLayout(l) ==
    /\ l.streams + l.coupled <= 255
    /\ \A c \in DOMAIN l.mapping : l.mapping[c] < l.streams + l.coupled \/ l.mapping[c] = Muted

\* validate_encoder_layout
ValidEncoderLayout(l) ==
    \A s \in 0 .. l.streams - 1 :
        IF s < l.coupled THEN Left(l, s) # {} /\ Right(l, s) # {} ELSE Mono(l, s) # {}

ValidCounts(l) ==
    /\ Len(l.mapping) \in 1 .. 255
    /\ l.streams >= 1 /\ l.coupled \in 0 .. l.streams /\ l.streams <= 255 - l.coupled

-----------------------------------------------------------------------------
(* The OpusHead packet                                                     *)

Magic == <<79, 112, 117, 115, 72, 101, 97, 100>>

\* The decoder's header before the first packet: os_memset.
NewHeader ==
    [version |-> 0, channels |-> 0, preskip |-> 0, rate |-> 0, gain |-> 0,
     family |-> 0, streams |-> 0, coupled |-> 0, map |-> <<>>]

U16(n) == <<n % 256, (n \div 256) % 256>>
U32(n) == U16(n) \o U16(n \div 65536)

Room == 276

\* opus_header_to_packet; nothing if it does not fit.
HeaderBytes(g) ==
    LET bytes == Magic \o <<1, g.channels>> \o U16(g.preskip) \o U32(g.rate)
                 \o U16(g.gain) \o <<g.family>>
                 \o IF g.family = 0 THEN <<>>
                    ELSE <<g.streams, g.coupled>> \o SubSeq(g.map, 1, g.channels)
    IN IF Len(bytes) > Room THEN <<>> ELSE bytes

Bug_Signed(n) == n

\* (short)shortval
Signed(n) == IF n >= 32768 THEN n - 65536 ELSE n

\* How many entries of stream_map a packet of family # 0 sets: all, or those up
\* to the first one out of range, which is set all the same, or to the end of p.
OutOfRange(p, i) == p[21 + i] > p[20] + p[21] /\ p[21 + i] # Muted
Mapped(p) ==
    LET there == Min({p[10], Len(p) - 21})
    IN Min({there} \cup {i \in 1 .. there : OutOfRange(p, i)})

\* The checks of opus_header_parse in their order; it returns at the first that
\* fails, with the fields before it overwritten.
Check(p, n) ==
    CASE n = 1 -> Len(p) >= 19 /\ SubSeq(p, 1, 8) = Magic
      [] n = 2 -> p[9] < 16
      [] n = 3 -> p[10] # 0
      [] n = 4 -> IF p[19] = 0 THEN p[10] <= 2 ELSE Len(p) >= 20 /\ p[20] >= 1
      [] n = 5 -> p[19] # 0 => Len(p) >= 21 /\ p[21] <= p[20] /\ p[20] + p[21] <= 255
      [] n = 6 -> p[19] # 0 =>
                     Mapped(p) = p[10] /\ \A i \in 1 .. p[10] : ~ OutOfRange(p, i)
      [] n = 7 -> p[9] \in {0, 1} => Len(p) = IF p[19] = 0 THEN 19 ELSE 21 + p[10]

Passed(p) == Max({n \in 0 .. 7 : \A m \in 1 .. n : Check(p, m)})

Overlay(new, old) == new \o SubSeq(old, Len(new) + 1, Len(old))

\* The header after opus_header_parse with n checks passed.
ReadFields(g, p, n) ==
    IF n = 0 THEN g
    ELSE LET multi == n >= 4 /\ p[19] # 0
             one   == n >= 4 /\ p[19] = 0
         IN [version  |-> p[9],
             channels |-> IF n >= 2 THEN p[10] ELSE g.channels,
             preskip  |-> IF n >= 3 THEN p[11] + 256 * p[12] ELSE g.preskip,
             rate     |-> IF n >= 3 THEN p[13] + 256 * (p[14] + 256 * (p[15] + 256 * p[16]))
                          ELSE g.rate,
             gain     |-> IF n >= 3 THEN Signed(p[17] + 256 * p[18]) ELSE g.gain,
             family   |-> IF n >= 3 THEN p[19] ELSE g.family,
             streams  |-> IF multi THEN p[20] ELSE IF one THEN 1 ELSE g.streams,
             coupled  |-> IF multi /\ n >= 5 THEN p[21]
                          ELSE IF one THEN p[10] - 1 ELSE g.coupled,
             map      |-> IF multi /\ n >= 5
                          THEN Overlay(SubSeq(p, 22, 21 + Mapped(p)), g.map)
                          ELSE IF one THEN Overlay(<<0, 1>>, g.map) ELSE g.map]

Read(g, p) == ReadFields(g, p, Passed(p))

\* opus_multistream_decoder_create of the header, whatever the parser said; what
\* was never set of stream_map is 0.
Created(g) ==
    LET l == [streams |-> g.streams, coupled |-> g.coupled,
              mapping |-> [c \in 1 .. g.channels |->
                              IF c <= Len(g.map) THEN g.map[c] ELSE 0]]
    IN IF ValidCounts(l) /\ ValidLayout(l) THEN l ELSE None

-----------------------------------------------------------------------------
(* The encoder                                                             *)

FrameSize48(setup) == (setup.ms * setup.rate) \div 1000

\* What opus_enc_init asks of OPUS_SET_BITRATE: the register, or by default a
\* rate for the layout.
BitRate(setup, l) ==
    IF setup.bitRate > 0 THEN setup.bitRate
    ELSE ((64000 * l.streams + 32000 * l.coupled)
             * (Min({48, Max({8, ((IF setup.rate < 44100 THEN setup.rate ELSE 48000) + 1000)
                                   \div 1000})}) + 16) + 32) \div 64

OFrameBytes(l) == (MaxFrame * 3 + 7) * l.streams

\* opus_enc_init
Family(channels) == IF channels > 8 THEN 255 ELSE IF channels > 2 THEN 1 ELSE 0

Accepted(setup, l) ==
    /\ setup.channels >= 1
    /\ setup.rate \in {8000, 12000, 16000, 24000, 48000}
    /\ ValidCounts(l) /\ ValidLayout(l)
    /\ setup.channels > 2 /\ Family(setup.channels) = 1 => ValidEncoderLayout(l)
    /\ ((FrameSize48(setup) * setup.bits) \div 8) * setup.channels <= 8 * 1024
    /\ OFrameBytes(l) <= OFrameRoom
    /\ BitRate(setup, l) \in 500 .. 1024000 * setup.channels

HeaderOf(setup, l) ==
    [NewHeader EXCEPT !.channels = setup.channels, !.rate = setup.rate,
                      !.family = Family(setup.channels),
                      !.streams = l.streams, !.coupled = l.coupled, !.map = l.mapping]

\* The smallest packet of l.streams streams, and the room opus_multistream_encode
\* leaves itself of OFrameBytes: all of it, or what the bit rate gives.
Smallest(setup, l) ==
    2 * l.streams - 1 + IF setup.ms = 100 THEN l.streams ELSE 0

BytesOfRate(setup, l) ==
    (3 * Max({500 * setup.channels, Min({256000 * setup.channels, BitRate(setup, l)})}))
        \div ((24 * setup.rate) \div FrameSize48(setup))

Budget(setup, l) ==
    IF setup.cbr
    THEN Min({OFrameBytes(l), Max({Smallest(setup, l), BytesOfRate(setup, l)})})
    ELSE OFrameBytes(l)

EncInit(setup) ==
    LET l == SurroundLayout(setup.channels, Family(setup.channels))
    IN /\ enc = None /\ h = NewHeader
       /\ enc' = IF Accepted(setup, l)
                 THEN [streams |-> l.streams, layout |-> l, setup |-> setup,
                       header |-> HeaderOf(setup, l), budget |-> Budget(setup, l)]
                 ELSE None
       /\ op' = [call |-> "enc_init", setup |-> setup, ok |-> Accepted(setup, l)]
       /\ UNCHANGED <<rp, submitted, sent, h, dec>>

Bug_CurrMax(s, tot) ==
    LET later == enc.streams - s - 1
        left  == enc.budget - tot - Max({0, 2 * later - 1})
                 - (IF enc.setup.ms = 100 THEN later ELSE 0)
    IN Min({left, 6 * MaxFrame + 12}) - IF later = 0 THEN 0 ELSE 1

\* curr_max: what the streams to come need at least is kept back, and the bytes
\* of the self-delimiting size.
CurrMax(s, tot) ==
    LET later == enc.streams - s - 1
        left  == enc.budget - tot - Max({0, 2 * later - 1})
                 - (IF enc.setup.ms = 100 THEN later ELSE 0)
        most  == Min({left, 6 * MaxFrame + 12})
    IN most - IF later = 0 THEN 0 ELSE IF most > Esc + 1 THEN 2 ELSE 1

\* frame_size_select
FrameAllowed(setup) == setup.ms \in {5, 10, 20, 40, 60, 80, 100, 120}

\* Another frame length: opus_multistream_encode returns BAD_ARG, as an unsigned
\* number, which opus_enc_encode does not find to be negative.
EncodeRefused ==
    /\ enc # None /\ ~ FrameAllowed(enc.setup)
    /\ op' = [call |-> "refused", ret |-> BAD_ARG]
    /\ UNCHANGED <<rp, submitted, msVars>>

\* The channels that are copied into stream s: the first ones that belong to it.
Taken(l, s) ==
    IF s < l.coupled THEN <<Min(Left(l, s)), Min(Right(l, s))>> ELSE <<Min(Mono(l, s))>>

\* One turn of the loop over the streams: what the codec made is submitted to a
\* repacketizer and written out, self-delimited unless it is the last.  The
\* result of opus_repacketizer_out_range_impl is added up as it is.
EncodeStream(p) ==
    LET s    == Len(sent.frames)
        sd   == s # enc.streams - 1
        room == enc.budget - Len(sent.data)
        q    == Packed(p[1], Parse(p, FALSE).size, sd, room, enc.setup.cbr /\ ~ sd)
        out  == q.head \o Flat(FramesOf(p, Parse(p, FALSE)))
    IN /\ enc # None /\ h = NewHeader
       /\ s < enc.streams
       /\ FrameAllowed(enc.setup)
       /\ p \in Coded[s] /\ Len(p) <= CurrMax(s, Len(sent.data))
       /\ NbFrames(p) * SamplesPerFrame(p[1], enc.setup.rate) = FrameSize48(enc.setup)
       /\ CanCat(NewRp, p, FALSE)
       /\ sent' = [data   |-> IF q.ret < 0 THEN sent.data
                              ELSE sent.data \o out \o [i \in 1 .. q.ret - Len(out) |-> 0],
                   frames |-> Append(sent.frames, FramesOf(p, Parse(p, FALSE))),
                   taken  |-> Append(sent.taken, Taken(enc.layout, s))]
       /\ op' = [call |-> "encode", ret |-> q.ret]
       /\ UNCHANGED <<rp, submitted, enc, h, dec>>

-----------------------------------------------------------------------------
(* The decoder                                                             *)

EncoderDone == enc # None /\ Len(sent.frames) = enc.streams

\* opus_dec_decode gets a header packet.
Header(p) ==
    /\ h' = Read(h, p) /\ dec' = Created(Read(h, p))
    /\ op' = [call |-> "header", data |-> p, ok |-> Passed(p) = 7]
    /\ UNCHANGED <<rp, submitted, enc, sent>>

\* opus_packet_get_nb_samples
NbSamples(p) ==
    IF NbFrames(p) < 0 THEN NbFrames(p)
    ELSE IF NbFrames(p) * SamplesPerFrame(p[1], 48000) * 25 > 3 * 48000 THEN INVALID_PACKET
    ELSE NbFrames(p) * SamplesPerFrame(p[1], 48000)

\* opus_multistream_packet_validate: parts is what StreamsOf says.
Validated(parts, n) ==
    IF ~ parts.ok \/ \E s \in 2 .. n : NbSamples(parts.parts[s].data) # NbSamples(parts.parts[1].data)
    THEN INVALID_PACKET
    ELSE NbSamples(parts.parts[1].data)

Bug_Copies(l) ==
    (UNION {IF s < l.coupled
            THEN [chan : Left(l, s), stream : {s + 1}, side : {2}]
                 \cup [chan : Right(l, s), stream : {s + 1}, side : {1}]
            ELSE [chan : Mono(l, s), stream : {s + 1}, side : {1}] : s \in 0 .. l.streams - 1})
    \cup [chan : ChannelsOf(l, Muted), stream : {0}, side : {1}]

\* Every copy_channel_out: to which channel which side of which stream goes, or
\* silence (stream 0).
Copies(l) ==
    (UNION {IF s < l.coupled
            THEN [chan : Left(l, s), stream : {s + 1}, side : {1}]
                 \cup [chan : Right(l, s), stream : {s + 1}, side : {2}]
            ELSE [chan : Mono(l, s), stream : {s + 1}, side : {1}] : s \in 0 .. l.streams - 1})
    \cup [chan : ChannelsOf(l, Muted), stream : {0}, side : {1}]

\* No bytes at all are a lost packet: opus_decode_native conceals what is asked for,
\* but only a multiple of 2.5 ms, which OPUS_FRAME_SZIE is not.
Concealed(l) ==
    IF FrameRoom % 120 = 0 THEN [ret |-> FrameRoom, copies |-> Copies(l), frames |-> <<>>]
    ELSE [ret |-> BAD_ARG]

\* opus_multistream_decode_native: the samples of a channel, the copies, and the
\* frames of each stream.
Decoded(l, data, parts) ==
    LET ret == Validated(parts, l.streams)
    IN IF data = <<>> THEN Concealed(l)
       ELSE IF Len(data) < 2 * l.streams - 1 THEN [ret |-> INVALID_PACKET]
       ELSE IF ret < 0 THEN [ret |-> ret]
       ELSE IF ret > FrameRoom THEN [ret |-> BUFFER_TOO_SMALL]
       ELSE [ret |-> ret, copies |-> Copies(l),
             frames |-> [s \in 1 .. l.streams |->
                            FramesOf(parts.parts[s].data, Parse(parts.parts[s].data, s # l.streams))]]

Decode(data) ==
    /\ dec # None
    /\ op' = [call |-> "decode", data |-> data,
              r |-> Decoded(dec, data, StreamsOf(data, dec.streams))]
    /\ UNCHANGED <<rp, submitted, msVars>>

-----------------------------------------------------------------------------
(* What the constants may be: registers, bytes, and headers in the range of *)
(* their fields.                                                            *)

Word == 0 .. 65535
Short == -32768 .. 32767
TwoWords(n) == n \in Nat /\ n \div 65536 \in Word

Headers ==
    [version : Byte, channels : Byte \ {0}, preskip : Word, rate : Nat,
     gain : Short, family : Byte, streams : Byte \ {0}, coupled : Byte, map : Seq(Byte)]

\* Family 0 is one stream, and its mapping is not written.
Writable(g) ==
    /\ g \in Headers /\ TwoWords(g.rate)
    /\ g.coupled <= g.streams /\ g.streams + g.coupled \in Byte /\ Len(g.map) >= g.channels
    /\ \A c \in 1 .. g.channels : g.map[c] <= g.streams + g.coupled \/ g.map[c] = Muted
    /\ g.family = 0 => /\ g.channels <= 2 /\ g.streams = 1 /\ g.coupled = g.channels - 1
                       /\ \A c \in 1 .. g.channels : g.map[c] = c - 1

ASSUME SetupAssumption ==
    \A setup \in Setups :
        /\ setup.channels \in Nat /\ setup.ms \in Nat /\ setup.rate \in Nat
        /\ setup.bits \in Nat /\ setup.bitRate \in Nat /\ setup.cbr \in BOOLEAN

\* A codec for every stream, whose packets are sequences of bytes, or of numbers
\* that tell them apart.
ASSUME CodedAssumption ==
    /\ \A s \in DOMAIN Coded : Coded[s] \subseteq Seq(Nat)
    /\ \A setup \in Setups :
          LET l == SurroundLayout(setup.channels, Family(setup.channels))
          IN Accepted(setup, l) => 0 .. l.streams - 1 \subseteq DOMAIN Coded

ASSUME StreamAssumption ==
    /\ ForeignHeaders \subseteq Seq(Byte) /\ Packs \subseteq Seq(Byte)
    /\ \A g \in AnyHeaders : Writable(g)
    /\ FrameRoom \in Nat /\ OFrameRoom \in Nat

-----------------------------------------------------------------------------
MSInit ==
    /\ Init
    /\ enc = None /\ h = NewHeader /\ dec = None
    /\ sent = [data |-> <<>>, frames |-> <<>>, taken |-> <<>>]

Start == enc = None /\ h = NewHeader /\ dec = None

\* The calls of Repacketizer do not meet the others; the encoder is done when
\* its header and its packet arrive.
Tools == Start /\ Next /\ UNCHANGED msVars

Encoder ==
    /\ rp = NewRp
    /\ \/ op.call \in {"none", "enc_init"} /\ \E setup \in Setups : EncInit(setup)
       \/ EncodeRefused
       \/ enc # None /\ \E p \in Coded[Len(sent.frames)] : EncodeStream(p)

OwnDecoder ==
    EncoderDone /\ (Decode(sent.data) \/ (dec = None /\ Header(HeaderBytes(enc.header))))

ForeignDecoder ==
    /\ rp = NewRp /\ enc = None
    /\ \/ op.call \in {"none", "header"} /\ \E p \in ForeignHeaders : Header(p)
       \/ op = NoOp /\ Start /\ \E g \in AnyHeaders : Header(HeaderBytes(g))
       \/ \E data \in Packs : Decode(data)

MSNext == Tools \/ Encoder \/ OwnDecoder \/ ForeignDecoder

MSSpec == MSInit /\ [][MSNext]_allVars

-----------------------------------------------------------------------------
\* What opus_header_to_packet writes opus_header_parse reads back, negative
\* gains and 255 channels included (its 276 bytes are just enough), whatever
\* headers, whole or broken, were parsed into the same record before.
HeaderKept ==
    op.call = "header" =>
        \A g \in AnyHeaders \cup IF enc = None THEN {} ELSE {enc.header} :
            op.data = HeaderBytes(g) =>
                /\ op.ok
                /\ [h EXCEPT !.map = SubSeq(@, 1, g.channels)]
                      = [g EXCEPT !.version = 1, !.map = SubSeq(@, 1, g.channels)]

\* The bytes that are kept back for the streams to come are enough: the codec
\* always has room for its smallest packet, no stream's packet fails to be
\* written (the result of opus_repacketizer_out_range_impl is not looked at),
\* the whole stays within the budget, and fills it at a constant bit rate.
EncodeFits ==
    enc # None /\ FrameAllowed(enc.setup) =>
        /\ op.call = "encode" => op.ret >= 0
        /\ Len(sent.data) <= enc.budget
        /\ ~ EncoderDone => CurrMax(Len(sent.frames), Len(sent.data))
                               >= IF enc.setup.ms = 100 THEN 2 ELSE 1
        /\ EncoderDone /\ enc.setup.cbr => Len(sent.data) = enc.budget

\* A packet of the encoder of up to 32 ms is decoded by the decoder its header
\* asks for, and every channel that comes out is the one that went in.
ChannelsKept ==
    op.call = "decode" /\ EncoderDone =>
        /\ op.r.ret > 0 \/ enc.setup.ms > 32
        /\ op.r.ret > 0 =>
              /\ op.r.frames = sent.frames
              /\ {w.chan : w \in op.r.copies} = 1 .. enc.setup.channels
              /\ \A w \in op.r.copies : sent.taken[w.stream][w.side] = w.chan

\* Whatever header the decoder was made of, also one that did not parse and left
\* parts of an older one in place, every channel of the output is written, once.
OnceEach ==
    op.call = "decode" /\ op.r.ret > 0 =>
        \A c \in DOMAIN dec.mapping :
            Cardinality({w \in op.r.copies : w.chan = c}) = 1

\* "This must contain room for frame_size*channels samples."
\* (opus_multistream.h:565-567): opus_dec_decode has 2 * OPUS_FRAME_SZIE.
RoomForSamples ==
    op.call = "decode" /\ op.r.ret > 0 =>
        op.r.ret * Len(dec.mapping) <= 2 * FrameRoom
=============================================================================
