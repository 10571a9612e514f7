--------------------------- MODULE MCMultiStream ----------------------------
(* Sizes from 4 on take two bytes and padding goes on with 3, so that frames *)
(* of up to five bytes and paddings of up to five show every encoding.  The  *)
(* packets are all that up to three frames can be sent in: every code, equal *)
(* sizes sent as VBR, single frames under code 3, padding or none.           *)
EXTENDS MultiStream

Bytes(n, size) == [i \in 1 .. size |-> 200 + 10 * n + i]
FramesWith(size) == [i \in DOMAIN size |-> Bytes(i, size[i])]
Zeros(n) == [i \in 1 .. n |-> 0]

\* Code 3 with padding that takes pad bytes in all; the frames end with tail.
CodeThree(toc, size, vbr, pad, sd) ==
    <<toc + 3, Len(size) + (IF vbr THEN 128 ELSE 0) + (IF pad > 0 THEN 64 ELSE 0)>>
    \o PadLengths(pad)
    \o (IF vbr THEN EncodedSizes(AllButLast(size)) ELSE <<>>) \o SelfSize(size, sd)
    \o Flat(FramesWith(size)) \o Zeros(pad - Len(PadLengths(pad)))

CodesUpToTwo(toc, size, sd) ==
    LET rest == SelfSize(size, sd) \o Flat(FramesWith(size))
    IN IF Len(size) = 1 THEN {<<toc>> \o rest}
       ELSE IF Len(size) > 2 THEN {}
       ELSE {<<toc + 2>> \o EncodeSize(size[1]) \o rest}
            \cup IF size[1] = size[2] THEN {<<toc + 1>> \o rest} ELSE {}

Sent(toc, size, pads, sd) ==
    CodesUpToTwo(toc, size, sd)
    \cup {CodeThree(toc, size, TRUE, pad, sd) : pad \in pads}
    \cup IF Vbr(size) THEN {} ELSE {CodeThree(toc, size, FALSE, pad, sd) : pad \in pads}

\* Configuration 0 is 10 ms, 16 is 40 ms: three frames are all that fit.
SizeLists == {<<0>>, <<4>>, <<1, 1>>, <<4, 0>>, <<0, 5>>, <<5, 5>>, <<4, 4, 4>>, <<1, 4, 0>>}
MCPackets ==
    UNION {Sent(0, size, {0, 1, 4, 5}, FALSE) : size \in SizeLists}
    \cup UNION {Sent(16, size, {0}, FALSE) : size \in {<<1, 1>>, <<4, 4>>}}

\* To be collected: equal and unequal sizes, sent in as few bytes as possible.
MCToSubmit ==
    {CodeThree(0, <<4, 4, 4>>, FALSE, 0, FALSE), CodeThree(0, <<5, 5, 4>>, TRUE, 0, FALSE),
     CodeThree(0, <<1, 4, 0>>, TRUE, 4, FALSE),
     CodeThree(16, <<1, 1>>, FALSE, 0, FALSE), CodeThree(16, <<4, 4>>, FALSE, 0, FALSE),
     CodeThree(16, <<1, 4, 0>>, TRUE, 0, FALSE)}
    \cup CodesUpToTwo(16, <<1>>, FALSE)
    \cup CodesUpToTwo(0, <<0>>, FALSE) \cup CodesUpToTwo(0, <<4>>, FALSE)
    \cup CodesUpToTwo(0, <<4, 0>>, FALSE)

MCMultiPackets ==
    {[data |-> a \o b \o c, streams |-> 3] :
        a \in Sent(0, <<4, 4>>, {0, 4}, TRUE),
        b \in Sent(0, <<1, 4>>, {0, 1}, TRUE),
        c \in Sent(0, <<5>>, {0, 5}, FALSE)}

MCBytes == UNION {[1 .. n -> {0, 1, 2, 3, 5, 66, 131, 194}] : n \in 0 .. 4}
MCMaxLens == {4, 6, 8, 14, 19, 21, 22, 42}
MCMore == 1 .. 6

-----------------------------------------------------------------------------
\* One codec per stream: 20, 40 and 60 ms in one frame, 40 to 100 ms in frames of
\* 20 ms.  The bytes tell the stream.
Coding(s, toc, size) ==
    LET frames == [i \in DOMAIN size |-> [j \in 1 .. size[i] |-> 1000 * s + 10 * i + j]]
        q == Packed(toc, size, FALSE, 999, FALSE)
    IN q.head \o Flat(frames)

MCCoded ==
    [s \in 0 .. 4 |->
        {Coding(s, 8, <<n>>) : n \in {0, 3, 4, 5}}
        \cup {Coding(s, 16, <<n>>) : n \in {0, 5}} \cup {Coding(s, 24, <<n>>) : n \in {0, 4}}
        \cup {Coding(s, 8, size) : size \in {<<0, 0>>, <<3, 4>>, <<5, 5>>, <<4, 4, 4>>,
                 <<0, 4, 3>>, <<0, 0, 0, 0, 0>>, <<5, 5, 5, 5, 5>>, <<1, 2, 3, 4, 5>>}}]

Setup(channels, ms, rate, cbr, bitRate) ==
    [channels |-> channels, ms |-> ms, rate |-> rate, bits |-> 16,
     cbr |-> cbr, bitRate |-> bitRate]

\* Up to four streams; no, eight and nine channels are refused, and what the frame
\* buffer, the rate or the bit rate forbid.
MCSetups ==
    {Setup(channels, 20, 16000, cbr, b) :
        channels \in {1, 2, 3, 6}, cbr \in BOOLEAN, b \in {0, 500, 3000, 4400}}
    \cup {Setup(7, 20, 16000, TRUE, b) : b \in {5600, 6000}}
    \cup {Setup(channels, ms, 16000, TRUE, b) :
            channels \in {2, 3}, ms \in {40, 60, 100}, b \in {500, 1600}}
    \cup {Setup(8, 20, 16000, FALSE, 0), Setup(9, 20, 16000, FALSE, 0),
          Setup(6, 20, 48000, FALSE, 0), Setup(2, 20, 44100, FALSE, 0),
          Setup(2, 30, 16000, FALSE, 0), Setup(1, 20, 16000, FALSE, 499),
          Setup(0, 20, 16000, FALSE, 0)}

HeadOf(channels, family, streams, coupled, map) ==
    [NewHeader EXCEPT !.channels = channels, !.family = family, !.streams = streams,
                      !.coupled = coupled, !.map = map]

MCAnyHeaders ==
    {[HeadOf(2, 0, 1, 1, <<0, 1>>) EXCEPT !.gain = -3, !.preskip = 65535, !.rate = 96000],
     [HeadOf(1, 0, 1, 0, <<0, 1>>) EXCEPT !.gain = 32767, !.preskip = 312],
     HeadOf(4, 1, 2, 2, <<0, 1, 2, 3>>), HeadOf(3, 255, 2, 1, <<2, 255, 2>>),
     HeadOf(255, 255, 255, 0, [i \in 1 .. 255 |-> i - 1])}

\* Sound headers, and what is wrong with others: an entry one or two too big,
\* too many coupled streams, a byte too much or missing, version 2, version 16.
Foreign(v, channels, rest) == Magic \o <<v, channels, 0, 0, 0, 0, 0, 0, 0, 0>> \o rest
MCForeign ==
    {Foreign(1, 2, <<0>>), Foreign(1, 1, <<0>>), Foreign(1, 3, <<0>>), Foreign(0, 0, <<0>>),
     Foreign(1, 2, <<0, 9>>), Foreign(2, 2, <<0, 9>>), Foreign(16, 4, <<0>>),
     Foreign(1, 3, <<1, 2, 1, 0, 2, 1>>), Foreign(1, 3, <<1, 2, 1, 0, 3, 1>>),
     Foreign(1, 3, <<1, 2, 1, 0, 4, 1>>), Foreign(1, 4, <<255, 2, 2, 3, 2, 1, 0>>),
     Foreign(1, 3, <<255, 2, 1, 0, 255, 0>>), Foreign(1, 2, <<1, 1, 2, 0, 1>>),
     Foreign(1, 2, <<255, 0, 0, 0, 1>>), Foreign(1, 4, <<1, 2, 1, 0, 2>>),
     <<79, 112>>}

\* Four channels, each of two streams of two.
MCSurround == {Foreign(1, 4, <<1, 2, 2, 0, 1, 2, 3>>)}

MCPacks ==
    {CodeThree(8, <<4>>, FALSE, 0, FALSE), CodeThree(0, <<4, 4>>, FALSE, 1, FALSE),
     CodeThree(16, <<1>>, FALSE, 0, FALSE), <<>>, <<8>>}
    \cup {CodeThree(8, <<4>>, FALSE, 0, TRUE) \o p :
            p \in {CodeThree(8, <<5>>, FALSE, 0, FALSE), CodeThree(0, <<1, 4>>, TRUE, 0, FALSE),
                   CodeThree(16, <<4>>, FALSE, 0, FALSE), <<>>}}
=============================================================================
