# Verification of audio-decoder-dsp

TLA+ models of the first-party code of this repository (`src/platform`,
`src/api`, `src/driver`), model-checked with TLC and proved about with TLAPS.
The repository has no tests and a README of two lines, so the models are
translated from the C code; the comments of `platform/include/register.h` and
`platform/include/os_buffer.h` say what host and DSP agree on.

## 1. The system

A host CPU gives audio work to a DSP over shared registers and two ring buffers
per task. The DSP runs one thread, `start_up` (`api/main.c`), from a private
heap. `CONFIG_X86` builds both sides into one Linux process with the native
compiler (the DSP is a pthread; pointers have 64 bits on x86-64, 32 on a 32-bit
x86); `CONFIG_DSP32` is the or32 target (32 bits, big endian).

| Component | State | Operations | Interacts with |
|---|---|---|---|
| heap, `platform/os_malloc.c` | flag bytes and search position of seven size classes, piece counts of the 8K class | `os_malloc_init`, `os_malloc`, `os_realloc`, `os_free` | called by task table, rings, codecs, libopus; start_up thread only |
| rings, `platform/os_buffer.c`, `x86/x86_buffer.c` | handle: private copy of R, W, LOOP, EOF | `open`, `close`, `update_from`, `update_to`, `check`, `read`, `write` | ring registers, shared with the host without a lock |
| control registers, `platform/register.c` | TASK_QUEQUE (two commands), RUN_CTRL, INT, INTEN, addresses | `reg_*`, `ext_reg_*` | both threads; a mutex around TASK_QUEQUE only |
| start_up, `api/main.c` | the loop's locals | poll the queue, create/process/destroy a task, raise interrupts | everything below it |
| task table, `api/task.c` | four contexts: status, codec context, two handles | `task_create`, `task_destory`, `task_process`, `task_status` | heap, rings, codec table |
| codec table, `api/list.c` | constant tables | `find_register_decoder`, `find_register_encoder` | task table |
| Opus decoder, `api/avcodec/opus_dec.c` | stream state, packet count, decoder | `init`, `free`, `decode` | heap, rings, framing, header, libopus |
| Opus encoder, `api/avcodec/opus_enc.c` | encoder, frame sizes | `init`, `free`, `encode` | heap, rings, libopus; not reachable from `task_create` |
| framing, `api/avutils/framing.c` | page sync buffer, packet reassembly, one lacing table for all streams | `ogg_sync_*`, `ogg_stream_*` | heap, input ring |
| header, `api/avutils/opus_header.c` | none | parse, write | decoder, encoder |
| driver core, `driver/dev_core.c`, `dev_list.c` | device, sub devices, `devInit` | `core_init`, `core_uninit`, `core_open`, `core_close`, `core_config`; start/stop/read/write are stubs | control and ring registers |
| printing, timers, kernel call wrappers | none of interest | I/O | - |
| `libsrc/opus`: packets, repacketizer, multistream layer | frames collected, layouts | `opus_packet_*`, `opus_repacketizer_*`, `opus_multistream_*` | decoder, encoder |
| `libsrc/opus`: codec; `scripts/kconfig` | vendored | - | - |

What is hard here: the rings and INT are shared without a lock; the command
queue is read in two critical sections; a served command stays queued until the
host removes it; the heap is small, its free is partial and several callers
ignore its failures; nobody asks whether the output has room; host and DSP wait
for each other when enabling and disabling. `PROJECT.json` lists every hazard at its line, with the property that
covers it or the reason why none does yet.

What makes each part correct: the heap never gives a byte to two owners, stays
inside the pool, gives what was asked for, and gets back what is freed; a ring
delivers the stream in order, once, without loss, tells full from empty, and
reports the end exactly at the end; a task owns its memory alone and returns it;
a command is served in order, a STOP is answered once the task is idle, and a task nobody
stopped goes on; enabling and disabling come to an end unless a codec hangs; every
packet all of whose pages arrived is decoded once, whole, in order, by the
decoder of its own stream; what one end
writes as a packet or a header the other end reads back, and every channel comes
out where it went in.

Several of these promises the code does not keep. Where it does not, a run or a
configuration shows it (sections 4 and 6), and the passing runs and the proofs say
exactly how far it does.

The repository does not compile at this commit: `register.c` uses
`sReg->RUN_CTRL`, which `GeneralReg` does not declare (it has TASK_CTRL, TASK_ID
and TASK_DO). RUN_CTRL is modelled from its uses.

## 2. Modules

| Module | Models | Correspondence |
|---|---|---|
| `OsMalloc` | `os_malloc.c` | `used` flag bytes that are 1, `pos` = `block_*_pos`, `piece` = `block_8K_piece`; `live` (auxiliary) the blocks their owners hold. `Grant`/`Refuse` = `os_malloc`, `Free`/`FreeForeign` = `os_free` of an own and of any other address, `Realloc*` = `os_realloc`, which nothing calls. One step per call: one thread. `AddressBits` is the width of a pointer, `LowByte` where the low byte of an int lies in memory: 0 on a little-endian machine, 3 on or32 |
| `OsBuffer` | `os_buffer.c`, `x86_buffer.c` | operators on a handle: `CheckIn`, `AfterRead`, `AfterWrite`, `BytesAt`, `WithBytes` |
| `InBuffer` | input ring under `task_process` and a codec that checks first (`opus_enc_encode`) | every register access a step: `FromW FromLoop FromEof`, `Encode` (or `EncodeNoMemory`, when the heap refuses), `ToR ToLoop ToEof`; the host's writes `Host*` |
| `OutBuffer` | output ring under `task_process` and `opus_dec_decode`, which does not check | `FromR FromLoop`, `Decode`, `ToW ToLoop`; the host's reads `Host*`; `crowded` (history) is set by the first frame written without room |
| `Fifo` | what a ring or the command queue promises | refined by `InBuffer`, `OutBuffer` and `StartUp` |
| `Task` | `task.c`, `list.c`, what `opus_dec.c` and `framing.c` do to the heap | one step per `os_malloc`/`os_free` of a call, that of the static lacing table (`FreeLacing`) among them; composed with `OsMalloc` (`Heap == INSTANCE OsMalloc`), whose specification it refines |
| `StartUp` | `main.c`, queue and interrupts of `register.c`, the enabling side of `dev_core.c` | program counter `pc` over the loop; `ReadNo`/`ReadAction` the two looks at the queue, `ReadInt`/`WriteInt` the two halves of `reg_set_task_isr`; `codec` is the place in a codec, which `CodecReturns` may leave or not |
| `OggSync` | the page side of `framing.c`: `ogg_sync_*` | operators on a record `oy`; the buffer is a sequence of tokens (a page's head, the bytes of its body, junk) |
| `OggStream` | the packet side: `ogg_stream_init/clear/reset_serialno/pagein/packetout/pageout/flush` | operators on a record `os` and the lacing table `lv` |
| `OpusDec` | `opus_dec_decode` over both | `dec[t].pc` and `.state` are the place in the loop; one step per buffer read, page out, page in and packet out. `lacing` is the one table of all tasks; `Build` chooses the branch of `ogg_sync_buffer`, `w_ctrl` and `tmp32Buffer` are what is written from and to after a packet |
| `OpusPacket` | `opus.c`: TOC, sizes, `opus_packet_parse_impl`, and how a packet is put together (`opus_repacketizer_out_range_impl`) | pure operators |
| `Repacketizer` | `repacketizer.c` | each call a step: `Cat`, `Out`, pad and unpad in place, single and multistream |
| `MultiStream` | `opus_enc_init` and the stream loop of `opus_multistream_encode`, `opus_header.c`, the decoder `opus_dec.c` makes of a header, `opus_multistream_decode` | `enc`, `h`, `dec` = the encoder, `OpusDecContext.header`, the decoder's layout; `EncodeStream` one turn of the loop |
| `*Proofs` | - | theorems about `OsMalloc`, `OsBuffer` (lemmas), `InBuffer`, `OutBuffer`, `Task`, `StartUp`, `OpusDec` (with `OggSync` and `OggStream`), and `MultiStream` with `Repacketizer` and `OpusPacket` (`MultiStreamProofs`) |
| `MC*` | - | small constants for TLC |

How they fit together. `Task` uses the heap as `OsMalloc` promises it, and
`IsHeapClient` checks that it does so as an owner may. `OpusDec` takes its input
ring as the queue that `InBuffer` is shown to be, and one task at a time, as
`StartUp` serves them; what it writes goes through `OutBuffer`. `OpusDec` knows a
packet only by its kind and its bytes' places; what is inside one, and the decoder
that a header makes, is `MultiStream`, which builds on `Repacketizer` and
`OpusPacket`.

Definitions named `Bug_...` are not part of any specification. Each stands before
a definition and is that definition with one plausible mistake; putting it in its
place makes the property named in `PROJECT.json` ("mutants") fail, which shows
that the property depends on the code it is about.

**The host.** `core_start`, `core_stop`, `core_read`, `core_write` and
`stream_isr` are empty in the code, so a host is assumed. For the rings it
follows `os_buffer.h:19-30`. Two protocols that work are checked: the host leaves
a byte free ("gap"; for output the room is the codec's to leave), or it excludes
`task_process` by some means of its own ("turns"). A host that fills the input ring
while the DSP is at work ("brim") is not served well (section 6). For
the queue it is one thread that keeps a STOP queued until it sees the interrupt,
clears the interrupt, then the entry. For Ogg it packs and flushes as libogg does and writes pages with the
page writer of `framing.c`; pages may get lost on the way and junk may come
between them. `PROJECT.json` marks these definitions external, and so the codec
of one Opus stream, which may make any packet it is allowed to.

**The codec table.** As built no decoder can start (section 6). The run
`TaskSessions` therefore takes a table of six entries, the smallest for which
`find_register_decoder` looks at its first entry: it is about everything behind
that loop.

## 3. Runs

Every run checks deadlock. Violations are runs whose property quotes the code's
own comments or error branches; section 4 explains them.

| Run | Expected | Shows |
|---|---|---|
| `OsMalloc32` | pass | heap with 32-bit pointers: no two owners share a block, a block has the room asked for, only a full heap refuses, no small block is lost, a call touches no one else's flags |
| `OsMallocPieces` | violation | `ReclaimsAll` fails: pieces are lost |
| `InBufferHosts` | pass | `InOrder`, `RegistersTell`, `EofOnlyAtEnd`, refinement of `Fifo`, `Drained`, `EofReported`, each under the protocols it holds for |
| `OutBufferHosts` | pass | up to the first frame without room: `InOrder`, `RegistersTell`, refinement of `Fifo`, `Delivered` under both protocols |
| `TaskSessions` | pass | `WorkHasBuffers`, `OwnedOnce`, `OrphansOnlyFromFailure`, refinement of the heap's specification, with allocations that fail anywhere |
| `StartUpTwo` | pass | refinement of `Fifo`, `AckMeansIdle` (first session of each number), `Answered` |
| `StartUpTorn` | violation | `StopOnlyWhenAsked` fails with two tasks |
| `OpusDecOne` | pass | one task, lost pages, junk and failed allocations: `Intact`, `OwnDecoder`, `NoneLost`, `SyncBounded`, `LacingInOrder` |
| `OpusDecTwo` | violation | `Intact` fails with two tasks and no fault at all |
| `OpusDecWrap` | violation | `NoneLost` fails once the page number has passed the wrap |
| `MultiStreamAll` | pass | packets: `RoundTrip`, `ValidAccepted`, `ParseWithin`, `RoomForFrames`; header, encoder and decoder: `HeaderKept`, `EncodeFits`, `ChannelsKept`, `OnceEach` |
| `MultiStreamRoom` | violation | `RoomForSamples` fails with four channels |

**The branch of `ogg_sync_buffer`.** Every `OpusDec` run is of the
branch under `#ifdef OR32` (`framing.c:522-530`). No makefile defines OR32, and the
identifiers of that branch are declared nowhere. In the other branch, the one that is
built, no chunk ever arrives (`OpusDecX86.cfg`, section 6), so that nothing else of the
decoder would be reached. The runs are about everything behind that read.

**Bounds.** *Heap:* three classes of 2, 1 and 4 blocks (7 and up to 104 in the
code): two classes to be promoted through and a multi-piece class in which runs
wrap, fragment and lose pieces; sizes that fill a block of the first and the
second class, and one of three pieces. Size classes only interact through
promotion to the next one, so three show every case. The run is of a little-endian
machine with 32-bit pointers, as a 32-bit Linux is one; the others are in section 6.
*Rings:* four bytes and a stream of nine, so both pointers wrap twice; frames of one to three bytes so that
a frame wraps, fills the ring exactly, or does not fit; `MaxBytes` is the only
cap. *Tasks:* two
contexts, three small blocks so that the fourth handle is promoted, seven big ones so that a context (two pieces), stream storage and
decoders run out. *StartUp:* two task numbers (all there are), two contexts and
an id without one; `MaxStarts = 1` caps the STARTs of a number, and with two
`AckMeansIdle` fails (section 6). The program ends with `core_uninit`, which
follows a null pointer.

*Ogg:* a segment holds `MaxSeg = 2` bytes (255 in the code), a page `MaxVals = 2`
segments (255) or `Nominal = 5` bytes (4096); packets of one, two and three bytes
lie inside a page, end in an empty segment, and go over a boundary. A page head is
`HeadLen = 2` tokens. A read brings `Chunk = 3` in `OpusDecTwo` and `OpusDecWrap`, so
that a page comes in several reads and a read brings parts of two pages; in
`OpusDecOne` it brings 8, so that whole pages wait in the buffer behind a decoder that
could not be made. `LacingStorage = 7` is just enough for
what three pages leave (2048), and `BodyStorage = 5` for the bytes of a segment that
waits and of a page (32 KB; 9 where it is not the question). `PageLimit` is where the
page number wraps: 99, which is never reached, and 2 where it is the question. `MaxFaults = 2` caps lost
pages, junk runs and failed allocations together: two show a fault in the wake of
another. *Packets:* sizes from `Esc = 4` on take two bytes (252), padding lengths
go on with `PadMax = 3` (255), the longest frame has `MaxFrame = 5` bytes (1275):
all encodings and both sides of each boundary occur; up to three frames, or
`MaxCats = 2` packets submitted. *Encoder:* 0 to 9 channels, 20 to 100 ms, constant
and variable bit rate, `OFrameRoom = 94` bytes for a packet, so that budgets below
and above it occur. *Header:* every record the writer can be given in kind (gains
below 0, 255 channels), and packets broken in each field.

**Fairness.** Weak fairness of the DSP's steps outside a codec: `start_up` polls
without blocking and x86 schedules its thread. Nothing is assumed of the heap: it may
refuse the encoder's frame buffers for ever, which it comes to, because such a buffer
takes two pieces and gives one back (`os_malloc.c:439`); `Drained` and `EofReported`
say what holds unless it does (`ShortOfMemory`). The encoder has no loop to hang in;
nothing is assumed of a decoder: `Delivered` and `Answered` except the codec that never returns (`CodecHangs`), as the
decoder that is built does. The host finishes what it has begun (`HostSetW`,
`HostSetLoop`; `ClearIsr`, `TakeStop`); for `OutBuffer` it is strongly fair, that is, a
host that wants its output gets its turn. In `OpusDec` a call that has been made goes
on. Nothing is assumed about when the host writes, starts, stops, closes the stream or
disables the DSP. All of this is the x86 build: in the dsp32 build `reg_set_task_isr`
is empty (`register.c:184`), and nothing is ever raised.

## 4. Where code and comments disagree

1. `os_malloc.c:439` - freeing a block of several pieces clears one flag; the
   others are lost for good. An Opus session holds a context of five pieces and a
   body store of four: the 32 pieces last for a few sessions. (`OsMallocPieces`)
2. `main.c:69` - number and action of a command are read separately, so that one
   task is stopped because another is to stop. (`StartUpTorn`)
3. `framing.c:28`, `:211` - `int lacing_val[2048]` is the lacing table of every
   stream: two decoder tasks read each other's segment lengths. (`OpusDecTwo`)
4. `framing.c:813` - the expected page number wraps at 0xffff although pages carry
   32 bits: every 65536th page is taken for a gap, and the packet that runs over
   its boundary is thrown away. (`OpusDecWrap`)
5. `opus_dec.c:188` - `out_save_buf` has room for two channels, whatever the
   header says, and libopus is not told. (`MultiStreamRoom`)

Each is a run that TLC must find violated; `PROJECT.json` quotes the lines.

## 5. Proofs

All theorems hold for every value of the constants that the named assumptions
allow, and TLC evaluates the assumptions in every run.

**Heap** (`OsMallocProofs`; any number of classes, block sizes and counts, every
set of request sizes that fit, both pointer widths; on a little-endian machine,
`LowByte = 0`, because on the other one they do not hold, section 6).
`HeapTypeOK`, `HeapNoOverlap`, `HeapWithinPool`, `HeapOthersKept`, `HeapRoomy`,
`HeapRefusesOnlyWhenFull` (for requests of at least a byte) and `HeapSmallExact`
(32-bit pointers). `NoOverlap` is not inductive, because a grant only avoids
flags, not owners. `HeapInv` adds `LiveFlagged` (every piece of a live block is
flagged) and `PiecePositive` (no piece count is 0, so the unbounded wrapped scan is
stopped by the count that follows the flags). `GrantIsFree` then shows that a
granted block is inside its class and disjoint from every live one, and `os_free`
clears one flag of the block it frees, which nobody else owns. `RoomInv` and
`SmallInv` are the strengthenings for `Roomy` and `SmallClassesExact`. That only a
full heap refuses follows from `HeapInv` alone: the two ranges of the next-fit
search together are the whole class (`NoFitMeansFlagged`).

**Rings** (`OsBufferProofs`, `InBufferProofs`, `OutBufferProofs`; any ring size,
any stream). The theorems of the input ring are for frames that fit the ring and
hosts that leave a byte free or take turns (`Covered`): section 6 shows what the
others get. Those of the output ring are for a codec that writes whether there is room or not, and say what holds up to the first frame without
room (`~ crowded`): `RingInv` is asked for as long as that has not happened, and what
has happened stays (`CrowdedStays`). `OsBufferProofs` holds the arithmetic of a ring:
moving forward and distances modulo the size, and that a write stores, keeps and a
read finds the numbered bytes. `RingInv` is the inductive invariant of a ring, at
every register access: the bytes between the two ends hold the stream (`Content`);
each register and each copy in the handle is the end it stands for, or as far
behind as the place in the program says (`Published`); EOF is seen only once it was set
(`EofIsEnd`, input ring); LOOP tells the full ring
from the empty one, also while one side has a stale copy (`Apart` for a host that
leaves a byte free, `Turns` for one that takes turns). It gives `InOrdered`,
`OutOrdered`, `*RegistersTell` and `InEofOnlyAtEnd`. `InImplementsFifo` and
`OutImplementsFifo` show the refinement of `Fifo`: publishing W puts, reading takes,
and every other step leaves the bytes that wait as they are (for the output ring: up
to the first frame without room); for the input ring
this needs `Behind` as well, that a W still to be published is really ahead.

**Command queue** (`StartUpProofs`; any task numbers, ids, contexts and number of
sessions). `QueueInv` is the type invariant with `NoHole` and with what the host's
place says of the first command; it gives `StartUpTyped`, `StartUpNoHole` (the
warning branches of `register.c` are dead) and `StartUpImplementsFifo`.

**Tasks on the heap** (`TaskProofs`; any number of tasks, any heap, any sizes with
a handle not bigger than a context, any codec table). `TaskInv` says what the heap
must keep for its clients (`HeapPart`: a block somebody holds has its first flag
set, and no two begin at the same place), that the pointers of a context and of the
call in progress are all different (`Distinct`), who holds what (`OwnedOnce`), and
what a call has got and still asks for (`Asks`). Every step either moves pointers
between a call and its task (`Moved`), or lets the call have a block that nobody
held (`Got`, from `Fresh`), or gives one back (`GaveBack`), or passes the static lacing
table to `os_free`, which is a step of the heap as well (`FreeForeign`) and changes
nothing there. That gives `TaskOwnedOnce`, `TaskOrphans` and the refinement
`TaskImplementsHeap`, so that what is proved of the heap holds under the task table. `TaskWorkHasBuffers` rests on
`StaysFull`: `task_create` only looks at its last allocation, and that is enough,
because a heap that refuses a handle refuses a context (`FullForBoth`) and nothing
is freed in between. `TaskTypeOK` adds two parts to `TaskInv`: `HeapTyped`, the ranges
of the heap's flags and positions (on a little-endian machine), and `TaskSized`, that what a pointer refers to was
asked for with the size of what is kept there. The second fails for the memory that
`task_destory` is giving back, which `TypeOK` therefore excepts.

**Packets, headers and layouts** (`MultiStreamProofs`; packets of any length and
content, any number of channels and streams, any set-up of an encoder). The
operators go over sequences with recursive functions and folds. The library's
induction theorems take a predicate, which no prover here can be given; `Induction`
takes the set of the numbers a fact holds for instead, and is proved from the
well-foundedness of the subsets of a finite set. From it follow the sums, the sizes
and the places of the frames that `Parse` returns.

* `FramesLieWithin`: `ParseFor` says of each branch of `opus_packet_parse_impl` that
  the frames, the padding and the offset lie in what was given; `RpInv` keeps the
  frames of the repacketizer within 120 ms, and so within 48.
* `ValidIsAccepted`: a packet that parsed is `Rewritten`, head and frames, in the room it
  had, because an encoding of the same frames without padding is never longer
  (`RepackedRet`); this covers `Cat`, `Pad`, `Unpad` and the last stream of `MultiPad`.
  `MultiUnpad` works in place, and the streams that come later must still parse after
  the ones before have moved: `InPlace` says that what was written is not ahead of the
  stream that comes next and that the bytes from there on are the old ones, and
  `ParseAgain` that a self-delimited stream parses from its own bytes alone, whatever
  follows it.
* `RoomGuaranteed` has the hypothesis `MaxFrame = 1275`, the longest frame there is: the
  promise of `opus.h`, 1277 bytes a frame, is about that number. `CollectedInv` adds to
  `RpInv` that no collected frame is longer, and no encoding of n frames takes more
  than two bytes a frame besides the frames.
* `HeaderIsReadBack`: `HeaderInv` says that the header of an encoder is `Writable`. Of
  every `Writable` header the bytes written pass the seven checks of the parser
  (`Passed` is 7) and each field is read back, the gain as a signed number. The record
  may hold anything that headers parsed earlier left in it.
* `EachChannelOnce`: `StreamInv` adds that the decoder's layout is one that
  `validate_layout` let through. Then each channel's mapping is muted or belongs to
  one stream, left, right or mono, and exactly one of the copies goes to it.
* `StreamsFitBudget`: `BudgetInv` says that what is left of the budget covers the least
  that the streams to come need: two bytes each, one for the last, and one more each at
  100 ms; and at a constant bit rate nothing is left behind the last. A packet put
  together again is never longer than it came (`NeverLonger`), and the self-delimited
  form costs at most two bytes more, one for a short packet; `CurrMax` keeps back just
  that.

**Ogg sync buffer** (`OpusDecProofs`; any programs of packets, any pages, chunk sizes,
junk and losses, any number of tasks). `SupplyIsBounded` is a promise about history:
how much is in the buffer depends on every page, every stretch of junk and every failed
creation so far. `SupplyInv` has one part per task, `TaskInv`, and one for the host's
multiplexer, `MuxInv` (its table has room for what it is given). Of a task it says
that the bytes ahead, those in the buffer that were not returned and those in the ring,
are whole pages with junk between them, wherever a chunk ends (`Framed`); that each
stretch of junk that is still ahead is paid for (`Stretches`); and that for some
number c of chunks read beyond need the buffer holds at most a page and c + 1 chunks,
where c and the stretches ahead together are at most the junk and the failures so far
(`Spent`). A seek that finds neither page nor junk has
less than a page at hand, so that the read that follows ends within a page and a chunk;
a seek that skips junk, or a creation that fails, returns to the reader early and costs
one chunk more. On x86 nothing ever gets into the buffer (`Dry`).
The proof found an error in an earlier form of the bound, which left the failures out:
it held in the runs only because their chunk was smaller than a page.

**Lacing table** (`OpusDecProofs`; as above, but one task: `LacingIsInOrder` has the
hypothesis `Tasks = {x}`, because with a second task the table has two writers).
`Ranked` orders the three indices of a stream and says that the last whole packet ends
in an entry below `MaxSeg`, for as long as the fill is within the table; each part of
`ogg_stream_pagein` (dropping what was returned, giving up a partial packet, noting a
gap, skipping an orphan's segments, appending) keeps it, and with it the search for
the end of a packet stops within the whole packets. `LacingInv` asks that only as long
as no store went behind the tables of a stream (`overrun`), which is a step of history: the
invariant cannot be got back afterwards. That a page taken out has a segment table
at all comes from `Framed`, so the proof rests on `SupplyInv`. That the tables do hold
every segment and its bytes while the way spares the headers is part of `NoneLost` and only
model-checked.

**Decoder** (`OpusDecProofs`; any number of tasks). `DecoderIsThere` is the first part of
`OwnDecoder`: the packet count and the decoder are two fields that a chained stream, a
header that does not parse, a failed creation and the count at the start of the next
call all change on their own; `Made` says that a packet is counted only behind a
decoder, and that a call which goes on behind a packet has one to count.

What these assume of the constants, besides their types, is what the C types give:
packets are bytes, of one stream at least, and padding makes them longer
(`RepacketizerAssumption`, `StreamAssumption`), the headers written
have fields in the range of `OpusHeader` and a mapping that fits their streams
(`Writable`), and there is a codec for every stream of an encoder that was set up
(`SetupAssumption`, `CodedAssumption`). A page head is not longer than a chunk
(`SyncAssumption`, 27 and 1024 in the code), and the lacing table of the host, which
libogg enlarges, holds a packet (`HostAssumption`).

Each theorem has the usual parts: `Init => Inv`, `Inv /\ [Next]_vars => Inv'` with
a step per action, and the temporal step.

Only model-checked: liveness (`Drained`, `Delivered`, `EofReported`, `Answered`), which
is out of the prover's reach; `AckMeansIdle`, which holds for one session of each task
number only (section 6); of the packets `RoundTrip` and
`ChannelsKept`, which need that parsing undoes what writing does, byte by byte; and what
`OpusDec` says about the content of packets (`Intact`, `NoneLost`, and `OwnDecoder` but
for its first part), which holds for one task at a time with streams of different numbers
only (`OpusDecTwo` shows what the shared lacing table does to two) and needs an invariant
that relates the host's stream, what of it is on the wire, the sync buffer and that
table, byte by byte.

## 6. Further configurations

The runs of section 3 are the ones `PROJECT.json` lists. These show more places where
the code does not do what its own comments say; each is one configuration, or a change
of one, and TLC finds the property violated (`OsMalloc64.cfg` passes).

| Configuration | Property | What it shows |
|---|---|---|
| `OsMallocReject.cfg` | `Reclaims` | `os_malloc.c:138`: the alignment test of `search_index` shifts a 64-bit difference on x86-64, and only block 0 of a class can be freed |
| `OsMallocOr32.cfg` | `WithinPool` | `os_malloc.c:113`: the wrapped scan for several pieces reads past the flags; with `LowByte = 3`, the order of bytes on or32, the byte there is 0, and the block handed out lies partly behind the pool |
| `OsMalloc64.cfg` | `WithinPool` (holds) | with `LowByte = 0` the scan is stopped; `HeapWithinPool` proves it |
| `InBufferBrim.cfg` | `RegistersTell` | `os_buffer.c:106`: the DSP writes its old copy of I_LOOP back; a ring that the host filled while the DSP was at work looks empty |
| `InBufferMark.cfg` | `EofKept` | `os_buffer.c:107`: so with I_EOF, and the host's end mark is lost |
| `InBufferShort.cfg` | `InOrder` | `opus_enc.c:164`: OS_BUFFER_ERROR, for a frame longer than the ring, is not looked at, and bytes are read that are not there |
| `OutBufferFull.cfg` | `NothingRunOver` | `opus_dec.c:191`, `opus_enc.c:216`: nobody asks whether the output has room |
| `TaskForeign.cfg` | `FreesOnlyGranted` | `framing.c:237`: the static lacing table is given to `os_free`, which logs an error for every stream that is closed |
| `StartUpRepeat.cfg` | `RaisedOnce` | `main.c:84`: a STOP is served, and its interrupt raised, again until the host has taken it out |
| `StartUpTwo.cfg` with `MaxStarts = 2` | `AckMeansIdle` | such an interrupt may come after the host has cleared it, and is then taken for the answer to the STOP of the next session, whose task is still at work |
| `OpusDecX86.cfg` | `DecodeReturns` | `framing.c:532`: `os_buffer_read` returns 0, never 1024; `ogg_sync_buffer` returns -1, DATA_LESS is never reported, and `opus_dec_decode` never returns to `start_up` |
| `OpusDecOut.cfg` | `Heard` | `opus_dec.c:190`: the line that would move the samples to `tmp32Buffer` is a comment, and what goes to the ring is not what was decoded |
| `OpusDecFormat.cfg` | `FormatTold` | `opus_dec.c:193`: `opus_dec_init` never sets `w_ctrl`, and the format is written through NULL after every packet. On a machine with an MMU that ends the program; the other runs go on behind it |
| `TaskSessions.cfg` with `Decoders <- MCBuilt`, `SPECIFICATION StartedSpec` | `DecoderStarts` | `list.c:29`: the loop bound is 0 for the table of one entry; no decoder is ever found, and each failed `task_create` leaks both handles, in every turn of the loop |

## 7. Not modelled, and why

* The signal processing of libopus (`celt/`, `silk/`, `opus_encoder.c`,
  `opus_decoder.c`, `analysis.c`, `mlp.c`, the surround masking of the multistream
  encoder) and `scripts/kconfig`: vendored, sequential, and numeric rather than a
  matter of states and order; they are by far the most lines of the repository.
* The parts of `dev_core.c` behind a device: `create_dev` (`dev_list.c:24`) assigns
  a local variable that shadows the static one, `search_dev` returns NULL ever
  after, and `core_open` and what follows would go through that pointer. Nor is
  anything behind `core_uninit`, which goes through it (`dev_core.c:196`).
* The read of several channels in `opus_enc_encode` (`opus_enc.c:201`, whose update
  flag is inverted), and its DSP32 branch, which frees `o_buffer` only.
* In Ogg: granule positions, checksums (neither is looked at by the decoder) and
  the bytes behind the last whole kilobyte of a file, which `ogg_sync_buffer` never
  reads (`framing.c:524`). The version byte of a page is 0.
* A packet of more than 32 ms is refused by the decoder (`opus_dec.c:188` asks for
  1536 samples a channel) and reported as ERROR_CODE -88: `ChannelsKept` excepts it.
* `os_malloc_printf`, `task_printf`, logging, timers and `kernelcall.c` (I/O without
  state), empty stub files (AES, DES, RSA, Vorbis, resampling), the DSP32 image
  self-check.
* The branch under `#ifdef OR32` of `ogg_sync_buffer` calls functions that are declared
  nowhere (`buf_check_data_num`, `buf_read`): `Read` takes them by their names, and
  `TASK_DATALESS` for DATA_LESS. On a 32-bit x86 `ogg_sync_wrote` takes -1 for the
  count and the fill goes down; `OpusDecX86.cfg` is of 64 bits.
* That the sync buffer stays within its 32 KB: `SyncBounded` says how far it grows with
  every stretch of junk and every decoder that could not be made, which no stream bounds.
