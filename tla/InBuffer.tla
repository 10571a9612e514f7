------------------------------ MODULE InBuffer ------------------------------
(***************************************************************************)
(* The input ring of a task, shared by the host, which fills it, and the   *)
(* DSP thread, which drains it (platform/os_buffer.c as api/task.c and     *)
(* api/avcodec/opus_enc.c use it).  No lock guards the registers:          *)
(* task_process copies W, LOOP and EOF into the handle, works on the copy, *)
(* and stores R, LOOP and EOF back, one register at a time.  Every         *)
(* register access is a step of its own.                                   *)
(*                                                                         *)
(* The host is not in the repository (core_write is a stub).  It is taken  *)
(* to follow the protocol of include/os_buffer.h:19-30: it reads R, writes *)
(* behind W, moves W, sets LOOP when it caught up with R, and sets EOF     *)
(* once after the last byte.  There are three kinds of host: one that      *)
(* leaves a byte of the ring free ("gap"); one that may fill the ring and   *)
(* has the task stopped (TASK_CTRL) while it writes ("turns"); and one that *)
(* fills the ring while the DSP is at work ("brim"), which has the I_LOOP   *)
(* it sets overwritten, as InBufferBrim.cfg shows.                          *)
(***************************************************************************)
EXTENDS OsBuffer

CONSTANTS
    Frames,      \* the frame lengths an encoder may need (i_frame_bytes)
    Hosts,       \* the kinds of host: "gap", "turns", "brim"
    MaxBytes     \* bound: bytes the host writes

ASSUME InAssumption ==
    /\ Frames \subseteq Nat \ {0}
    /\ Hosts \subseteq {"gap", "turns", "brim"}
    /\ MaxBytes \in Nat

VARIABLES
    I_R_ADDR, I_W_ADDR, I_LOOP, I_EOF,   \* the registers
    mem,       \* the bytes of the ring; byte n of the stream has value n
    hdl,       \* the DSP's handle
    need,      \* needFrameBytes of the running encode
    state,     \* result of the last os_buffer_check, or that memory was short
    taken,     \* every byte the DSP read so far
    dsp,       \* where the DSP thread is in task_process
    host,      \* where the host is in writing
    next_w,    \* the W the host is about to store
    fills,     \* whether that W catches up with the R the host saw
    written,   \* bytes the host has stored into the ring
    closed,    \* whether the host has set I_EOF
    kind       \* the kind of host this is

regs     == <<I_R_ADDR, I_W_ADDR, I_LOOP, I_EOF>>
dspVars  == <<hdl, need, state, taken, dsp>>
hostVars == <<mem, host, next_w, fills, written, closed, kind>>
vars     == <<regs, dspVars, hostVars>>

\* The ring as the registers show it, and as the host sees it.
Registers == [r_addr |-> I_R_ADDR, w_addr |-> I_W_ADDR, loop |-> I_LOOP, eof |-> I_EOF]

Init ==
    /\ I_R_ADDR = 0 /\ I_W_ADDR = 0 /\ I_LOOP = 0 /\ I_EOF = 0
    /\ mem = [a \in Addr |-> 0]
    /\ hdl = Opened
    /\ need \in Frames
    /\ state = "none"
    /\ taken = <<>>
    /\ dsp = "idle" /\ host = "idle"
    /\ next_w = 0 /\ fills = FALSE /\ written = 0 /\ closed = FALSE
    /\ kind \in Hosts

-----------------------------------------------------------------------------
(* The DSP thread: task_process                                            *)

DspAt(l, m) == dsp = l /\ dsp' = m

\* os_buffer_update_from(in_buf, OS_BUFFER_W_ATTR)
FromW ==
    /\ DspAt("idle", "from_loop")
    /\ kind = "turns" => host = "idle"
    /\ hdl' = [hdl EXCEPT !.w_addr = I_W_ADDR]
    /\ UNCHANGED <<regs, need, state, taken, hostVars>>

FromLoop ==
    /\ DspAt("from_loop", "from_eof")
    /\ hdl' = [hdl EXCEPT !.loop = I_LOOP]
    /\ UNCHANGED <<regs, need, state, taken, hostVars>>

FromEof ==
    /\ DspAt("from_eof", "encode")
    /\ hdl' = [hdl EXCEPT !.eof = I_EOF]
    /\ UNCHANGED <<regs, need, state, taken, hostVars>>

\* os_buffer_check, then os_buffer_read of a whole frame when there is one.
\* OS_BUFFER_ERROR, for a frame longer than the ring, is not looked at: the
\* frame is read as if it were there (InBufferShort.cfg).
ReadsOn(result) == result \in {"OK", "ERROR"}

Encode ==
    /\ DspAt("encode", "to_r")
    /\ state' = CheckIn(hdl, need)
    /\ IF ReadsOn(state')
       THEN /\ taken' = taken \o BytesAt(mem, hdl.r_addr, need)
            /\ hdl'   = AfterRead(hdl, need)
       ELSE UNCHANGED <<taken, hdl>>
    /\ UNCHANGED <<regs, need, hostVars>>

\* No memory for the frame: opus_enc_encode gives up before it reads.
EncodeNoMemory ==
    /\ DspAt("encode", "to_r")
    /\ ReadsOn(CheckIn(hdl, need))
    /\ state' = "NO_MEMORY"
    /\ UNCHANGED <<regs, hdl, need, taken, hostVars>>

\* os_buffer_update_to(in_buf, OS_BUFFER_R_ATTR)
ToR ==
    /\ DspAt("to_r", "to_loop")
    /\ I_R_ADDR' = hdl.r_addr
    /\ UNCHANGED <<I_W_ADDR, I_LOOP, I_EOF, hdl, need, state, taken, hostVars>>

ToLoop ==
    /\ DspAt("to_loop", "to_eof")
    /\ I_LOOP' = hdl.loop
    /\ UNCHANGED <<I_R_ADDR, I_W_ADDR, I_EOF, hdl, need, state, taken, hostVars>>

Bug_ToEofReset ==
    /\ DspAt("to_eof", "idle")
    /\ I_EOF' = 0
    /\ UNCHANGED <<I_R_ADDR, I_W_ADDR, I_LOOP, hdl, need, state, taken, hostVars>>

ToEof ==
    /\ DspAt("to_eof", "idle")
    /\ I_EOF' = hdl.eof
    /\ UNCHANGED <<I_R_ADDR, I_W_ADDR, I_LOOP, hdl, need, state, taken, hostVars>>

Dsp ==
    \/ FromW \/ FromLoop \/ FromEof
    \/ Encode \/ EncodeNoMemory
    \/ ToR \/ ToLoop \/ ToEof

-----------------------------------------------------------------------------
(* The host                                                                *)

HostAt(l, m) ==
    /\ host = l /\ host' = m
    /\ kind = "turns" => dsp = "idle"
    /\ UNCHANGED kind

Room == FreeLen(Registers) - (IF kind = "gap" THEN 1 ELSE 0)

\* Reads R and LOOP, and copies bytes into the free part of the ring.
HostWrite ==
    /\ HostAt("idle", "set_w")
    /\ ~ closed
    /\ \E n \in 1 .. Room :
          /\ written + n <= MaxBytes
          /\ mem' = WithBytes(mem, I_W_ADDR, [i \in 1 .. n |-> written + i])
          /\ written' = written + n
          /\ next_w'  = Forward(I_W_ADDR, n)
    /\ fills' = (next_w' = I_R_ADDR)
    /\ UNCHANGED <<regs, dspVars, closed>>

HostSetW ==
    /\ HostAt("set_w", IF fills THEN "set_loop" ELSE "idle")
    /\ I_W_ADDR' = next_w
    /\ UNCHANGED <<I_R_ADDR, I_LOOP, I_EOF, dspVars, mem, next_w, fills, written, closed>>

HostSetLoop ==
    /\ HostAt("set_loop", "idle")
    /\ I_LOOP' = 1
    /\ UNCHANGED <<I_R_ADDR, I_W_ADDR, I_EOF, dspVars, mem, next_w, fills, written, closed>>

\* The stream ends, after however many bytes.
HostSetEof ==
    /\ HostAt("idle", "idle")
    /\ ~ closed
    /\ I_EOF' = 1 /\ closed' = TRUE
    /\ UNCHANGED <<I_R_ADDR, I_W_ADDR, I_LOOP, dspVars, mem, next_w, fills, written>>

Host == HostWrite \/ HostSetW \/ HostSetLoop \/ HostSetEof

Next == Dsp \/ Host

Spec == Init /\ [][Next]_vars

\* The start_up loop calls task_process for as long as the task is queued, and
\* a host that is about to store W and LOOP does so.
FairSpec ==
    Spec /\ WF_vars(Dsp) /\ WF_vars(HostSetW) /\ WF_vars(HostSetLoop)

-----------------------------------------------------------------------------
TypeOK ==
    /\ Registers \in Handles /\ hdl \in Handles
    /\ mem \in [Addr -> 0 .. MaxBytes]
    /\ need \in Frames
    /\ state \in {"none", "OK", "ERROR", "DATA_LESS", "DATA_EOF", "NO_MEMORY"}
    /\ taken \in Seq(0 .. MaxBytes)
    /\ dsp \in {"idle", "from_loop", "from_eof", "encode", "to_r", "to_loop", "to_eof"}
    /\ host \in {"idle", "set_w", "set_loop"}
    /\ next_w \in Addr /\ fills \in BOOLEAN
    /\ written \in 0 .. MaxBytes /\ closed \in BOOLEAN
    /\ kind \in Hosts

\* The DSP reads the stream: byte after byte as the host wrote it, none lost,
\* none twice, none before it was there, wherever the two sides interleave and
\* wherever the ring wraps.
InOrder ==
    /\ Len(taken) <= written
    /\ \A i \in 1 .. Len(taken) : taken[i] = i

\* Once both sides are at rest the registers say how many bytes wait: a full
\* ring (W_ADDR = R_ADDR, I_LOOP set) is told from an empty one.
RegistersTell ==
    dsp = "idle" /\ host = "idle" => FillLen(Registers) = written - Len(taken)

\* DATA_EOF is only reported once the stream has ended and less than a frame
\* of it is left: no frame is given up.  A host that does not take turns may
\* write and close between the DSP's looks at W and at EOF.
EofOnlyAtEnd ==
    state = "DATA_EOF" /\ kind = "turns" => closed /\ written - Len(taken) < need

\* I_EOF is the end mark of the stream (include/register.h:116): once the host
\* has set it, it stays.
EofKept == closed => I_EOF = 1

\* The heap refuses the frame buffers again and again.  It may come to that:
\* os_free gives back one piece of the two that such a buffer takes (OsMalloc).
ShortOfMemory == []<>(state = "NO_MEMORY")

\* Unless memory is short, the DSP gets to report the end of a stream that has
\* ended, provided that the host does not set I_EOF while task_process runs.
EofReported ==
    ShortOfMemory \/ ((closed /\ kind = "turns") ~> (state = "DATA_EOF"))

\* Unless memory is short, no full frame stays in the ring for ever.
Drained == ShortOfMemory \/ <>[](written - Len(taken) < need)

\* Bytes the host has stored but not published: W has still to follow.
Unpublished ==
    IF host # "set_w" THEN 0
    ELSE IF next_w > I_W_ADDR THEN next_w - I_W_ADDR ELSE Size + next_w - I_W_ADDR

\* The bytes of the ring that are published and not read yet.
Pending == BytesAt(mem, hdl.r_addr, written - Unpublished - Len(taken))

Queue == INSTANCE Fifo WITH Byte <- 1 .. MaxBytes, Capacity <- Size, queue <- Pending

\* The ring is a first-in first-out queue, without any lock when the host leaves
\* a byte free, and up to the last byte when the sides take turns.
IsFifo == Queue!Spec
=============================================================================
