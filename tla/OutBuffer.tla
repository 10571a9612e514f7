----------------------------- MODULE OutBuffer ------------------------------
(***************************************************************************)
(* The output ring of a task, which the DSP thread fills (task_process and *)
(* the codec's os_buffer_write) and the host drains.  As for the input     *)
(* ring no lock guards the registers, and every access is a step.          *)
(*                                                                         *)
(* Neither codec asks os_buffer_check whether the output has room, and     *)
(* nothing else does: a frame is written whatever lies in the ring.  The   *)
(* history variable `crowded' notes the first frame for which there was no *)
(* room, and the properties say what the ring does up to then; that such a *)
(* frame runs over unread bytes is shown with OutBufferFull.cfg.           *)
(*                                                                         *)
(* The host is not in the repository (core_read is a stub): it reads up to *)
(* W, or a whole ring when LOOP is set, then stores R and clears LOOP.     *)
(* There are two kinds: "gap" reads at any time, and needs a byte of the   *)
(* ring left free, since a LOOP that both sides write to tells nothing;    *)
(* "turns" stops the task (TASK_CTRL) while it reads, and can use the last *)
(* byte.                                                                   *)
(***************************************************************************)
EXTENDS OsBuffer

CONSTANTS
    Frames,      \* the lengths a codec may write in one call
    Hosts,       \* the kinds of host: "gap", "turns"
    MaxBytes     \* bound: bytes the DSP writes

ASSUME OutAssumption ==
    /\ Frames \subseteq 1 .. Size - 1
    /\ Hosts \subseteq {"gap", "turns"}
    /\ MaxBytes \in Nat

VARIABLES
    O_R_ADDR, O_W_ADDR, O_LOOP,   \* the registers
    mem,        \* the bytes of the ring; byte n of the stream has value n
    hdl,        \* the DSP's handle
    dsp,        \* where the DSP thread is in task_process
    produced,   \* bytes the DSP has stored into the ring
    crowded,    \* whether a frame was stored that there was no room for
    received,   \* every byte the host read so far
    next_r,     \* where the host reads on
    host,       \* where the host is in reading
    kind        \* the kind of host this is

regs     == <<O_R_ADDR, O_W_ADDR, O_LOOP>>
dspVars  == <<mem, hdl, dsp, produced, crowded>>
hostVars == <<received, next_r, host, kind>>
vars     == <<regs, dspVars, hostVars>>

Registers == [r_addr |-> O_R_ADDR, w_addr |-> O_W_ADDR, loop |-> O_LOOP, eof |-> 0]

Init ==
    /\ O_R_ADDR = 0 /\ O_W_ADDR = 0 /\ O_LOOP = 0
    /\ mem = [a \in Addr |-> 0]
    /\ hdl = Opened
    /\ dsp = "idle" /\ produced = 0 /\ crowded = FALSE
    /\ received = <<>> /\ next_r = 0 /\ host = "idle"
    /\ kind \in Hosts

-----------------------------------------------------------------------------
(* The DSP thread: task_process                                            *)

DspAt(l, m) == dsp = l /\ dsp' = m

\* os_buffer_update_from(out_buf, OS_BUFFER_R_ATTR); no task_process is called
\* while the task is stopped.
FromR ==
    /\ DspAt("idle", "from_loop")
    /\ kind = "turns" => host = "idle"
    /\ hdl' = [hdl EXCEPT !.r_addr = O_R_ADDR]
    /\ UNCHANGED <<regs, mem, produced, crowded, hostVars>>

Bug_FromLoopStale ==
    /\ DspAt("from_loop", "decode")
    /\ UNCHANGED <<regs, mem, hdl, produced, crowded, hostVars>>

FromLoop ==
    /\ DspAt("from_loop", "decode")
    /\ hdl' = [hdl EXCEPT !.loop = O_LOOP]
    /\ UNCHANGED <<regs, mem, produced, crowded, hostVars>>

\* There is room for n bytes by what the handle says, which os_buffer_check
\* would tell a codec that asked; a host that reads meanwhile needs one more.
HasRoom(n) == IF kind = "gap" THEN n < FreeLen(hdl) ELSE n <= FreeLen(hdl)

\* The codec decodes a packet and writes it, room or not; a call that decodes
\* no packet writes nothing.
Decode ==
    /\ DspAt("decode", "to_w")
    /\ \/ \E n \in Frames :
             /\ produced + n <= MaxBytes
             /\ mem' = WithBytes(mem, hdl.w_addr, [i \in 1 .. n |-> produced + i])
             /\ hdl' = AfterWrite(hdl, n)
             /\ produced' = produced + n
             /\ crowded'  = (crowded \/ ~ HasRoom(n))
       \/ UNCHANGED <<mem, hdl, produced, crowded>>
    /\ UNCHANGED <<regs, hostVars>>

Bug_ToWLost ==
    /\ DspAt("to_w", "to_loop")
    /\ UNCHANGED <<regs, mem, hdl, produced, crowded, hostVars>>

\* os_buffer_update_to(out_buf, OS_BUFFER_W_ATTR); there is no O_EOF
ToW ==
    /\ DspAt("to_w", "to_loop")
    /\ O_W_ADDR' = hdl.w_addr
    /\ UNCHANGED <<O_R_ADDR, O_LOOP, mem, hdl, produced, crowded, hostVars>>

Bug_ToLoopSkipped ==
    /\ DspAt("to_loop", "idle")
    /\ UNCHANGED <<regs, mem, hdl, produced, crowded, hostVars>>

ToLoop ==
    /\ DspAt("to_loop", "idle")
    /\ O_LOOP' = hdl.loop
    /\ UNCHANGED <<O_R_ADDR, O_W_ADDR, mem, hdl, produced, crowded, hostVars>>

Dsp == FromR \/ FromLoop \/ Decode \/ ToW \/ ToLoop

-----------------------------------------------------------------------------
(* The host                                                                *)

HostAt(l, m) ==
    /\ host = l /\ host' = m
    /\ kind = "turns" => dsp = "idle"
    /\ UNCHANGED kind

HostRead ==
    /\ HostAt("idle", "set_r")
    /\ \E n \in 1 .. FillLen(Registers) :
          /\ Len(received) + n <= MaxBytes    \* a bound, met once crowded
          /\ received' = received \o BytesAt(mem, O_R_ADDR, n)
          /\ next_r'   = Forward(O_R_ADDR, n)
    /\ UNCHANGED <<regs, dspVars>>

HostSetR ==
    /\ HostAt("set_r", "clr_loop")
    /\ O_R_ADDR' = next_r
    /\ UNCHANGED <<O_W_ADDR, O_LOOP, dspVars, received, next_r>>

HostClrLoop ==
    /\ HostAt("clr_loop", "idle")
    /\ O_LOOP' = 0
    /\ UNCHANGED <<O_R_ADDR, O_W_ADDR, dspVars, received, next_r>>

Host == HostRead \/ HostSetR \/ HostClrLoop

Next == Dsp \/ Host

Spec == Init /\ [][Next]_vars

\* task_process goes on to the codec, and to its end once the codec has returned
\* (a decoder may never do so, see OpusDec: there is no fairness for Decode),
\* and a host that wants its output gets its turn.
FairSpec == Spec /\ WF_vars(FromLoop \/ ToW \/ ToLoop) /\ SF_vars(Host)

-----------------------------------------------------------------------------
TypeOK ==
    /\ Registers \in Handles /\ hdl \in Handles
    /\ mem \in [Addr -> 0 .. MaxBytes]
    /\ produced \in 0 .. MaxBytes /\ crowded \in BOOLEAN
    /\ received \in Seq(0 .. MaxBytes)
    /\ next_r \in Addr
    /\ kind \in Hosts
    /\ dsp \in {"idle", "from_loop", "decode", "to_w", "to_loop"}
    /\ host \in {"idle", "set_r", "clr_loop"}

\* As long as there is room for every frame, the host receives the stream as
\* the codec wrote it: no byte is run over before it was read, none is read
\* twice, wherever the two sides interleave and however the ring wraps.
InOrder ==
    ~ crowded =>
        /\ Len(received) <= produced
        /\ \A i \in 1 .. Len(received) : received[i] = i

\* "i/o buffer/fifo manager" (platform/os_buffer.c:5): what comes out is what
\* went in, room or not.
NothingRunOver == \A i \in 1 .. Len(received) : received[i] = i

\* Once both sides are at rest the registers say how many bytes wait: a full
\* ring is told from an empty one.
RegistersTell ==
    ~ crowded /\ dsp = "idle" /\ host = "idle" =>
        FillLen(Registers) = produced - Len(received)

\* No byte stays in the ring for ever.  Only a codec that never returns can
\* keep what is there from the host, and only from one that waits for its turn.
Delivered ==
    \/ <>crowded
    \/ <>[](kind = "turns" /\ dsp = "decode")
    \/ <>[](Len(received) = produced)

\* Bytes the codec has stored but not published: W has still to follow.
Unpublished ==
    IF dsp # "to_w" THEN 0
    ELSE IF hdl.w_addr >= O_W_ADDR THEN hdl.w_addr - O_W_ADDR
    ELSE Size + hdl.w_addr - O_W_ADDR

\* The bytes of the ring that are published and not read yet.
Pending == BytesAt(mem, next_r, produced - Unpublished - Len(received))

Queue == INSTANCE Fifo WITH Byte <- 1 .. MaxBytes, Capacity <- Size, queue <- Pending

\* The ring is a first-in first-out queue for as long as there is room for every
\* frame, without any lock.
IsFifo == Queue!Init /\ [][~ crowded' => Queue!Next]_Pending
=============================================================================
