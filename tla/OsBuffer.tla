------------------------------ MODULE OsBuffer ------------------------------
(***************************************************************************)
(* platform/os_buffer.c: one channel of an input or output ring, as its    *)
(* operations compute on a handle.  A handle is the DSP thread's private   *)
(* copy of the ring registers: r_addr, w_addr, loop and eof.  The ring is  *)
(* full or empty when r_addr = w_addr; loop = 1 says that it is full.      *)
(* The modules InBuffer and OutBuffer run these operations against a host. *)
(***************************************************************************)
EXTENDS Integers, Sequences

CONSTANT Size      \* bytes of a channel: I_SIZE, O_SIZE

ASSUME SizeAssumption == Size \in Nat \ {0}

Addr == 0 .. Size - 1
Flag == {0, 1}
Handles == [r_addr : Addr, w_addr : Addr, loop : Flag, eof : Flag]

\* os_buffer_open: the pointers start at 0, whatever the registers hold.
Opened == [r_addr |-> 0, w_addr |-> 0, loop |-> 0, eof |-> 0]

Bug_FillLenNoLoop(h) ==
    IF h.w_addr >= h.r_addr THEN h.w_addr - h.r_addr
                            ELSE Size + h.w_addr - h.r_addr

\* fillLen of os_buffer_check
FillLen(h) ==
    IF h.loop = 1 THEN Size
    ELSE IF h.w_addr >= h.r_addr THEN h.w_addr - h.r_addr
    ELSE Size + h.w_addr - h.r_addr

FreeLen(h) == Size - FillLen(h)

Bug_CheckInEofFirst(h, length) ==
    IF h.eof = 1 THEN "DATA_EOF"
    ELSE IF length > FillLen(h) THEN "DATA_LESS"
    ELSE "OK"

Bug_CheckInStrict(h, length) ==
    IF length < FillLen(h) THEN "OK"
    ELSE IF h.eof = 1 THEN "DATA_EOF" ELSE "DATA_LESS"

\* os_buffer_check of an input ring
CheckIn(h, length) ==
    IF length > Size THEN "ERROR"
    ELSE IF length <= FillLen(h) THEN "OK"
    ELSE IF h.eof = 1 THEN "DATA_EOF" ELSE "DATA_LESS"

\* A pointer moved on by length bytes, with the one subtraction the code does.
Forward(a, length) == IF a + length >= Size THEN a + length - Size ELSE a + length

\* x86_buffer_read: the bytes from rAddr on, in two pieces when they wrap.
BytesAt(mem, a, length) == [i \in 1 .. length |->
    IF a + i <= Size THEN mem[a + i - 1] ELSE mem[a + i - 1 - Size]]

\* x86_buffer_write
WithBytes(mem, a, bytes) == [k \in Addr |->
    IF k >= a /\ k - a < Len(bytes) THEN bytes[k - a + 1]
    ELSE IF k < a /\ k + Size - a < Len(bytes) THEN bytes[k + Size - a + 1]
    ELSE mem[k]]

Bug_AfterReadKeepLoop(h, length) ==
    [h EXCEPT !.r_addr = Forward(@, length)]

\* os_buffer_read with update = 1, as the handle is left
AfterRead(h, length) ==
    [h EXCEPT !.r_addr = Forward(@, length),
              !.loop   = IF length > 0 THEN 0 ELSE @]

Bug_AfterWriteNoLoop(h, length) ==
    [h EXCEPT !.w_addr = Forward(@, length)]

\* os_buffer_write with update = 1, as the handle is left
AfterWrite(h, length) ==
    LET w == Forward(h.w_addr, length)
    IN  [h EXCEPT !.w_addr = w,
                  !.loop   = IF h.r_addr = w /\ length > 0 THEN 1 ELSE @]
=============================================================================
