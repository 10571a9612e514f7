-------------------------- MODULE OutBufferProofs ---------------------------
(***************************************************************************)
(* Theorems about OutBuffer, for a ring of any size, any frame lengths and *)
(* streams of any length, and for both kinds of host: what the ring does   *)
(* until a frame is written that there is no room for.                     *)
(***************************************************************************)
EXTENDS OutBuffer, OsBufferProofs

\* Bytes the codec has stored and the host has not read.
Unread == produced - Len(received)

\* The ring from where the host reads on: the unread bytes, in order.
Content ==
    /\ Len(received) <= produced /\ Unread <= Size
    /\ \A i \in 1 .. Len(received) : received[i] = i
    /\ hdl.w_addr = Forward(next_r, Unread)
    /\ Waits(mem, next_r, Len(received), Unread)

\* W and R only lag behind while their owners are about to store them.
Published ==
    /\ dsp # "to_w" => O_W_ADDR = hdl.w_addr
    /\ host # "set_r" => O_R_ADDR = next_r

\* With a byte left free LOOP is never needed, and going round the ring from the
\* handle's R one meets the published R, the host, the published W and the
\* handle's W, in that order and without coming back to where one began.
Apart ==
    kind = "gap" =>
        /\ O_LOOP = 0 /\ hdl.loop = 0
        /\ Dist(O_R_ADDR, next_r) <= Dist(hdl.r_addr, next_r)
        /\ Dist(hdl.r_addr, next_r) + Unread < Size
        /\ Dist(next_r, O_W_ADDR) <= Unread

LoopTells(loop) == loop = IF Unread = Size THEN 1 ELSE 0

\* When the sides take turns, what either of them works with is up to date.
Turns ==
    kind = "turns" =>
        /\ dsp # "idle" => host = "idle" /\ hdl.r_addr = O_R_ADDR
        /\ host = "idle" /\ dsp \notin {"to_w", "to_loop"} => LoopTells(O_LOOP)
        /\ dsp \in {"decode", "to_w", "to_loop"} => LoopTells(hdl.loop)
        /\ host # "idle" => Unread < Size
        /\ dsp = "to_w" => Dist(O_W_ADDR, hdl.w_addr) <= Unread

\* What holds of a ring in which every frame had room.
RingInv == TypeOK /\ Content /\ Published /\ Apart /\ Turns

\* The inductive invariant.
Always == TypeOK /\ (~ crowded => RingInv)

-----------------------------------------------------------------------------
\* The constants and the registers as the proofs use them.
LEMMA Typed ==
    ASSUME TypeOK
    PROVE  /\ Size \in Nat /\ Size > 0 /\ MaxBytes \in Nat /\ Frames \subseteq 1 .. Size - 1
           /\ O_R_ADDR \in Addr /\ O_W_ADDR \in Addr /\ O_LOOP \in Flag
           /\ hdl.r_addr \in Addr /\ hdl.w_addr \in Addr /\ hdl.loop \in Flag
           /\ produced \in Nat /\ produced <= MaxBytes
           /\ Len(received) \in Nat /\ Registers \in Handles /\ hdl \in Handles
           /\ next_r \in Addr /\ kind \in {"gap", "turns"}
           /\ Registers.r_addr = O_R_ADDR /\ Registers.w_addr = O_W_ADDR
           /\ Registers.loop = O_LOOP /\ Registers.eof = 0
<1>1. Registers \in Handles /\ hdl \in Handles
  BY DEF TypeOK
<1>2. /\ Registers.r_addr = O_R_ADDR /\ Registers.w_addr = O_W_ADDR
      /\ Registers.loop = O_LOOP /\ Registers.eof = 0
  BY DEF Registers
<1>3. /\ O_R_ADDR \in Addr /\ O_W_ADDR \in Addr /\ O_LOOP \in Flag
      /\ hdl.r_addr \in Addr /\ hdl.w_addr \in Addr /\ hdl.loop \in Flag
  BY <1>1, <1>2 DEF Handles
<1>4. produced \in Nat /\ produced <= MaxBytes /\ Len(received) \in Nat /\ next_r \in Addr
  BY OutAssumption DEF TypeOK
<1>5. kind \in {"gap", "turns"}
  BY OutAssumption DEF TypeOK
<1> QED
  BY <1>1, <1>2, <1>3, <1>4, <1>5, SizeAssumption, OutAssumption

LEMMA InitInv == Init => RingInv
<1> SUFFICES ASSUME Init PROVE RingInv
  OBVIOUS
<1> USE SizeAssumption, OutAssumption
<1>1. 0 \in Addr /\ Forward(0, 0) = 0 /\ Dist(0, 0) = 0
  BY DEF Addr, Forward, Dist
<1>2. TypeOK
  <2>1. Registers \in Handles /\ hdl \in Handles
    BY <1>1 DEF Init, Registers, Handles, Opened, Flag
  <2>2. mem \in [Addr -> 0 .. MaxBytes] /\ received \in Seq(0 .. MaxBytes)
    BY DEF Init
  <2> QED
    BY <1>1, <2>1, <2>2 DEF Init, TypeOK
<1>3. /\ Len(received) = 0 /\ Unread = 0
      /\ hdl.r_addr = 0 /\ hdl.w_addr = 0 /\ hdl.loop = 0
  <2>1. Len(received) = 0 /\ produced = 0
    BY DEF Init
  <2>2. hdl.r_addr = 0 /\ hdl.w_addr = 0 /\ hdl.loop = 0
    BY DEF Init, Opened
  <2> QED
    BY <2>1, <2>2 DEF Unread
<1>4. Content
  BY <1>1, <1>3 DEF Init, Content, Waits
<1>5. Published
  BY <1>3 DEF Init, Published
<1>6. Apart
  BY <1>1, <1>3 DEF Init, Apart
<1>7. Turns
  BY <1>3 DEF Init, Turns, LoopTells
<1> QED
  BY <1>2, <1>4, <1>5, <1>6, <1>7 DEF RingInv

-----------------------------------------------------------------------------
(* The DSP thread                                                          *)

LEMMA FromRInv == RingInv /\ FromR => RingInv'
<1> SUFFICES ASSUME RingInv, FromR PROVE RingInv'
  OBVIOUS
<1>1. TypeOK /\ Content /\ Published /\ Apart /\ Turns
  BY DEF RingInv
<1>2. /\ hdl'.r_addr = O_R_ADDR /\ hdl'.w_addr = hdl.w_addr
      /\ hdl'.loop = hdl.loop /\ hdl' \in Handles
      /\ dsp = "idle" /\ dsp' = "from_loop" /\ (kind = "turns" => host = "idle")
      /\ UNCHANGED <<regs, mem, produced, crowded, hostVars>>
  BY <1>1, Typed DEF FromR, DspAt, Handles
<1>4. /\ O_R_ADDR \in Addr /\ next_r \in Addr /\ hdl.r_addr \in Addr
      /\ Unread \in 0 .. Size /\ Size \in Nat
  BY <1>1, Typed DEF Content, Unread
<1> USE <1>2 DEF regs, hostVars
<1>5. TypeOK'
  BY <1>1 DEF TypeOK, Registers
<1>6. Content' /\ Published'
  BY <1>1 DEF Content, Unread, Waits, Published
<1>7. Apart'
  <2> SUFFICES ASSUME kind = "gap" PROVE Apart'
    BY DEF Apart
  <2>1. /\ O_LOOP = 0 /\ hdl.loop = 0
        /\ Dist(O_R_ADDR, next_r) <= Dist(hdl.r_addr, next_r)
        /\ Dist(hdl.r_addr, next_r) + Unread < Size
        /\ Dist(next_r, O_W_ADDR) <= Unread
    BY <1>1 DEF Apart
  <2>2. Dist(O_R_ADDR, next_r) \in Nat /\ Dist(hdl.r_addr, next_r) \in Nat
    BY <1>4, DistNat
  <2>3. /\ Dist(O_R_ADDR, next_r) <= Dist(O_R_ADDR, next_r)
        /\ Dist(O_R_ADDR, next_r) + Unread < Size
    BY <1>4, <2>1, <2>2
  <2> QED
    BY <2>1, <2>3 DEF Apart, Dist, Unread
<1>8. Turns'
  BY <1>1 DEF Turns, LoopTells, Unread
<1> QED
  BY <1>5, <1>6, <1>7, <1>8 DEF RingInv

LEMMA FromLoopInv == RingInv /\ FromLoop => RingInv'
<1> SUFFICES ASSUME RingInv, FromLoop PROVE RingInv'
  OBVIOUS
<1>1. TypeOK /\ Content /\ Published /\ Apart /\ Turns
  BY DEF RingInv
<1>2. /\ hdl'.r_addr = hdl.r_addr /\ hdl'.w_addr = hdl.w_addr
      /\ hdl'.loop = O_LOOP /\ hdl' \in Handles
      /\ dsp = "from_loop" /\ dsp' = "decode"
      /\ UNCHANGED <<regs, mem, produced, crowded, hostVars>>
  BY <1>1, Typed DEF FromLoop, DspAt, Handles
<1> USE <1>2 DEF regs, hostVars
<1>3. TypeOK'
  BY <1>1 DEF TypeOK, Registers
<1>4. Content' /\ Published'
  BY <1>1 DEF Content, Unread, Waits, Published
<1>5. Apart'
  BY <1>1 DEF Apart, Unread, Dist
<1>6. Turns'
  BY <1>1 DEF Turns, LoopTells, Unread
<1> QED
  BY <1>3, <1>4, <1>5, <1>6 DEF RingInv

\* What os_buffer_check would call room is room, and in a ring with a gap leaves
\* a byte.
LEMMA RoomTrue ==
    ASSUME RingInv, dsp = "decode", NEW n \in Frames, HasRoom(n)
    PROVE  /\ kind = "gap" => Dist(hdl.r_addr, next_r) + Unread + n < Size
           /\ kind = "turns" => Unread + n <= Size
<1>1. TypeOK /\ Content /\ Published /\ Apart /\ Turns
  BY DEF RingInv
<1>2. FillLen(hdl) = IF hdl.loop = 1 THEN Size ELSE Dist(hdl.r_addr, hdl.w_addr)
  BY <1>1, Typed, FillIs
<1>3. /\ Unread \in 0 .. Size /\ next_r \in Addr
      /\ hdl.r_addr \in Addr /\ Size \in Nat \ {0}
      /\ hdl.w_addr = Forward(next_r, Unread) /\ Frames \subseteq 1 .. Size - 1
  BY <1>1, Typed DEF Content, Unread
<1>4. n \in 1 .. Size - 1
  BY <1>3
<1>5. ASSUME kind = "gap" PROVE Dist(hdl.r_addr, next_r) + Unread + n < Size
  <2>1. hdl.loop = 0 /\ Dist(hdl.r_addr, next_r) + Unread < Size
    BY <1>1, <1>5 DEF Apart
  <2>2. Dist(hdl.r_addr, next_r) \in Nat
    BY <1>3, DistNat
  <2>3. Dist(hdl.r_addr, hdl.w_addr) = Dist(hdl.r_addr, next_r) + Unread
    <3>1. Unread \in Nat
      BY <1>3
    <3> QED
      BY <1>3, <2>1, <3>1, DistFar
  <2>4. n < Size - Dist(hdl.r_addr, hdl.w_addr)
    BY <1>2, <1>5, <2>1 DEF HasRoom, FreeLen
  <2> QED
    BY <1>3, <1>4, <2>2, <2>3, <2>4
<1>6. ASSUME kind = "turns" PROVE Unread + n <= Size
  <2>1. hdl.r_addr = next_r /\ LoopTells(hdl.loop)
    BY <1>1, <1>6 DEF Published, Turns
  <2>2. n <= Size - FillLen(hdl)
    BY <1>6 DEF HasRoom, FreeLen
  <2>3. CASE Unread = Size
    <3>1. FillLen(hdl) = Size
      BY <1>2, <2>1, <2>3 DEF LoopTells
    <3> QED
      BY <1>3, <1>4, <2>2, <3>1
  <2>4. CASE Unread # Size
    <3>1. hdl.loop = 0 /\ Unread \in 0 .. Size - 1
      BY <1>3, <2>1, <2>4 DEF LoopTells
    <3>2. Dist(hdl.r_addr, hdl.w_addr) = Unread
      BY <1>3, <2>1, <3>1, DistForward
    <3> QED
      BY <1>2, <1>3, <1>4, <2>2, <3>1, <3>2
  <2> QED
    BY <2>3, <2>4
<1> QED
  BY <1>5, <1>6

LEMMA DecodeInv == RingInv /\ Decode /\ ~ crowded' => RingInv'
<1> SUFFICES ASSUME RingInv, Decode, ~ crowded' PROVE RingInv'
  OBVIOUS
<1>1. TypeOK /\ Content /\ Published /\ Apart /\ Turns
  BY DEF RingInv
<1>2. /\ dsp = "decode" /\ dsp' = "to_w" /\ UNCHANGED <<regs, hostVars>>
  BY DEF Decode, DspAt
<1>3. /\ Unread \in 0 .. Size /\ Len(received) \in Nat /\ produced \in Nat
      /\ produced = Len(received) + Unread /\ hdl.r_addr \in Addr /\ O_R_ADDR \in Addr
      /\ O_W_ADDR \in Addr /\ next_r \in Addr /\ hdl.w_addr \in Addr
      /\ hdl.w_addr = Forward(next_r, Unread) /\ O_W_ADDR = hdl.w_addr
      /\ Size \in Nat \ {0} /\ MaxBytes \in Nat /\ Frames \subseteq 1 .. Size - 1
      /\ hdl \in Handles
  BY <1>1, <1>2, Typed DEF Content, Unread, Published
<1>4. CASE UNCHANGED <<mem, hdl, produced, crowded>>
  <2> USE <1>2, <1>4 DEF regs, hostVars
  <2>1. TypeOK'
    BY <1>1 DEF TypeOK, Registers
  <2>2. Content' /\ Published'
    BY <1>1 DEF Content, Unread, Waits, Published
  <2>3. Apart'
    BY <1>1 DEF Apart, Unread, Dist
  <2>4. Turns'
    <3>1. Dist(O_W_ADDR, hdl.w_addr) <= Unread
      BY <1>3 DEF Dist, Addr
    <3> QED
      BY <1>1, <3>1 DEF Turns, LoopTells, Unread, Dist
  <2> QED
    BY <2>1, <2>2, <2>3, <2>4 DEF RingInv
<1>5. ASSUME NEW n \in Frames,
             produced + n <= MaxBytes,
             mem' = WithBytes(mem, hdl.w_addr, [i \in 1 .. n |-> produced + i]),
             hdl' = AfterWrite(hdl, n),
             produced' = produced + n,
             crowded' = (crowded \/ ~ HasRoom(n))
      PROVE  RingInv'
  <2>1. n \in 1 .. Size - 1 /\ n \in 1 .. Size /\ n \in Nat
    BY <1>3
  <2> ~ crowded' /\ HasRoom(n)
    BY <1>5
  <2>2. kind = "gap" => Dist(hdl.r_addr, next_r) + Unread + n < Size
    BY <1>2, RoomTrue
  <2>3. kind = "turns" => Unread + n <= Size /\ host = "idle" /\ hdl.r_addr = next_r
    BY <1>1, <1>2, RoomTrue DEF Turns, Published
  <2>4. Unread + n <= Size
    <3>1. Dist(hdl.r_addr, next_r) \in Nat
      BY <1>3, DistNat
    <3>2. kind \in {"gap", "turns"}
      BY <1>1, Typed
    <3> QED
      BY <1>3, <2>1, <2>2, <2>3, <3>1, <3>2
  <2>5. /\ hdl'.r_addr = hdl.r_addr
        /\ hdl'.w_addr = Forward(hdl.w_addr, n)
        /\ hdl'.loop = IF hdl.r_addr = Forward(hdl.w_addr, n) THEN 1 ELSE hdl.loop
        /\ hdl' \in Handles
    BY <1>3, <1>5, <2>1, AfterWriteFields
  <2>6. Forward(hdl.w_addr, n) = Forward(next_r, Unread + n)
    <3>1. Unread \in Nat
      BY <1>3
    <3>2. Forward(Forward(next_r, Unread), n) = Forward(next_r, Unread + n)
      BY <1>3, <2>1, <2>4, <3>1, ForwardForward, ZenonT(40)
    <3> QED
      BY <1>3, <3>2
  <2>7. Unread' = Unread + n /\ Len(received') = Len(received)
    BY <1>2, <1>3, <1>5, <2>1 DEF Unread, hostVars
  <2>8. [i \in 1 .. n |-> produced + i] = Numbers(produced, n)
    BY DEF Numbers
  <2>9. TypeOK'
    <3>1. Numbers(produced, n) \in Seq(0 .. MaxBytes)
      <4>1. \A i \in 1 .. n : produced + i \in 0 .. MaxBytes
        BY <1>3, <1>5, <2>1
      <4> QED
        BY <2>1, <4>1 DEF Numbers
    <3>2. mem \in [Addr -> 0 .. MaxBytes]
      BY <1>1 DEF TypeOK
    <3>3. mem' \in [Addr -> 0 .. MaxBytes]
      BY <1>3, <1>5, <2>8, <3>1, <3>2, WriteType
    <3>4. produced' \in 0 .. MaxBytes
      BY <1>3, <1>5, <2>1
    <3>5. crowded' \in BOOLEAN
      BY <1>5
    <3> QED
      BY <1>1, <1>2, <2>5, <3>3, <3>4, <3>5 DEF TypeOK, Registers, regs, hostVars
  <2>10. Content'
    <3>1. Waits(WithBytes(mem, Forward(next_r, Unread), Numbers(Len(received) + Unread, n)),
                next_r, Len(received), Unread + n)
      <4>1. Waits(mem, next_r, Len(received), Unread) /\ Unread \in Nat
        BY <1>1, <1>3 DEF Content
      <4> QED
        BY <1>3, <2>1, <2>4, <4>1, WriteKeepsOrder
    <3>2. Waits(mem', next_r, Len(received), Unread + n)
      BY <1>3, <1>5, <2>8, <3>1
    <3>3. Len(received') <= produced'
      BY <1>3, <1>5, <2>1, <2>7
    <3> QED
      BY <1>1, <1>2, <2>4, <2>5, <2>6, <2>7, <3>2, <3>3 DEF Content, Waits, hostVars
  <2>11. Published'
    BY <1>1, <1>2 DEF Published, regs, hostVars
  <2>12. Apart'
    <3> SUFFICES ASSUME kind = "gap" PROVE Apart'
      BY <1>2 DEF Apart, hostVars
    <3>1. /\ O_LOOP = 0 /\ hdl.loop = 0
          /\ Dist(O_R_ADDR, next_r) <= Dist(hdl.r_addr, next_r)
          /\ Dist(next_r, O_W_ADDR) <= Unread
      BY <1>1 DEF Apart
    <3>2. /\ Dist(hdl.r_addr, next_r) \in Nat /\ Dist(next_r, O_W_ADDR) \in Nat
      BY <1>3, DistNat
    <3>3. /\ Dist(next_r, O_W_ADDR) <= Unread + n
          /\ Dist(hdl.r_addr, next_r) + (Unread + n) < Size
      BY <1>3, <2>1, <2>2, <3>1, <3>2
    <3>4. hdl'.loop = 0
      <4>1. Unread + n \in Nat /\ Unread + n > 0
        BY <1>3, <2>1
      <4>2. Dist(hdl.r_addr, Forward(next_r, Unread + n))
              = Dist(hdl.r_addr, next_r) + (Unread + n)
        BY <1>3, <3>3, <4>1, DistFar
      <4>3. Dist(hdl.r_addr, hdl.r_addr) = 0
        BY <1>3 DEF Dist, Addr
      <4>4. hdl.r_addr # Forward(next_r, Unread + n)
        BY <3>2, <4>1, <4>2, <4>3
      <4> QED
        BY <2>5, <2>6, <3>1, <4>4
    <3> QED
      BY <1>2, <2>5, <2>7, <3>1, <3>3, <3>4 DEF Apart, Dist, regs, hostVars
  <2>13. Turns'
    <3> SUFFICES ASSUME kind = "turns" PROVE Turns'
      BY <1>2 DEF Turns, hostVars
    <3>1. LoopTells(hdl.loop)
      BY <1>1, <1>2 DEF Turns
    <3>2. hdl.loop = 0
      BY <1>3, <2>1, <2>4, <3>1 DEF LoopTells
    <3>3. hdl'.loop = IF Unread' = Size THEN 1 ELSE 0
      <4>1. CASE Unread + n = Size
        <5>1. Forward(next_r, Size) = next_r
          BY <1>3 DEF Forward, Addr
        <5> QED
          BY <2>3, <2>5, <2>6, <2>7, <4>1, <5>1
      <4>2. CASE Unread + n # Size
        <5>1. Unread + n \in 1 .. Size - 1
          BY <1>3, <2>1, <2>4, <4>2
        <5>2. Forward(next_r, Unread + n) # next_r
          BY <1>3, <5>1 DEF Forward, Addr
        <5> QED
          BY <2>3, <2>5, <2>6, <2>7, <3>2, <4>2, <5>2
      <4> QED
        BY <4>1, <4>2
    <3>4. Dist(O_W_ADDR, hdl'.w_addr) <= Unread'
      <4>1. n \in 0 .. Size - 1
        BY <2>1
      <4>2. Dist(O_W_ADDR, hdl'.w_addr) = n
        BY <1>3, <2>5, <4>1, DistForward
      <4> QED
        BY <1>3, <2>1, <2>7, <4>2
    <3>5. host = "idle" /\ hdl.r_addr = O_R_ADDR
      BY <1>1, <1>2 DEF Turns
    <3> QED
      BY <1>2, <2>5, <3>3, <3>4, <3>5 DEF Turns, LoopTells, Dist, regs, hostVars
  <2> QED
    BY <2>9, <2>10, <2>11, <2>12, <2>13 DEF RingInv
<1> QED
  BY <1>4, <1>5 DEF Decode

LEMMA ToWInv == RingInv /\ ToW => RingInv'
<1> SUFFICES ASSUME RingInv, ToW PROVE RingInv'
  OBVIOUS
<1>1. TypeOK /\ Content /\ Published /\ Apart /\ Turns
  BY DEF RingInv
<1>2. /\ O_W_ADDR' = hdl.w_addr /\ dsp = "to_w" /\ dsp' = "to_loop"
      /\ UNCHANGED <<O_R_ADDR, O_LOOP, mem, hdl, produced, crowded, hostVars>>
  BY DEF ToW, DspAt
<1> USE <1>2 DEF hostVars
<1>3. TypeOK'
  BY <1>1, Typed DEF TypeOK, Registers, Handles
<1>4. Content' /\ Published'
  BY <1>1 DEF Content, Unread, Waits, Published
<1>5. Apart'
  <2> SUFFICES ASSUME kind = "gap" PROVE Apart'
    BY DEF Apart
  <2>1. Dist(hdl.r_addr, next_r) + Unread < Size
    BY <1>1 DEF Apart
  <2>2. /\ next_r \in Addr /\ hdl.r_addr \in Addr /\ Unread \in 0 .. Size
        /\ Size \in Nat /\ hdl.w_addr = Forward(next_r, Unread)
    BY <1>1, Typed DEF Content, Unread
  <2>3. Unread \in 0 .. Size - 1
    <3>1. Dist(hdl.r_addr, next_r) \in Nat
      BY <2>2, DistNat
    <3> QED
      BY <2>1, <2>2, <3>1
  <2>4. Dist(next_r, hdl.w_addr) = Unread
    BY <2>2, <2>3, DistForward
  <2>5. Dist(next_r, hdl.w_addr) <= Unread
    BY <2>3, <2>4
  <2> QED
    BY <1>1, <2>5 DEF Apart, Unread, Dist
<1>6. Turns'
  BY <1>1 DEF Turns, LoopTells, Unread
<1> QED
  BY <1>3, <1>4, <1>5, <1>6 DEF RingInv

LEMMA ToLoopInv == RingInv /\ ToLoop => RingInv'
<1> SUFFICES ASSUME RingInv, ToLoop PROVE RingInv'
  OBVIOUS
<1>1. TypeOK /\ Content /\ Published /\ Apart /\ Turns
  BY DEF RingInv
<1>2. /\ O_LOOP' = hdl.loop /\ dsp = "to_loop" /\ dsp' = "idle"
      /\ UNCHANGED <<O_R_ADDR, O_W_ADDR, mem, hdl, produced, crowded, hostVars>>
  BY DEF ToLoop, DspAt
<1> USE <1>2 DEF hostVars
<1>3. TypeOK'
  BY <1>1, Typed DEF TypeOK, Registers, Handles
<1>4. Content' /\ Published'
  BY <1>1 DEF Content, Unread, Waits, Published
<1>5. Apart'
  BY <1>1 DEF Apart, Unread, Dist
<1>6. Turns'
  BY <1>1 DEF Turns, LoopTells, Unread
<1> QED
  BY <1>3, <1>4, <1>5, <1>6 DEF RingInv

-----------------------------------------------------------------------------
(* The host                                                                *)

\* What the host takes for the fill of the ring never exceeds the unread bytes,
\* and is exactly that when the sides take turns.
LEMMA FillTrue ==
    ASSUME RingInv, host = "idle", kind = "turns" => dsp = "idle"
    PROVE  /\ FillLen(Registers) \in 0 .. Unread
           /\ kind = "gap" => FillLen(Registers) = Dist(next_r, O_W_ADDR)
           /\ kind = "turns" => FillLen(Registers) = Unread
<1>1. TypeOK /\ Content /\ Published /\ Apart /\ Turns
  BY DEF RingInv
<1>2. FillLen(Registers) = IF O_LOOP = 1 THEN Size ELSE Dist(O_R_ADDR, O_W_ADDR)
  BY <1>1, Typed, FillIs
<1>3. /\ Unread \in 0 .. Size /\ next_r \in Addr /\ O_W_ADDR \in Addr
      /\ Size \in Nat \ {0} /\ kind \in {"gap", "turns"} /\ O_R_ADDR = next_r
      /\ hdl.w_addr = Forward(next_r, Unread)
  BY <1>1, Typed DEF Content, Unread, Published
<1>4. CASE kind = "gap"
  <2>1. O_LOOP = 0 /\ Dist(next_r, O_W_ADDR) <= Unread
    BY <1>1, <1>4 DEF Apart
  <2>2. Dist(next_r, O_W_ADDR) \in Nat
    BY <1>3, DistNat
  <2> QED
    BY <1>2, <1>3, <1>4, <2>1, <2>2
<1>5. CASE kind = "turns"
  <2>1. O_W_ADDR = Forward(next_r, Unread) /\ LoopTells(O_LOOP)
    BY <1>1, <1>3, <1>5 DEF Published, Turns
  <2>2. CASE Unread = Size
    BY <1>2, <1>3, <1>5, <2>1, <2>2 DEF LoopTells
  <2>3. CASE Unread # Size
    <3>1. O_LOOP = 0 /\ Unread \in 0 .. Size - 1
      BY <1>3, <2>1, <2>3 DEF LoopTells
    <3>2. Dist(O_R_ADDR, O_W_ADDR) = Unread
      BY <1>3, <2>1, <3>1, DistForward
    <3> QED
      BY <1>2, <1>3, <1>5, <3>1, <3>2
  <2> QED
    BY <2>2, <2>3
<1> QED
  BY <1>3, <1>4, <1>5

LEMMA HostReadInv == RingInv /\ HostRead => RingInv'
<1> SUFFICES ASSUME RingInv, HostRead PROVE RingInv'
  OBVIOUS
<1>1. TypeOK /\ Content /\ Published /\ Apart /\ Turns
  BY DEF RingInv
<1>2. PICK n \in 1 .. FillLen(Registers) :
          /\ received' = received \o BytesAt(mem, O_R_ADDR, n)
          /\ next_r'   = Forward(O_R_ADDR, n)
  BY DEF HostRead
<1>3. /\ host = "idle" /\ host' = "set_r" /\ (kind = "turns" => dsp = "idle")
      /\ UNCHANGED kind /\ UNCHANGED <<regs, dspVars>>
  BY DEF HostRead, HostAt
<1>4. /\ FillLen(Registers) \in 0 .. Unread
      /\ kind = "gap" => FillLen(Registers) = Dist(next_r, O_W_ADDR)
  BY <1>3, FillTrue
<1>5. /\ Unread \in 0 .. Size /\ Len(received) \in Nat /\ produced \in Nat
      /\ produced = Len(received) + Unread /\ hdl.r_addr \in Addr /\ O_R_ADDR = next_r
      /\ O_W_ADDR \in Addr /\ next_r \in Addr
      /\ hdl.w_addr = Forward(next_r, Unread)
      /\ Size \in Nat \ {0} /\ MaxBytes \in Nat /\ produced <= MaxBytes
  BY <1>1, <1>3, Typed DEF Content, Unread, Published
<1>6. n \in 0 .. Unread /\ n \in 1 .. Size /\ n \in 0 .. Size /\ n \in Nat
  BY <1>4, <1>5
<1>7. /\ received' \in Seq(0 .. MaxBytes)
      /\ Len(received') = Len(received) + n
      /\ \A i \in 1 .. Len(received') : received'[i] = i
  <2>1. received' = received \o Numbers(Len(received), n)
    <3>1. BytesAt(mem, next_r, n) = Numbers(Len(received), n)
      BY <1>1, <1>5, <1>6, ReadInOrder DEF Content
    <3> QED
      BY <1>2, <1>5, <3>1
  <2>2. received \in Seq(0 .. MaxBytes) /\ MaxBytes \in Nat
        /\ Len(received) + n <= MaxBytes /\ \A i \in 1 .. Len(received) : received[i] = i
    BY <1>1, <1>5, <1>6 DEF TypeOK, Content
  <2> QED
    BY <1>6, <2>1, <2>2, AppendInOrder, SMTT(30)
<1>8. /\ Unread' = Unread - n /\ Unread' \in 0 .. Size - 1
      /\ next_r' = Forward(next_r, n) /\ next_r' \in Addr
  <2>1. Unread' = Unread - n
    BY <1>3, <1>5, <1>6, <1>7 DEF Unread, dspVars
  <2>2. next_r' = Forward(next_r, n) /\ next_r' \in Addr
    BY <1>2, <1>5, <1>6, ForwardAddr
  <2> QED
    BY <1>5, <1>6, <2>1, <2>2
<1>9. TypeOK'
  BY <1>1, <1>3, <1>7, <1>8 DEF TypeOK, Registers, regs, dspVars
<1>10. Content'
  <2>1. hdl.w_addr = Forward(next_r', Unread')
    <3>1. Unread - n \in Nat /\ n + (Unread - n) = Unread /\ n + (Unread - n) <= Size
      BY <1>5, <1>6
    <3>2. Forward(Forward(next_r, n), Unread - n) = Forward(next_r, n + (Unread - n))
      BY <1>5, <1>6, <3>1, ForwardForward
    <3> QED
      BY <1>5, <1>8, <3>1, <3>2
  <2>2. Waits(mem, Forward(next_r, n), Len(received) + n, Unread - n)
    BY <1>1, <1>5, <1>6, ReadLeavesOrder DEF Content
  <2>3. Len(received') <= produced /\ Unread' <= Size
    BY <1>5, <1>6, <1>7, <1>8
  <2> QED
    BY <1>3, <1>7, <1>8, <2>1, <2>2, <2>3 DEF Content, Waits, dspVars
<1>11. Published'
  BY <1>1, <1>3 DEF Published, regs, dspVars
<1>12. Apart'
  <2> SUFFICES ASSUME kind = "gap" PROVE Apart'
    BY <1>3 DEF Apart
  <2>1. /\ O_LOOP = 0 /\ hdl.loop = 0
        /\ Dist(O_R_ADDR, next_r) <= Dist(hdl.r_addr, next_r)
        /\ Dist(hdl.r_addr, next_r) + Unread < Size
        /\ Dist(next_r, O_W_ADDR) <= Unread
    BY <1>1 DEF Apart
  <2>2. /\ Dist(hdl.r_addr, next_r) \in Nat /\ Dist(next_r, O_W_ADDR) \in Nat
        /\ Dist(O_R_ADDR, next_r) \in Nat
    BY <1>5, DistNat
  <2>3. n \in 0 .. Dist(next_r, O_W_ADDR)
    BY <1>2, <1>4, <1>6, <2>2
  <2>4. /\ Dist(hdl.r_addr, next_r) + n < Size
        /\ Dist(O_R_ADDR, next_r) + n < Size
    BY <1>5, <1>6, <2>1, <2>2
  <2>5. /\ Dist(hdl.r_addr, next_r') = Dist(hdl.r_addr, next_r) + n
        /\ Dist(O_R_ADDR, next_r') = Dist(O_R_ADDR, next_r) + n
    BY <1>5, <1>6, <1>8, <2>4, DistFar
  <2>6. Dist(next_r', O_W_ADDR) = Dist(next_r, O_W_ADDR) - n
    BY <1>5, <1>8, <2>3, DistNear
  <2>7. /\ Dist(O_R_ADDR, next_r') <= Dist(hdl.r_addr, next_r')
        /\ Dist(hdl.r_addr, next_r') + Unread' < Size
        /\ Dist(next_r', O_W_ADDR) <= Unread'
    BY <1>5, <1>6, <1>8, <2>1, <2>2, <2>5, <2>6
  <2> QED
    BY <1>3, <2>1, <2>7 DEF Apart, Dist, regs, dspVars
<1>13. Turns'
  <2>1. Unread' < Size
    BY <1>5, <1>8
  <2> QED
    BY <1>1, <1>3, <2>1 DEF Turns, LoopTells, regs, dspVars
<1> QED
  BY <1>9, <1>10, <1>11, <1>12, <1>13 DEF RingInv

LEMMA HostSetRInv == RingInv /\ HostSetR => RingInv'
<1> SUFFICES ASSUME RingInv, HostSetR PROVE RingInv'
  OBVIOUS
<1>1. TypeOK /\ Content /\ Published /\ Apart /\ Turns
  BY DEF RingInv
<1>2. /\ host = "set_r" /\ host' = "clr_loop" /\ (kind = "turns" => dsp = "idle")
      /\ UNCHANGED kind /\ O_R_ADDR' = next_r
      /\ UNCHANGED <<O_W_ADDR, O_LOOP, dspVars, received, next_r>>
  BY DEF HostSetR, HostAt
<1> USE <1>2 DEF dspVars
<1>3. TypeOK'
  BY <1>1, Typed DEF TypeOK, Registers, Handles
<1>4. Content' /\ Published'
  BY <1>1 DEF Content, Unread, Waits, Published
<1>5. Apart'
  <2>1. next_r \in Addr /\ hdl.r_addr \in Addr
    BY <1>1, Typed
  <2>2. Dist(next_r, next_r) = 0 /\ 0 <= Dist(hdl.r_addr, next_r)
    BY <2>1, SizeAssumption DEF Dist, Addr
  <2>3. Dist(next_r, next_r) <= Dist(hdl.r_addr, next_r)
    BY <2>2
  <2> QED
    BY <1>1, <2>3 DEF Apart, Unread, Dist
<1>6. Turns'
  BY <1>1 DEF Turns, LoopTells, Unread
<1> QED
  BY <1>3, <1>4, <1>5, <1>6 DEF RingInv

LEMMA HostClrLoopInv == RingInv /\ HostClrLoop => RingInv'
<1> SUFFICES ASSUME RingInv, HostClrLoop PROVE RingInv'
  OBVIOUS
<1>1. TypeOK /\ Content /\ Published /\ Apart /\ Turns
  BY DEF RingInv
<1>2. /\ host = "clr_loop" /\ host' = "idle" /\ (kind = "turns" => dsp = "idle")
      /\ UNCHANGED kind /\ O_LOOP' = 0
      /\ UNCHANGED <<O_R_ADDR, O_W_ADDR, dspVars, received, next_r>>
  BY DEF HostClrLoop, HostAt
<1> USE <1>2 DEF dspVars
<1>3. TypeOK'
  BY <1>1, Typed DEF TypeOK, Registers, Handles, Flag
<1>4. Content' /\ Published'
  BY <1>1 DEF Content, Unread, Waits, Published
<1>5. Apart'
  BY <1>1 DEF Apart, Unread, Dist
<1>6. Turns'
  <2>1. Unread \in Nat /\ Size \in Nat
    BY <1>1, Typed DEF Content, Unread
  <2> QED
    BY <1>1, <2>1 DEF Turns, LoopTells, Unread
<1> QED
  BY <1>3, <1>4, <1>5, <1>6 DEF RingInv

-----------------------------------------------------------------------------
\* The types are kept whatever the ring holds.
LEMMA NextType == TypeOK /\ [Next]_vars => TypeOK'
<1> SUFFICES ASSUME TypeOK, [Next]_vars PROVE TypeOK'
  OBVIOUS
<1> USE Typed
<1>1. CASE UNCHANGED vars
  BY <1>1 DEF vars, regs, dspVars, hostVars, TypeOK, Registers
<1>2. CASE FromR \/ FromLoop
  <2>1. /\ hdl' \in Handles /\ dsp' \in {"from_loop", "decode"}
        /\ UNCHANGED <<regs, mem, produced, crowded, hostVars>>
    BY <1>2 DEF FromR, FromLoop, DspAt, Handles
  <2> QED
    BY <2>1 DEF TypeOK, Registers, regs, hostVars
<1>3. CASE Decode
  <2>1. /\ dsp' = "to_w" /\ UNCHANGED <<regs, hostVars>>
    BY <1>3 DEF Decode, DspAt
  <2>2. CASE UNCHANGED <<mem, hdl, produced, crowded>>
    BY <2>1, <2>2 DEF TypeOK, Registers, regs, hostVars
  <2>3. ASSUME NEW n \in Frames,
               produced + n <= MaxBytes,
               mem' = WithBytes(mem, hdl.w_addr, [i \in 1 .. n |-> produced + i]),
               hdl' = AfterWrite(hdl, n),
               produced' = produced + n,
               crowded' = (crowded \/ ~ HasRoom(n))
        PROVE  TypeOK'
    <3>1. n \in 1 .. Size /\ n \in Nat
      OBVIOUS
    <3>2. hdl' \in Handles
      BY <2>3, <3>1, AfterWriteFields
    <3>3. [i \in 1 .. n |-> produced + i] \in Seq(0 .. MaxBytes)
      <4>1. \A i \in 1 .. n : produced + i \in 0 .. MaxBytes
        BY <2>3, <3>1
      <4> QED
        BY <3>1, <4>1
    <3>4. mem' \in [Addr -> 0 .. MaxBytes]
      BY <2>3, <3>3, WriteType DEF TypeOK
    <3>5. produced' \in 0 .. MaxBytes /\ crowded' \in BOOLEAN
      BY <2>3, <3>1
    <3> QED
      BY <2>1, <3>2, <3>4, <3>5 DEF TypeOK, Registers, regs, hostVars
  <2> QED
    BY <1>3, <2>2, <2>3 DEF Decode
<1>4. CASE ToW \/ ToLoop
  <2>1. /\ Registers' \in Handles /\ dsp' \in {"to_loop", "idle"}
        /\ UNCHANGED <<mem, hdl, produced, crowded, hostVars>>
    BY <1>4 DEF ToW, ToLoop, DspAt, Registers, Handles, Flag
  <2> QED
    BY <2>1 DEF TypeOK, hostVars
<1>5. CASE HostRead
  <2>1. PICK n \in 1 .. FillLen(Registers) :
            /\ received' = received \o BytesAt(mem, O_R_ADDR, n)
            /\ next_r' = Forward(O_R_ADDR, n)
    BY <1>5 DEF HostRead
  <2>2. /\ host' = "set_r" /\ UNCHANGED <<kind, regs, dspVars>>
    BY <1>5 DEF HostRead, HostAt
  <2>3. n \in 1 .. Size /\ n \in 0 .. Size
    BY FillType
  <2>4. next_r' \in Addr
    BY <2>1, <2>3, ForwardAddr
  <2>5. BytesAt(mem, O_R_ADDR, n) \in Seq(0 .. MaxBytes)
    <3>1. \A i \in 1 .. n : Forward(O_R_ADDR, i - 1) \in Addr
      BY <2>3, ForwardAddr
    <3>2. \A i \in 1 .. n : BytesAt(mem, O_R_ADDR, n)[i] = mem[Forward(O_R_ADDR, i - 1)]
      BY <2>3, ReadsAt
    <3>3. \A i \in 1 .. n : BytesAt(mem, O_R_ADDR, n)[i] \in 0 .. MaxBytes
      BY <3>1, <3>2 DEF TypeOK
    <3> QED
      BY <2>3, <3>3 DEF BytesAt
  <2>6. received' \in Seq(0 .. MaxBytes)
    BY <2>1, <2>5 DEF TypeOK
  <2> QED
    BY <2>2, <2>4, <2>6 DEF TypeOK, Registers, regs, dspVars
<1>6. CASE HostSetR \/ HostClrLoop
  <2>1. /\ Registers' \in Handles /\ host' \in {"clr_loop", "idle"}
        /\ UNCHANGED <<kind, dspVars, received, next_r>>
    BY <1>6 DEF HostSetR, HostClrLoop, HostAt, Registers, Handles, Flag
  <2> QED
    BY <2>1 DEF TypeOK, dspVars
<1> QED
  BY <1>1, <1>2, <1>3, <1>4, <1>5, <1>6 DEF Next, Dsp, Host

\* Once crowded, always crowded.
LEMMA CrowdedStays == TypeOK /\ [Next]_vars /\ crowded => crowded'
<1> SUFFICES ASSUME TypeOK, [Next]_vars, crowded PROVE crowded'
  OBVIOUS
<1>1. CASE Decode
  BY <1>1 DEF Decode
<1>2. CASE ~ Decode
  <2>1. UNCHANGED crowded
    BY <1>2 DEF Next, Dsp, Host, FromR, FromLoop, ToW, ToLoop, HostRead, HostSetR,
                HostClrLoop, vars, dspVars
  <2> QED
    BY <2>1
<1> QED
  BY <1>1, <1>2

LEMMA NextInv == RingInv /\ [Next]_vars /\ ~ crowded' => RingInv'
<1> SUFFICES ASSUME RingInv, [Next]_vars, ~ crowded' PROVE RingInv'
  OBVIOUS
<1>1. CASE UNCHANGED vars
  <2> USE <1>1 DEF vars, regs, dspVars, hostVars
  <2>1. TypeOK'
    BY DEF RingInv, TypeOK, Registers
  <2>2. Content' /\ Published'
    BY DEF RingInv, Content, Unread, Waits, Published
  <2>3. Apart' /\ Turns'
    BY DEF RingInv, Apart, Dist, Turns, LoopTells, Unread
  <2> QED
    BY <2>1, <2>2, <2>3 DEF RingInv
<1>2. CASE Dsp
  BY <1>2, FromRInv, FromLoopInv, DecodeInv, ToWInv, ToLoopInv DEF Dsp
<1>3. CASE Host
  BY <1>3, HostReadInv, HostSetRInv, HostClrLoopInv DEF Host
<1> QED
  BY <1>1, <1>2, <1>3 DEF Next

THEOREM RingAlways == Spec => []Always
<1>1. Init => Always
  BY InitInv DEF Always, RingInv
<1>2. Always /\ [Next]_vars => Always'
  BY NextType, CrowdedStays, NextInv DEF Always
<1> QED
  BY <1>1, <1>2, PTL DEF Spec

\* Every register, pointer and byte keeps its type, whether the frames have room
\* or not; the pointers stay inside the ring.
THEOREM OutTyped == Spec => []TypeOK
<1>1. Always => TypeOK
  BY DEF Always
<1> QED
  BY RingAlways, <1>1, PTL

\* As long as the frames have room, the host receives the stream as the codec
\* wrote it, none of it run over.
THEOREM OutOrdered == Spec => []InOrder
<1>1. Always => InOrder
  BY DEF Always, RingInv, Content, InOrder
<1> QED
  BY RingAlways, <1>1, PTL

\* As long as the frames have room, and with both sides at rest, the registers
\* tell how many bytes wait.
THEOREM OutRegistersTell == Spec => []RegistersTell
<1>1. ASSUME RingInv, dsp = "idle", host = "idle"
      PROVE  FillLen(Registers) = produced - Len(received)
  <2>1. TypeOK /\ Content /\ Published /\ Apart /\ kind \in {"gap", "turns"}
    BY <1>1, Typed DEF RingInv
  <2>2. /\ Unread \in 0 .. Size /\ next_r \in Addr /\ hdl.r_addr \in Addr
        /\ Size \in Nat \ {0} /\ O_W_ADDR = Forward(next_r, Unread)
    BY <1>1, <2>1, Typed DEF Content, Unread, Published
  <2>3. CASE kind = "gap"
    <3>1. Dist(hdl.r_addr, next_r) \in Nat /\ Dist(hdl.r_addr, next_r) + Unread < Size
      BY <2>1, <2>2, <2>3, DistNat DEF Apart
    <3>2. Unread \in 0 .. Size - 1
      BY <2>2, <3>1
    <3>3. Dist(next_r, O_W_ADDR) = Unread
      BY <2>2, <3>2, DistForward
    <3> QED
      BY <1>1, <2>3, <3>3, FillTrue DEF Unread
  <2>4. CASE kind = "turns"
    BY <1>1, <2>4, FillTrue DEF Unread
  <2> QED
    BY <2>1, <2>3, <2>4
<1>2. Always => RegistersTell
  BY <1>1 DEF Always, RegistersTell
<1> QED
  BY RingAlways, <1>2, PTL

-----------------------------------------------------------------------------
(* The ring implements Fifo                                                *)

\* The bytes that are published and not read are the next ones of the stream.
PendingTells ==
    /\ Unpublished \in 0 .. Unread
    /\ kind = "gap" => Unread - Unpublished = Dist(next_r, O_W_ADDR)
    /\ Pending = Numbers(Len(received), Unread - Unpublished)

LEMMA PendingIs == RingInv => PendingTells
<1> SUFFICES ASSUME RingInv PROVE PendingTells
  OBVIOUS
<1>1. TypeOK /\ Content /\ Published /\ Apart /\ Turns
  BY DEF RingInv
<1>2. /\ next_r \in Addr /\ O_W_ADDR \in Addr /\ hdl.w_addr \in Addr /\ hdl.r_addr \in Addr
      /\ Unread \in 0 .. Size /\ Size \in Nat \ {0} /\ kind \in {"gap", "turns"}
      /\ Len(received) \in Nat /\ produced \in Nat
      /\ hdl.w_addr = Forward(next_r, Unread)
  BY <1>1, Typed DEF Content, Unread
<1>3. Unpublished = IF dsp # "to_w" THEN 0 ELSE Dist(O_W_ADDR, hdl.w_addr)
  BY DEF Unpublished, Dist
<1>4. /\ kind = "gap" => Unread \in 0 .. Size - 1 /\ Dist(next_r, O_W_ADDR) \in 0 .. Unread
  <2> SUFFICES ASSUME kind = "gap"
               PROVE  Unread \in 0 .. Size - 1 /\ Dist(next_r, O_W_ADDR) \in 0 .. Unread
    OBVIOUS
  <2>1. Dist(hdl.r_addr, next_r) + Unread < Size /\ Dist(next_r, O_W_ADDR) <= Unread
    BY <1>1 DEF Apart
  <2>2. Dist(hdl.r_addr, next_r) \in Nat /\ Dist(next_r, O_W_ADDR) \in Nat
    BY <1>2, DistNat
  <2> QED
    BY <1>2, <2>1, <2>2
<1>5. Unpublished \in 0 .. Unread /\ (kind = "gap" => Unread - Unpublished = Dist(next_r, O_W_ADDR))
  <2>1. CASE dsp # "to_w"
    <3>1. O_W_ADDR = Forward(next_r, Unread)
      BY <1>1, <1>2, <2>1 DEF Published
    <3>2. kind = "gap" => Dist(next_r, O_W_ADDR) = Unread
      BY <1>2, <1>4, <3>1, DistForward
    <3> QED
      BY <1>2, <1>3, <2>1, <3>2
  <2>2. CASE dsp = "to_w" /\ kind = "gap"
    <3>1. O_W_ADDR = Forward(next_r, Dist(next_r, O_W_ADDR))
      BY <1>2, ForwardDist
    <3> DEFINE d == Dist(next_r, O_W_ADDR)
    <3>2. d \in 0 .. Unread /\ Unread \in 0 .. Size - 1
      BY <1>4, <2>2
    <3> HIDE DEF d
    <3>3. Dist(Forward(next_r, d), Forward(next_r, Unread)) = Unread - d
      BY <1>2, <3>2 DEF Dist, Forward, Addr
    <3>4. Unpublished = Unread - d
      BY <1>2, <1>3, <2>2, <3>1, <3>3 DEF d
    <3>5. Unpublished \in 0 .. Unread /\ Unread - Unpublished = d
      BY <1>2, <3>2, <3>4
    <3> QED
      BY <3>5 DEF d
  <2>3. CASE dsp = "to_w" /\ kind = "turns"
    <3>1. Dist(O_W_ADDR, hdl.w_addr) <= Unread
      BY <1>1, <2>3 DEF Turns
    <3>2. Dist(O_W_ADDR, hdl.w_addr) \in Nat
      BY <1>2, DistNat
    <3> QED
      BY <1>2, <1>3, <2>3, <3>1, <3>2
  <2> QED
    BY <1>2, <2>1, <2>2, <2>3
<1>6. Pending = Numbers(Len(received), Unread - Unpublished)
  <2>1. /\ Unread - Unpublished \in 0 .. Unread
        /\ produced - Unpublished - Len(received) = Unread - Unpublished
    BY <1>2, <1>5 DEF Unread
  <2>2. BytesAt(mem, next_r, Unread - Unpublished)
            = Numbers(Len(received), Unread - Unpublished)
    BY <1>1, <1>2, <2>1, ReadInOrder DEF Content
  <2> QED
    BY <2>1, <2>2 DEF Pending
<1> QED
  BY <1>5, <1>6 DEF PendingTells

LEMMA PendingIsNext == RingInv' => PendingTells'
BY PendingIs, PTL

\* The DSP's store of W puts the bytes it wrote into the queue, if it wrote any.
LEMMA ToWPuts ==
    ASSUME RingInv, RingInv', ToW
    PROVE  Queue!Put \/ UNCHANGED Pending
<1>1. TypeOK /\ Content
  BY DEF RingInv
<1>2. /\ dsp = "to_w" /\ dsp' = "to_loop" /\ UNCHANGED <<hdl, received, mem, produced>>
  BY DEF ToW, DspAt, hostVars
<1>3. Unread' = Unread /\ Unpublished' = 0 /\ received' = received
  BY <1>2 DEF Unread, Unpublished
<1>4. /\ Unpublished \in 0 .. Unread /\ Unread \in 0 .. Size /\ Size \in Nat
      /\ Len(received) \in Nat /\ produced \in Nat /\ produced = Len(received) + Unread
      /\ produced <= MaxBytes /\ MaxBytes \in Nat
  BY <1>1, Typed, PendingIs DEF Content, Unread, PendingTells
<1>5. Pending = Numbers(Len(received), Unread - Unpublished)
  BY PendingIs DEF PendingTells
<1>6. Pending' = Numbers(Len(received), Unread)
  <2>1. Pending' = Numbers(Len(received'), Unread' - Unpublished')
    BY PendingIsNext DEF PendingTells
  <2>2. Unread - 0 = Unread
    BY <1>4
  <2> QED
    BY <1>3, <2>1, <2>2
<1>7. CASE Unpublished = 0
  <2>1. Unread - Unpublished = Unread
    BY <1>4, <1>7
  <2> QED
    BY <1>5, <1>6, <2>1
<1>8. CASE Unpublished # 0
  <2> DEFINE p == Unread - Unpublished
  <2>1. p \in 0 .. Unread /\ p < Unread /\ Unread \in Nat /\ p \in Nat
    BY <1>4, <1>8
  <2>2. Len(Numbers(Len(received), p)) = p
    BY <1>4, <2>1, NumbersLen
  <2>3. Len(Numbers(Len(received), Unread)) = Unread
    BY <1>4, <2>1, NumbersLen
  <2>4. Len(Pending) = p /\ Len(Pending') = Unread
    BY <1>5, <1>6, <2>2, <2>3
  <2>5. Pending' \in Seq(1 .. MaxBytes)
    <3>1. \A i \in 1 .. Unread : Len(received) + i \in 1 .. MaxBytes
      BY <1>4
    <3> QED
      BY <1>6, <2>1, <3>1 DEF Numbers
  <2>6. SubSeq(Pending', 1, p) = Pending
    BY <1>4, <1>5, <1>6, <2>1, FirstNumbers
  <2>7. Len(Pending') \in Len(Pending) + 1 .. Size
    BY <1>4, <2>1, <2>4
  <2> QED
    BY <2>4, <2>5, <2>6, <2>7 DEF Queue!Put
<1> QED
  BY <1>7, <1>8

\* The host's read takes bytes from the queue.
LEMMA ReadTakes ==
    ASSUME RingInv, RingInv', HostRead
    PROVE  Queue!Take
<1>1. TypeOK /\ Content /\ Turns /\ Published
  BY DEF RingInv
<1>2. PICK n \in 1 .. FillLen(Registers) :
          received' = received \o BytesAt(mem, O_R_ADDR, n)
  BY DEF HostRead
<1>3. /\ host = "idle" /\ (kind = "turns" => dsp = "idle")
      /\ UNCHANGED kind /\ UNCHANGED <<regs, dspVars>>
  BY DEF HostRead, HostAt
<1>4. /\ Unread \in 0 .. Size /\ Len(received) \in Nat /\ produced \in Nat
      /\ produced = Len(received) + Unread /\ O_R_ADDR = next_r /\ next_r \in Addr
      /\ Size \in Nat \ {0} /\ MaxBytes \in Nat /\ produced <= MaxBytes
      /\ kind \in {"gap", "turns"}
  BY <1>1, <1>3, Typed DEF Content, Unread, Published
<1>5. /\ FillLen(Registers) \in 0 .. Unread
      /\ kind = "gap" => FillLen(Registers) = Dist(next_r, O_W_ADDR)
  BY <1>3, FillTrue
<1> DEFINE p == Unread - Unpublished
<1>6. p \in 0 .. Unread /\ p \in Nat
  BY <1>4, PendingIs DEF PendingTells
<1>7. FillLen(Registers) <= p
  <2>1. CASE kind = "gap"
    BY <1>4, <1>5, <1>6, <2>1, PendingIs DEF PendingTells
  <2>2. CASE kind = "turns"
    BY <1>3, <1>4, <1>5, <2>2 DEF Unpublished
  <2> QED
    BY <1>4, <2>1, <2>2
<1>8. n \in 0 .. Unread /\ n \in Nat /\ n \in 0 .. p /\ n \in 1 .. p
  BY <1>4, <1>5, <1>6, <1>7
<1>9. Len(received') = Len(received) + n
  <2>1. BytesAt(mem, next_r, n) = Numbers(Len(received), n)
    BY <1>1, <1>4, <1>8, ReadInOrder DEF Content
  <2>2. received' = received \o Numbers(Len(received), n)
    BY <1>2, <1>4, <2>1
  <2>3. received \in Seq(0 .. MaxBytes) /\ MaxBytes \in Nat /\ n \in Nat
        /\ Len(received) + n <= MaxBytes /\ \A i \in 1 .. Len(received) : received[i] = i
    BY <1>1, <1>4, <1>8 DEF TypeOK, Content
  <2> QED
    BY <2>2, <2>3, AppendInOrder
<1>10. Unread' - Unpublished' = p - n
  <2>1. Unread' = Unread - n /\ Unpublished' = Unpublished
    BY <1>3, <1>4, <1>8, <1>9 DEF Unread, Unpublished, regs, dspVars
  <2> QED
    BY <1>4, <1>6, <1>8, <2>1, PendingIs DEF PendingTells
<1>11. Pending = Numbers(Len(received), p)
  BY PendingIs DEF PendingTells
<1>12. Pending' = Numbers(Len(received) + n, p - n)
  <2>1. Pending' = Numbers(Len(received'), Unread' - Unpublished')
    BY PendingIsNext DEF PendingTells
  <2> QED
    BY <1>9, <1>10, <2>1
<1> HIDE DEF p
<1>13. Len(Pending) = p
  BY <1>4, <1>6, <1>11, NumbersLen
<1>14. SubSeq(Pending, n + 1, p) = Pending'
  BY <1>4, <1>6, <1>8, <1>11, <1>12, LastNumbers
<1>15. Pending' = SubSeq(Pending, n + 1, Len(Pending)) /\ n \in 1 .. Len(Pending)
  BY <1>8, <1>13, <1>14
<1> QED
  BY <1>15 DEF Queue!Take

\* No other step changes the queue.
LEMMA OthersKeep ==
    ASSUME RingInv, RingInv',
           FromR \/ FromLoop \/ Decode \/ ToLoop \/ HostSetR \/ HostClrLoop \/ UNCHANGED vars
    PROVE  UNCHANGED Pending
<1>1. /\ Pending = Numbers(Len(received), Unread - Unpublished)
      /\ Pending' = Numbers(Len(received'), Unread' - Unpublished')
  BY PendingIs, PendingIsNext DEF PendingTells
<1>2. CASE Decode
  <2>1. /\ dsp = "decode" /\ dsp' = "to_w" /\ UNCHANGED <<regs, hostVars>>
    BY <1>2 DEF Decode, DspAt
  <2>2. /\ TypeOK /\ hdl \in Handles /\ hdl.w_addr \in Addr /\ O_W_ADDR = hdl.w_addr
        /\ Size \in Nat \ {0} /\ produced \in Nat /\ Len(received) \in Nat
        /\ Frames \subseteq 1 .. Size - 1
    BY <2>1, Typed DEF RingInv, Published
  <2>3. Unpublished = 0
    BY <2>1 DEF Unpublished
  <2>4. Unpublished' = Dist(O_W_ADDR, hdl'.w_addr)
    BY <2>1 DEF Unpublished, Dist, regs
  <2>5. CASE UNCHANGED <<mem, hdl, produced, crowded>>
    <3>1. Unpublished' = 0
      BY <2>2, <2>4, <2>5 DEF Dist, Addr
    <3> QED
      BY <1>1, <2>1, <2>3, <2>5, <3>1 DEF Unread, hostVars
  <2>6. ASSUME NEW n \in Frames, hdl' = AfterWrite(hdl, n), produced' = produced + n
        PROVE  UNCHANGED Pending
    <3>1. n \in 0 .. Size - 1 /\ n \in 1 .. Size /\ n \in Nat
      BY <2>2
    <3>2. hdl'.w_addr = Forward(hdl.w_addr, n)
      BY <2>2, <2>6, <3>1, AfterWriteFields
    <3>3. Unpublished' = n
      BY <2>2, <2>4, <3>1, <3>2, DistForward
    <3>4. Unread' - Unpublished' = Unread - Unpublished
      BY <2>1, <2>2, <2>3, <2>6, <3>1, <3>3 DEF Unread, hostVars
    <3> QED
      BY <1>1, <2>1, <3>4 DEF hostVars
  <2> QED
    BY <1>2, <2>5, <2>6 DEF Decode
<1>3. CASE FromR \/ FromLoop \/ ToLoop
  <2>1. /\ dsp # "to_w" /\ dsp' # "to_w" /\ UNCHANGED <<produced, received>>
    BY <1>3 DEF FromR, FromLoop, ToLoop, DspAt, hostVars
  <2> QED
    BY <1>1, <2>1 DEF Unread, Unpublished
<1>4. CASE HostSetR \/ HostClrLoop \/ UNCHANGED vars
  <2>1. UNCHANGED <<produced, received, dsp, hdl, O_W_ADDR>>
    BY <1>4 DEF HostSetR, HostClrLoop, HostAt, vars, regs, hostVars, dspVars
  <2> QED
    BY <1>1, <2>1 DEF Unread, Unpublished
<1> QED
  BY <1>2, <1>3, <1>4

\* The ring is a first-in first-out queue, for any size and any interleaving, up
\* to the first frame that there is no room for.
THEOREM OutImplementsFifo == Spec => IsFifo
<1>1. Init => Queue!Init
  <2> SUFFICES ASSUME Init PROVE Queue!Init
    OBVIOUS
  <2>1. Len(received) = 0 /\ Unpublished = 0 /\ Unread = 0
    <3>1. Len(received) = 0 /\ produced = 0 /\ dsp = "idle"
      BY DEF Init
    <3> QED
      BY <3>1 DEF Unpublished, Unread
  <2>2. Pending = Numbers(0, 0)
    BY <2>1, InitInv, PendingIs DEF PendingTells
  <2> QED
    BY <2>2 DEF Queue!Init, Numbers
<1>2. Always /\ Always' /\ [Next]_vars => [~ crowded' => Queue!Next]_Pending
  <2> SUFFICES ASSUME Always, Always', [Next]_vars, ~ crowded'
               PROVE  Queue!Next \/ UNCHANGED Pending
    OBVIOUS
  <2>1. RingInv /\ RingInv'
    BY CrowdedStays DEF Always
  <2> QED
    BY <2>1, ToWPuts, ReadTakes, OthersKeep DEF Next, Dsp, Host, Queue!Next
<1> QED
  BY <1>1, <1>2, RingAlways, PTL DEF Spec, IsFifo
=============================================================================
