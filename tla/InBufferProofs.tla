--------------------------- MODULE InBufferProofs ---------------------------
(***************************************************************************)
(* Theorems about InBuffer, for a ring of any size, any frame lengths that *)
(* fit it and streams of any length, and for hosts that leave a byte free  *)
(* or take turns with the DSP.                                             *)
(***************************************************************************)
EXTENDS InBuffer, OsBufferProofs

\* The frames and the hosts that the ring works for: with the others
\* InBufferShort.cfg and InBufferBrim.cfg show it fail.
Covered == Frames \subseteq 1 .. Size /\ Hosts \subseteq {"gap", "turns"}

\* Bytes the host has stored and the DSP has not read.
Unread == written - Len(taken)

\* Where the bytes that the host has stored end.
WEnd == IF host = "set_w" THEN next_w ELSE I_W_ADDR

\* The ring from the DSP's R on: the unread bytes, in order.
Content ==
    /\ Len(taken) <= written /\ Unread <= Size
    /\ \A i \in 1 .. Len(taken) : taken[i] = i
    /\ WEnd = Forward(hdl.r_addr, Unread)
    /\ Waits(mem, hdl.r_addr, Len(taken), Unread)

\* I_R_ADDR only lags behind the handle between the read and its publication.
Published == dsp # "to_r" => I_R_ADDR = hdl.r_addr

\* EOF is never seen before it was set.
EofIsEnd == (I_EOF = 1 => closed) /\ (hdl.eof = 1 => closed)

\* With a byte left free LOOP is never needed, and going round the ring from the
\* published R one meets the handle's R, the handle's W, W and the host, in that
\* order and without coming back to where one began.
Apart ==
    kind = "gap" =>
        /\ I_LOOP = 0 /\ hdl.loop = 0 /\ ~ fills /\ host # "set_loop"
        /\ Dist(hdl.r_addr, hdl.w_addr) <= Dist(hdl.r_addr, I_W_ADDR)
        /\ Dist(hdl.r_addr, I_W_ADDR) <= Unread
        /\ Dist(I_R_ADDR, hdl.r_addr) + Unread < Size

LoopTells(loop) == loop = IF Unread = Size THEN 1 ELSE 0

\* When the sides take turns, what either of them works with is up to date.
Turns ==
    kind = "turns" =>
        /\ dsp # "idle" => host = "idle" /\ hdl.w_addr = I_W_ADDR
        /\ host = "idle" /\ dsp \notin {"to_r", "to_loop"} => LoopTells(I_LOOP)
        /\ dsp \in {"from_eof", "encode", "to_r", "to_loop"} => LoopTells(hdl.loop)
        /\ host # "idle" => I_LOOP = 0
        /\ host = "set_w" => (fills <=> Unread = Size)
        /\ host = "set_loop" => Unread = Size
        /\ state = "DATA_EOF" => closed /\ Unread < need

\* The inductive invariant.
RingInv == Covered /\ TypeOK /\ Content /\ Published /\ EofIsEnd /\ Apart /\ Turns

-----------------------------------------------------------------------------
\* The constants and the registers as the proofs use them.
LEMMA Typed ==
    ASSUME Covered, TypeOK
    PROVE  /\ Size \in Nat /\ Size > 0 /\ MaxBytes \in Nat /\ Frames \subseteq 1 .. Size
           /\ I_R_ADDR \in Addr /\ I_W_ADDR \in Addr /\ I_LOOP \in Flag /\ I_EOF \in Flag
           /\ hdl.r_addr \in Addr /\ hdl.w_addr \in Addr /\ hdl.loop \in Flag
           /\ hdl.eof \in Flag
           /\ need \in 1 .. Size /\ written \in Nat /\ written <= MaxBytes
           /\ Len(taken) \in Nat /\ Registers \in Handles /\ hdl \in Handles
           /\ next_w \in Addr
           /\ Registers.r_addr = I_R_ADDR /\ Registers.w_addr = I_W_ADDR
           /\ Registers.loop = I_LOOP /\ Registers.eof = I_EOF
<1>1. Registers \in Handles /\ hdl \in Handles /\ need \in Frames
  BY DEF TypeOK
<1>2. /\ Registers.r_addr = I_R_ADDR /\ Registers.w_addr = I_W_ADDR
      /\ Registers.loop = I_LOOP /\ Registers.eof = I_EOF
  BY DEF Registers
<1>3. /\ I_R_ADDR \in Addr /\ I_W_ADDR \in Addr /\ I_LOOP \in Flag /\ I_EOF \in Flag
      /\ hdl.r_addr \in Addr /\ hdl.w_addr \in Addr /\ hdl.loop \in Flag
      /\ hdl.eof \in Flag
  BY <1>1, <1>2 DEF Handles
<1>4. written \in Nat /\ written <= MaxBytes /\ Len(taken) \in Nat /\ next_w \in Addr
  BY InAssumption DEF TypeOK, Covered
<1>5. need \in 1 .. Size /\ Frames \subseteq 1 .. Size
  BY <1>1, InAssumption DEF Covered
<1> QED
  BY <1>1, <1>2, <1>3, <1>4, <1>5, SizeAssumption, InAssumption

LEMMA InitInv == Covered /\ Init => RingInv
<1> SUFFICES ASSUME Covered, Init PROVE RingInv
  OBVIOUS
<1> USE SizeAssumption, InAssumption
<1>1. 0 \in Addr /\ Forward(0, 0) = 0 /\ Dist(0, 0) = 0
  BY DEF Addr, Forward, Dist
<1>2. TypeOK
  <2>1. Registers \in Handles /\ hdl \in Handles
    BY <1>1 DEF Init, Registers, Handles, Opened, Flag
  <2>2. mem \in [Addr -> 0 .. MaxBytes] /\ taken \in Seq(0 .. MaxBytes)
    BY DEF Init
  <2> QED
    BY <1>1, <2>1, <2>2 DEF Init, TypeOK
<1>3. /\ Len(taken) = 0 /\ Unread = 0 /\ WEnd = 0
      /\ hdl.r_addr = 0 /\ hdl.w_addr = 0 /\ hdl.loop = 0 /\ hdl.eof = 0
  <2>1. Len(taken) = 0 /\ written = 0 /\ I_W_ADDR = 0 /\ host = "idle"
    BY DEF Init
  <2>2. hdl.r_addr = 0 /\ hdl.w_addr = 0 /\ hdl.loop = 0 /\ hdl.eof = 0
    BY DEF Init, Opened
  <2> QED
    BY <2>1, <2>2 DEF Unread, WEnd
<1>4. Content
  BY <1>1, <1>3 DEF Init, Content, Waits
<1>5. Published /\ EofIsEnd
  BY <1>3 DEF Init, Published, EofIsEnd
<1>6. Apart
  BY <1>1, <1>3 DEF Init, Apart
<1>7. Turns
  BY <1>3 DEF Init, Turns, LoopTells
<1> QED
  BY <1>2, <1>4, <1>5, <1>6, <1>7 DEF RingInv

-----------------------------------------------------------------------------
(* Copying registers into the handle                                       *)

LEMMA FromWInv == RingInv /\ FromW => RingInv'
<1> SUFFICES ASSUME RingInv, FromW PROVE RingInv'
  OBVIOUS
<1>1. Covered /\ TypeOK /\ Content /\ Published /\ EofIsEnd /\ Apart /\ Turns
  BY DEF RingInv
<1>2. /\ hdl'.r_addr = hdl.r_addr /\ hdl'.w_addr = I_W_ADDR
      /\ hdl'.loop = hdl.loop /\ hdl'.eof = hdl.eof /\ hdl' \in Handles
      /\ dsp = "idle" /\ dsp' = "from_loop" /\ (kind = "turns" => host = "idle")
      /\ UNCHANGED <<regs, need, state, taken, hostVars>>
  BY <1>1, Typed DEF FromW, DspAt, Handles
<1> USE <1>2 DEF regs, hostVars
<1>3. TypeOK'
  BY <1>1 DEF TypeOK, Registers
<1>4. Content' /\ Published' /\ EofIsEnd'
  BY <1>1 DEF Content, Unread, WEnd, Waits, Published, EofIsEnd
<1>5. Apart'
  BY <1>1, Typed DEF Apart, Unread, Dist, Addr
<1>6. Turns'
  BY <1>1 DEF Turns, LoopTells, Unread
<1> QED
  BY <1>3, <1>4, <1>5, <1>6 DEF RingInv

LEMMA FromLoopInv == RingInv /\ FromLoop => RingInv'
<1> SUFFICES ASSUME RingInv, FromLoop PROVE RingInv'
  OBVIOUS
<1>1. Covered /\ TypeOK /\ Content /\ Published /\ EofIsEnd /\ Apart /\ Turns
  BY DEF RingInv
<1>2. /\ hdl'.r_addr = hdl.r_addr /\ hdl'.w_addr = hdl.w_addr
      /\ hdl'.loop = I_LOOP /\ hdl'.eof = hdl.eof /\ hdl' \in Handles
      /\ dsp = "from_loop" /\ dsp' = "from_eof"
      /\ UNCHANGED <<regs, need, state, taken, hostVars>>
  BY <1>1, Typed DEF FromLoop, DspAt, Handles
<1> USE <1>2 DEF regs, hostVars
<1>3. TypeOK'
  BY <1>1 DEF TypeOK, Registers
<1>4. Content' /\ Published' /\ EofIsEnd'
  BY <1>1 DEF Content, Unread, WEnd, Waits, Published, EofIsEnd
<1>5. Apart'
  BY <1>1 DEF Apart, Unread, Dist
<1>6. Turns'
  BY <1>1 DEF Turns, LoopTells, Unread
<1> QED
  BY <1>3, <1>4, <1>5, <1>6 DEF RingInv

LEMMA FromEofInv == RingInv /\ FromEof => RingInv'
<1> SUFFICES ASSUME RingInv, FromEof PROVE RingInv'
  OBVIOUS
<1>1. Covered /\ TypeOK /\ Content /\ Published /\ EofIsEnd /\ Apart /\ Turns
  BY DEF RingInv
<1>2. /\ hdl'.r_addr = hdl.r_addr /\ hdl'.w_addr = hdl.w_addr
      /\ hdl'.loop = hdl.loop /\ hdl'.eof = I_EOF /\ hdl' \in Handles
      /\ dsp = "from_eof" /\ dsp' = "encode"
      /\ UNCHANGED <<regs, need, state, taken, hostVars>>
  BY <1>1, Typed DEF FromEof, DspAt, Handles
<1> USE <1>2 DEF regs, hostVars
<1>3. TypeOK'
  BY <1>1 DEF TypeOK, Registers
<1>4. Content' /\ Published' /\ EofIsEnd'
  BY <1>1 DEF Content, Unread, WEnd, Waits, Published, EofIsEnd
<1>5. Apart'
  BY <1>1 DEF Apart, Unread, Dist
<1>6. Turns'
  BY <1>1 DEF Turns, LoopTells, Unread
<1> QED
  BY <1>3, <1>4, <1>5, <1>6 DEF RingInv

-----------------------------------------------------------------------------
(* Storing the handle back                                                 *)

LEMMA ToRInv == RingInv /\ ToR => RingInv'
<1> SUFFICES ASSUME RingInv, ToR PROVE RingInv'
  OBVIOUS
<1>1. Covered /\ TypeOK /\ Content /\ Published /\ EofIsEnd /\ Apart /\ Turns
  BY DEF RingInv
<1>2. /\ I_R_ADDR' = hdl.r_addr /\ dsp = "to_r" /\ dsp' = "to_loop"
      /\ UNCHANGED <<I_W_ADDR, I_LOOP, I_EOF, hdl, need, state, taken, hostVars>>
  BY DEF ToR, DspAt
<1> USE <1>2 DEF hostVars
<1>3. TypeOK'
  BY <1>1, Typed DEF TypeOK, Registers, Handles
<1>4. Content' /\ Published' /\ EofIsEnd'
  BY <1>1 DEF Content, Unread, WEnd, Waits, Published, EofIsEnd
<1>5. Apart'
  BY <1>1, Typed, SMTT(30) DEF Apart, Unread, Dist, Addr
<1>6. Turns'
  BY <1>1 DEF Turns, LoopTells, Unread
<1> QED
  BY <1>3, <1>4, <1>5, <1>6 DEF RingInv

LEMMA ToLoopInv == RingInv /\ ToLoop => RingInv'
<1> SUFFICES ASSUME RingInv, ToLoop PROVE RingInv'
  OBVIOUS
<1>1. Covered /\ TypeOK /\ Content /\ Published /\ EofIsEnd /\ Apart /\ Turns
  BY DEF RingInv
<1>2. /\ I_LOOP' = hdl.loop /\ dsp = "to_loop" /\ dsp' = "to_eof"
      /\ UNCHANGED <<I_R_ADDR, I_W_ADDR, I_EOF, hdl, need, state, taken, hostVars>>
  BY DEF ToLoop, DspAt
<1> USE <1>2 DEF hostVars
<1>3. TypeOK'
  BY <1>1, Typed DEF TypeOK, Registers, Handles
<1>4. Content' /\ Published' /\ EofIsEnd'
  BY <1>1 DEF Content, Unread, WEnd, Waits, Published, EofIsEnd
<1>5. Apart'
  BY <1>1 DEF Apart, Unread, Dist
<1>6. Turns'
  BY <1>1 DEF Turns, LoopTells, Unread
<1> QED
  BY <1>3, <1>4, <1>5, <1>6 DEF RingInv

LEMMA ToEofInv == RingInv /\ ToEof => RingInv'
<1> SUFFICES ASSUME RingInv, ToEof PROVE RingInv'
  OBVIOUS
<1>1. Covered /\ TypeOK /\ Content /\ Published /\ EofIsEnd /\ Apart /\ Turns
  BY DEF RingInv
<1>2. /\ I_EOF' = hdl.eof /\ dsp = "to_eof" /\ dsp' = "idle"
      /\ UNCHANGED <<I_R_ADDR, I_W_ADDR, I_LOOP, hdl, need, state, taken, hostVars>>
  BY DEF ToEof, DspAt
<1> USE <1>2 DEF hostVars
<1>3. TypeOK'
  BY <1>1, Typed DEF TypeOK, Registers, Handles
<1>4. Content' /\ Published' /\ EofIsEnd'
  BY <1>1 DEF Content, Unread, WEnd, Waits, Published, EofIsEnd
<1>5. Apart'
  BY <1>1 DEF Apart, Unread, Dist
<1>6. Turns'
  BY <1>1 DEF Turns, LoopTells, Unread
<1> QED
  BY <1>3, <1>4, <1>5, <1>6 DEF RingInv

-----------------------------------------------------------------------------
(* The read of a frame                                                     *)

\* What the DSP takes for the fill of the ring never exceeds the unread bytes,
\* and is exactly that when the sides take turns.
LEMMA FillTrue ==
    ASSUME RingInv, dsp = "encode"
    PROVE  /\ FillLen(hdl) \in 0 .. Unread
           /\ kind = "turns" => FillLen(hdl) = Unread
<1>1. Covered /\ TypeOK /\ Content /\ Apart /\ Turns
  BY DEF RingInv
<1>2. FillLen(hdl) = IF hdl.loop = 1 THEN Size ELSE Dist(hdl.r_addr, hdl.w_addr)
  BY <1>1, Typed, FillIs
<1>3. Unread \in 0 .. Size /\ hdl.r_addr \in Addr /\ hdl.w_addr \in Addr
      /\ I_W_ADDR \in Addr /\ Size \in Nat \ {0}
  BY <1>1, Typed DEF Content, Unread
<1>4. kind \in {"gap", "turns"}
  BY <1>1, InAssumption DEF TypeOK, Covered
<1>5. CASE kind = "gap"
  <2>1. hdl.loop = 0 /\ Dist(hdl.r_addr, hdl.w_addr) <= Unread
    <3>1. /\ hdl.loop = 0
          /\ Dist(hdl.r_addr, hdl.w_addr) <= Dist(hdl.r_addr, I_W_ADDR)
          /\ Dist(hdl.r_addr, I_W_ADDR) <= Unread
      BY <1>1, <1>5 DEF Apart
    <3>2. Dist(hdl.r_addr, hdl.w_addr) \in Nat /\ Dist(hdl.r_addr, I_W_ADDR) \in Nat
      BY <1>3, ForwardDist
    <3> QED
      BY <1>3, <3>1, <3>2
  <2>2. Dist(hdl.r_addr, hdl.w_addr) \in Nat
    BY <1>3, ForwardDist
  <2> QED
    BY <1>2, <1>3, <1>5, <2>1, <2>2
<1>6. CASE kind = "turns"
  <2>1. host = "idle" /\ hdl.w_addr = I_W_ADDR /\ LoopTells(hdl.loop)
    BY <1>1, <1>6 DEF Turns
  <2>2. hdl.w_addr = Forward(hdl.r_addr, Unread)
    BY <1>1, <2>1 DEF Content, WEnd
  <2>3. CASE Unread = Size
    BY <1>2, <1>3, <2>1, <2>3 DEF LoopTells
  <2>4. CASE Unread # Size
    <3>1. hdl.loop = 0 /\ Unread \in 0 .. Size - 1
      BY <1>3, <2>1, <2>4 DEF LoopTells
    <3>2. Dist(hdl.r_addr, hdl.w_addr) = Unread
      BY <1>3, <2>2, <3>1, DistForward
    <3> QED
      BY <1>2, <1>3, <3>1, <3>2
  <2> QED
    BY <2>3, <2>4
<1> QED
  BY <1>4, <1>5, <1>6

\* A frame that fits the ring is never an error: Encode reads when there is one.
LEMMA EncodeReads ==
    ASSUME Covered, TypeOK, Encode
    PROVE  /\ state' \in {"OK", "DATA_LESS", "DATA_EOF"}
           /\ state' = "OK" => /\ taken' = taken \o BytesAt(mem, hdl.r_addr, need)
                              /\ hdl' = AfterRead(hdl, need)
           /\ state' # "OK" => UNCHANGED <<taken, hdl>>
<1>1. need \in 1 .. Size
  BY Typed
<1>2. state' \in {"OK", "DATA_LESS", "DATA_EOF"}
  BY <1>1, SizeAssumption DEF Encode, CheckIn
<1>3. ReadsOn(state') <=> state' = "OK"
  BY <1>2 DEF ReadsOn
<1> QED
  BY <1>2, <1>3 DEF Encode

LEMMA EncodeInv == RingInv /\ Encode => RingInv'
<1> SUFFICES ASSUME RingInv, Encode PROVE RingInv'
  OBVIOUS
<1>1. Covered /\ TypeOK /\ Content /\ Published /\ EofIsEnd /\ Apart /\ Turns
  BY DEF RingInv
<1>2. /\ dsp = "encode" /\ dsp' = "to_r"
      /\ UNCHANGED <<regs, need, hostVars>>
      /\ state' = CheckIn(hdl, need)
  BY DEF Encode, DspAt
<1>3. /\ FillLen(hdl) \in 0 .. Unread
      /\ kind = "turns" => FillLen(hdl) = Unread
  BY <1>2, FillTrue
<1>4. /\ need \in 1 .. Size /\ Unread \in 0 .. Size /\ Len(taken) \in Nat
      /\ written \in Nat /\ written = Len(taken) + Unread /\ hdl.r_addr \in Addr
      /\ Size \in Nat \ {0}
  BY <1>1, Typed DEF Content, Unread
<1>5. /\ state' \in {"OK", "DATA_LESS", "DATA_EOF"}
      /\ state' = "OK" <=> need <= FillLen(hdl)
      /\ state' = "DATA_EOF" => hdl.eof = 1 /\ FillLen(hdl) < need
  BY <1>2, <1>3, <1>4 DEF CheckIn
<1>6. CASE state' # "OK"
  <2>1. UNCHANGED <<taken, hdl>>
    BY <1>1, <1>6, EncodeReads
  <2> USE <1>2, <2>1 DEF regs, hostVars
  <2>2. TypeOK'
    BY <1>1, <1>5 DEF TypeOK, Registers
  <2>3. Content' /\ Published' /\ EofIsEnd'
    BY <1>1 DEF Content, Unread, WEnd, Waits, Published, EofIsEnd
  <2>4. Apart'
    BY <1>1 DEF Apart, Unread, Dist
  <2>5. Turns'
    <3>1. state' = "DATA_EOF" /\ kind = "turns" => closed /\ Unread < need
      BY <1>1, <1>3, <1>5 DEF EofIsEnd
    <3> QED
      BY <1>1, <3>1 DEF Turns, LoopTells, Unread
  <2> QED
    BY <2>2, <2>3, <2>4, <2>5 DEF RingInv
<1>7. CASE state' = "OK"
  <2>1. /\ taken' = taken \o BytesAt(mem, hdl.r_addr, need)
        /\ hdl' = AfterRead(hdl, need)
    BY <1>1, <1>7, EncodeReads
  <2>2. need <= FillLen(hdl) /\ need \in 0 .. Unread
    BY <1>3, <1>4, <1>5, <1>7
  <2>3. BytesAt(mem, hdl.r_addr, need) = Numbers(Len(taken), need)
    BY <1>1, <1>4, <2>2, ReadInOrder DEF Content
  <2>4. taken \in Seq(0 .. MaxBytes) /\ MaxBytes \in Nat /\ Len(taken) + need <= MaxBytes
    BY <1>1, <1>4, <2>2, Typed DEF TypeOK
  <2>5. taken' = taken \o Numbers(Len(taken), need)
    BY <2>1, <2>3
  <2>6. need \in Nat /\ \A i \in 1 .. Len(taken) : taken[i] = i
    BY <1>1, <1>4 DEF Content
  <2>7. /\ taken' \in Seq(0 .. MaxBytes)
        /\ Len(taken') = Len(taken) + need
        /\ \A i \in 1 .. Len(taken') : taken'[i] = i
    BY <2>4, <2>5, <2>6, AppendInOrder, ZenonT(40)
  <2>8. Unread' = Unread - need /\ Unread' \in 0 .. Size - 1
    BY <1>2, <1>4, <2>2, <2>7 DEF Unread, hostVars
  <2>9. /\ hdl'.r_addr = Forward(hdl.r_addr, need) /\ hdl'.w_addr = hdl.w_addr
        /\ hdl'.loop = 0 /\ hdl'.eof = hdl.eof /\ hdl' \in Handles
        /\ hdl'.r_addr \in Addr
    <3>1. hdl \in Handles
      BY <1>1, Typed
    <3> QED
      BY <1>4, <2>1, <3>1, AfterReadFields DEF Handles
  <2> USE <1>2, <2>8, <2>9 DEF regs, hostVars
  <2>10. TypeOK'
    BY <1>1, <1>5, <2>7 DEF TypeOK, Registers
  <2>11. Content'
    <3>1. \A i \in 1 .. Len(taken') : taken'[i] = i
      BY <2>7
    <3>2. WEnd' = Forward(hdl'.r_addr, Unread')
      <4>1. /\ need \in Nat /\ Unread - need \in Nat
            /\ need + (Unread - need) = Unread /\ need + (Unread - need) <= Size
        BY <1>4, <2>2
      <4>2. Forward(Forward(hdl.r_addr, need), Unread - need)
                = Forward(hdl.r_addr, need + (Unread - need))
        BY <1>4, <4>1, ForwardForward
      <4>3. WEnd' = WEnd /\ WEnd = Forward(hdl.r_addr, Unread)
        BY <1>1 DEF WEnd, Content
      <4> QED
        BY <4>1, <4>2, <4>3
    <3>3. Waits(mem, Forward(hdl.r_addr, need), Len(taken) + need, Unread - need)
      BY <1>1, <1>4, <2>2, ReadLeavesOrder DEF Content
    <3>4. Len(taken') <= written'
      BY <1>4, <2>2, <2>7
    <3>5. Waits(mem, hdl.r_addr, Len(taken), Unread)'
      <4>1. mem' = mem /\ Len(taken') = Len(taken) + need
        BY <2>7
      <4> QED
        BY <3>3, <4>1 DEF Waits
    <3>6. Unread' <= Size
      BY <1>4
    <3> QED
      BY <3>1, <3>2, <3>4, <3>5, <3>6 DEF Content
  <2>12. Published' /\ EofIsEnd'
    BY <1>1 DEF Published, EofIsEnd
  <2>13. Apart'
    <3> SUFFICES ASSUME kind = "gap" PROVE Apart'
      BY DEF Apart
    <3>1. /\ I_LOOP = 0 /\ hdl.loop = 0 /\ ~ fills /\ host # "set_loop"
          /\ Dist(hdl.r_addr, hdl.w_addr) <= Dist(hdl.r_addr, I_W_ADDR)
          /\ Dist(hdl.r_addr, I_W_ADDR) <= Unread
          /\ Dist(I_R_ADDR, hdl.r_addr) + Unread < Size
      BY <1>1 DEF Apart
    <3>2. need <= Dist(hdl.r_addr, hdl.w_addr)
      BY <1>1, <2>2, <3>1, Typed, FillIs
    <3>3. /\ I_R_ADDR \in Addr /\ I_W_ADDR \in Addr /\ hdl.w_addr \in Addr
      BY <1>1, Typed
    <3>4. /\ Dist(hdl.r_addr, hdl.w_addr) \in Nat /\ Dist(hdl.r_addr, I_W_ADDR) \in Nat
          /\ Dist(I_R_ADDR, hdl.r_addr) \in Nat
      BY <1>4, <3>3, DistNat
    <3>5. /\ need \in 0 .. Dist(hdl.r_addr, hdl.w_addr)
          /\ need \in 0 .. Dist(hdl.r_addr, I_W_ADDR)
          /\ need \in Nat /\ Dist(I_R_ADDR, hdl.r_addr) + need < Size
      BY <1>4, <2>2, <3>1, <3>2, <3>4
    <3>6. /\ Dist(hdl'.r_addr, hdl.w_addr) = Dist(hdl.r_addr, hdl.w_addr) - need
          /\ Dist(hdl'.r_addr, I_W_ADDR) = Dist(hdl.r_addr, I_W_ADDR) - need
          /\ Dist(I_R_ADDR, hdl'.r_addr) = Dist(I_R_ADDR, hdl.r_addr) + need
      BY <1>4, <3>3, <3>5, DistNear, DistFar
    <3>7. /\ Dist(hdl'.r_addr, hdl.w_addr) <= Dist(hdl'.r_addr, I_W_ADDR)
          /\ Dist(hdl'.r_addr, I_W_ADDR) <= Unread'
          /\ Dist(I_R_ADDR, hdl'.r_addr) + Unread' < Size
      BY <1>4, <3>1, <3>4, <3>6
    <3> QED
      BY <3>1, <3>7 DEF Apart, Dist
  <2>14. Turns'
    BY <1>1, <1>4, <1>7 DEF Turns, LoopTells
  <2> QED
    BY <2>10, <2>11, <2>12, <2>13, <2>14 DEF RingInv
<1> QED
  BY <1>6, <1>7

LEMMA EncodeNoMemoryInv == RingInv /\ EncodeNoMemory => RingInv'
<1> SUFFICES ASSUME RingInv, EncodeNoMemory PROVE RingInv'
  OBVIOUS
<1>1. Covered /\ TypeOK /\ Content /\ Published /\ EofIsEnd /\ Apart /\ Turns
  BY DEF RingInv
<1>2. /\ dsp = "encode" /\ dsp' = "to_r" /\ state' = "NO_MEMORY"
      /\ UNCHANGED <<regs, hdl, need, taken, hostVars>>
  BY DEF EncodeNoMemory, DspAt
<1> USE <1>2 DEF regs, hostVars
<1>3. TypeOK'
  BY <1>1 DEF TypeOK, Registers
<1>4. Content' /\ Published' /\ EofIsEnd'
  BY <1>1 DEF Content, Unread, WEnd, Waits, Published, EofIsEnd
<1>5. Apart'
  BY <1>1 DEF Apart, Unread, Dist
<1>6. Turns'
  BY <1>1 DEF Turns, LoopTells, Unread
<1> QED
  BY <1>3, <1>4, <1>5, <1>6 DEF RingInv

-----------------------------------------------------------------------------
(* The host                                                                *)

\* What the host takes for free is free, and in a gap ring leaves a byte.
LEMMA RoomTrue ==
    ASSUME RingInv, host = "idle", kind = "turns" => dsp = "idle"
    PROVE  /\ Room \in Int
           /\ Unread + Room <= Size
           /\ kind = "gap" => Dist(I_R_ADDR, hdl.r_addr) + Unread + Room < Size
<1>1. Covered /\ TypeOK /\ Content /\ Published /\ Apart /\ Turns
  BY DEF RingInv
<1>2. FillLen(Registers) = IF I_LOOP = 1 THEN Size ELSE Dist(I_R_ADDR, I_W_ADDR)
  BY <1>1, Typed, FillIs
<1>3. /\ Unread \in 0 .. Size /\ hdl.r_addr \in Addr /\ I_R_ADDR \in Addr
      /\ I_W_ADDR \in Addr /\ Size \in Nat \ {0}
      /\ I_W_ADDR = Forward(hdl.r_addr, Unread)
  BY <1>1, Typed DEF Content, Unread, WEnd
<1>4. kind \in {"gap", "turns"}
  BY <1>1, InAssumption DEF TypeOK, Covered
<1>5. CASE kind = "gap"
  <2>1. I_LOOP = 0 /\ Dist(I_R_ADDR, hdl.r_addr) + Unread < Size
    BY <1>1, <1>5 DEF Apart
  <2>2. Dist(I_R_ADDR, I_W_ADDR) = Dist(I_R_ADDR, hdl.r_addr) + Unread
    BY <1>3, <2>1, DistFar
  <2>3. Dist(I_R_ADDR, hdl.r_addr) \in Nat
    BY <1>3, DistNat
  <2>4. Room = Size - Dist(I_R_ADDR, I_W_ADDR) - 1
    BY <1>2, <1>5, <2>1 DEF Room, FreeLen
  <2> QED
    BY <1>3, <2>2, <2>3, <2>4
<1>6. CASE kind = "turns"
  <2>1. I_R_ADDR = hdl.r_addr /\ LoopTells(I_LOOP)
    BY <1>1, <1>6 DEF Published, Turns
  <2>2. Room = Size - FillLen(Registers)
    BY <1>1, <1>6, Typed, FillType DEF Room, FreeLen
  <2>3. CASE Unread = Size
    BY <1>2, <1>3, <1>6, <2>1, <2>2, <2>3 DEF LoopTells
  <2>4. CASE Unread # Size
    <3>1. I_LOOP = 0 /\ Unread \in 0 .. Size - 1
      BY <1>3, <2>1, <2>4 DEF LoopTells
    <3>2. Dist(I_R_ADDR, I_W_ADDR) = Unread
      BY <1>3, <2>1, <3>1, DistForward
    <3> QED
      BY <1>2, <1>3, <1>6, <2>2, <3>1, <3>2
  <2> QED
    BY <2>3, <2>4
<1> QED
  BY <1>4, <1>5, <1>6

LEMMA HostWriteInv == RingInv /\ HostWrite => RingInv'
<1> SUFFICES ASSUME RingInv, HostWrite PROVE RingInv'
  OBVIOUS
<1>1. Covered /\ TypeOK /\ Content /\ Published /\ EofIsEnd /\ Apart /\ Turns
  BY DEF RingInv
<1>2. PICK n \in 1 .. Room :
          /\ written + n <= MaxBytes
          /\ mem' = WithBytes(mem, I_W_ADDR, [i \in 1 .. n |-> written + i])
          /\ written' = written + n
          /\ next_w'  = Forward(I_W_ADDR, n)
  BY DEF HostWrite
<1>3. /\ host = "idle" /\ host' = "set_w" /\ ~ closed
      /\ (kind = "turns" => dsp = "idle") /\ UNCHANGED kind
      /\ fills' = (next_w' = I_R_ADDR)
      /\ UNCHANGED <<regs, dspVars, closed>>
  BY DEF HostWrite, HostAt
<1>4. /\ n \in 1 .. Size /\ Unread + n <= Size
      /\ kind = "gap" => Dist(I_R_ADDR, hdl.r_addr) + Unread + n < Size
  <2>1. /\ Room \in Int /\ Unread + Room <= Size
        /\ kind = "gap" => Dist(I_R_ADDR, hdl.r_addr) + Unread + Room < Size
    BY <1>3, RoomTrue
  <2>2. Unread \in Nat /\ Size \in Nat /\ I_R_ADDR \in Addr /\ hdl.r_addr \in Addr
    BY <1>1, Typed DEF Content, Unread
  <2>3. Dist(I_R_ADDR, hdl.r_addr) \in Nat
    BY <2>2, DistNat
  <2> QED
    BY <2>1, <2>2, <2>3
<1>5. /\ Unread \in 0 .. Size /\ Len(taken) \in Nat /\ written \in Nat
      /\ written = Len(taken) + Unread /\ hdl.r_addr \in Addr /\ I_R_ADDR \in Addr
      /\ I_W_ADDR \in Addr /\ I_W_ADDR = Forward(hdl.r_addr, Unread)
      /\ Size \in Nat \ {0} /\ MaxBytes \in Nat
  BY <1>1, <1>3, Typed DEF Content, Unread, WEnd
<1>6. Unread' = Unread + n /\ Len(taken)' = Len(taken) /\ next_w' \in Addr
  BY <1>2, <1>3, <1>4, <1>5, ForwardAddr DEF Unread, dspVars
<1>7. next_w' = Forward(hdl.r_addr, Unread + n)
  BY <1>2, <1>4, <1>5, ForwardForward
<1>8. [i \in 1 .. n |-> written + i] = Numbers(written, n)
  BY DEF Numbers
<1>9. TypeOK'
  <2>1. Numbers(written, n) \in Seq(0 .. MaxBytes)
    <3>1. \A i \in 1 .. n : written + i \in 0 .. MaxBytes
      BY <1>2, <1>4, <1>5
    <3>2. n \in Nat
      BY <1>4
    <3> QED
      BY <3>1, <3>2 DEF Numbers
  <2>2. mem \in [Addr -> 0 .. MaxBytes]
    BY <1>1 DEF TypeOK
  <2>3. mem' \in [Addr -> 0 .. MaxBytes]
    BY <1>2, <1>5, <1>8, <2>1, <2>2, WriteType
  <2>4. written' \in 0 .. MaxBytes
    BY <1>2, <1>4, <1>5
  <2>5. fills' \in BOOLEAN
    BY <1>3
  <2> QED
    BY <1>1, <1>3, <1>6, <2>3, <2>4, <2>5 DEF TypeOK, Registers, regs, dspVars
<1>10. Content'
  <2>1. Waits(WithBytes(mem, Forward(hdl.r_addr, Unread), Numbers(Len(taken) + Unread, n)),
              hdl.r_addr, Len(taken), Unread + n)
    <3>1. Waits(mem, hdl.r_addr, Len(taken), Unread)
      BY <1>1 DEF Content
    <3>2. n \in Nat /\ Unread \in Nat
      BY <1>4, <1>5
    <3> QED
      BY <1>4, <1>5, <3>1, <3>2, WriteKeepsOrder
  <2>2. Waits(mem', hdl.r_addr, Len(taken), Unread + n)
    BY <1>2, <1>5, <1>8, <2>1
  <2>3. WEnd' = Forward(hdl'.r_addr, Unread')
    BY <1>3, <1>6, <1>7 DEF WEnd, dspVars
  <2>4. Len(taken') <= written'
    BY <1>2, <1>4, <1>5, <1>6
  <2> QED
    BY <1>1, <1>3, <1>4, <1>6, <2>2, <2>3, <2>4 DEF Content, Waits, dspVars
<1>11. Published' /\ EofIsEnd'
  BY <1>1, <1>3 DEF Published, EofIsEnd, regs, dspVars
<1>12. Apart'
  <2> SUFFICES ASSUME kind = "gap" PROVE Apart'
    BY <1>3 DEF Apart
  <2>1. Dist(I_R_ADDR, next_w') = Dist(I_R_ADDR, hdl.r_addr) + (Unread + n)
    <3>1. Unread + n \in Nat /\ Dist(I_R_ADDR, hdl.r_addr) + (Unread + n) < Size
      BY <1>4, <1>5, DistNat
    <3> QED
      BY <1>5, <1>7, <3>1, DistFar
  <2>2. Dist(I_R_ADDR, hdl.r_addr) \in Nat
    BY <1>5, DistNat
  <2>3. ~ fills'
    <3>1. Dist(I_R_ADDR, I_R_ADDR) = 0
      BY <1>5 DEF Dist, Addr
    <3>2. Dist(I_R_ADDR, next_w') # 0
      BY <1>4, <1>5, <2>1, <2>2
    <3>3. next_w' # I_R_ADDR
      BY <3>1, <3>2
    <3> QED
      BY <1>3, <3>3
  <2>4. Dist(hdl.r_addr, I_W_ADDR) <= Unread + n
    <3>1. Dist(hdl.r_addr, I_W_ADDR) <= Unread
      BY <1>1 DEF Apart
    <3>2. Dist(hdl.r_addr, I_W_ADDR) \in Nat
      BY <1>5, DistNat
    <3> QED
      BY <1>4, <1>5, <3>1, <3>2
  <2>5. Dist(I_R_ADDR, hdl.r_addr) + (Unread + n) < Size
    BY <1>4, <1>5, <2>2
  <2> QED
    BY <1>1, <1>3, <1>6, <2>3, <2>4, <2>5 DEF Apart, Dist, regs, dspVars
<1>13. Turns'
  <2> SUFFICES ASSUME kind = "turns" PROVE Turns'
    BY <1>3 DEF Turns
  <2>1. dsp = "idle" /\ I_R_ADDR = hdl.r_addr /\ LoopTells(I_LOOP)
    BY <1>1, <1>3 DEF Published, Turns
  <2>2. I_LOOP = 0
    BY <1>4, <1>5, <2>1 DEF LoopTells
  <2>3. fills' <=> Unread' = Size
    <3>1. CASE Unread + n = Size
      <4>1. Forward(hdl.r_addr, Size) = hdl.r_addr
        BY <1>5 DEF Forward, Addr
      <4> QED
        BY <1>3, <1>6, <1>7, <2>1, <3>1, <4>1
    <3>2. CASE Unread + n # Size
      <4>1. Unread + n \in 1 .. Size - 1
        BY <1>4, <1>5, <3>2
      <4>2. Forward(hdl.r_addr, Unread + n) # hdl.r_addr
        BY <1>5, <4>1 DEF Forward, Addr
      <4> QED
        BY <1>3, <1>6, <1>7, <2>1, <3>2, <4>2
    <3> QED
      BY <3>1, <3>2
  <2>4. state # "DATA_EOF"
    BY <1>1, <1>3 DEF Turns
  <2> QED
    BY <1>3, <2>1, <2>2, <2>3, <2>4 DEF Turns, regs, dspVars
<1> QED
  BY <1>9, <1>10, <1>11, <1>12, <1>13 DEF RingInv

LEMMA HostSetWInv == RingInv /\ HostSetW => RingInv'
<1> SUFFICES ASSUME RingInv, HostSetW PROVE RingInv'
  OBVIOUS
<1>1. Covered /\ TypeOK /\ Content /\ Published /\ EofIsEnd /\ Apart /\ Turns
  BY DEF RingInv
<1>2. /\ host = "set_w" /\ host' = (IF fills THEN "set_loop" ELSE "idle")
      /\ (kind = "turns" => dsp = "idle") /\ UNCHANGED kind
      /\ I_W_ADDR' = next_w
      /\ UNCHANGED <<I_R_ADDR, I_LOOP, I_EOF, dspVars, mem, next_w, fills, written, closed>>
  BY DEF HostSetW, HostAt
<1> USE <1>2 DEF dspVars
<1>3. TypeOK'
  BY <1>1, Typed DEF TypeOK, Registers, Handles
<1>4. Unread' = Unread /\ WEnd' = WEnd
  BY DEF Unread, WEnd
<1>5. Content'
  BY <1>1, <1>4 DEF Content, Waits
<1>6. Published' /\ EofIsEnd'
  BY <1>1 DEF Published, EofIsEnd
<1>7. Apart'
  <2> SUFFICES ASSUME kind = "gap" PROVE Apart'
    BY DEF Apart
  <2>1. /\ I_LOOP = 0 /\ hdl.loop = 0 /\ ~ fills
        /\ Dist(hdl.r_addr, hdl.w_addr) <= Dist(hdl.r_addr, I_W_ADDR)
        /\ Dist(hdl.r_addr, I_W_ADDR) <= Unread
        /\ Dist(I_R_ADDR, hdl.r_addr) + Unread < Size
    BY <1>1 DEF Apart
  <2>2. /\ I_R_ADDR \in Addr /\ I_W_ADDR \in Addr /\ hdl.r_addr \in Addr
        /\ hdl.w_addr \in Addr /\ Unread \in Nat /\ Size \in Nat
    BY <1>1, Typed DEF Content, Unread
  <2>3. /\ Dist(hdl.r_addr, hdl.w_addr) \in Nat /\ Dist(hdl.r_addr, I_W_ADDR) \in Nat
        /\ Dist(I_R_ADDR, hdl.r_addr) \in Nat
    BY <2>2, DistNat
  <2>4. Dist(hdl.r_addr, next_w) = Unread
    <3>1. Unread \in 0 .. Size - 1 /\ next_w = Forward(hdl.r_addr, Unread)
      BY <1>1, <2>1, <2>2, <2>3 DEF Content, WEnd
    <3> QED
      BY <2>2, <3>1, DistForward
  <2>5. /\ Dist(hdl.r_addr, hdl.w_addr) <= Dist(hdl.r_addr, next_w)
        /\ Dist(hdl.r_addr, next_w) <= Unread
    BY <2>1, <2>2, <2>3, <2>4
  <2> QED
    BY <1>4, <2>1, <2>5 DEF Apart, Dist
<1>8. Turns'
  BY <1>1, <1>4 DEF Turns, LoopTells
<1> QED
  BY <1>3, <1>5, <1>6, <1>7, <1>8 DEF RingInv

LEMMA HostSetLoopInv == RingInv /\ HostSetLoop => RingInv'
<1> SUFFICES ASSUME RingInv, HostSetLoop PROVE RingInv'
  OBVIOUS
<1>1. Covered /\ TypeOK /\ Content /\ Published /\ EofIsEnd /\ Apart /\ Turns
  BY DEF RingInv
<1>2. /\ host = "set_loop" /\ host' = "idle"
      /\ (kind = "turns" => dsp = "idle") /\ UNCHANGED kind /\ I_LOOP' = 1
      /\ UNCHANGED <<I_R_ADDR, I_W_ADDR, I_EOF, dspVars, mem, next_w, fills, written, closed>>
  BY DEF HostSetLoop, HostAt
<1> USE <1>2 DEF dspVars
<1>3. kind = "turns"
  BY <1>1, InAssumption DEF TypeOK, Covered, Apart
<1>4. TypeOK'
  BY <1>1, Typed DEF TypeOK, Registers, Handles, Flag
<1>5. Content' /\ Published' /\ EofIsEnd'
  BY <1>1 DEF Content, Unread, WEnd, Waits, Published, EofIsEnd
<1>6. Apart'
  BY <1>3 DEF Apart
<1>7. Turns'
  BY <1>1 DEF Turns, LoopTells, Unread
<1> QED
  BY <1>4, <1>5, <1>6, <1>7 DEF RingInv

LEMMA HostSetEofInv == RingInv /\ HostSetEof => RingInv'
<1> SUFFICES ASSUME RingInv, HostSetEof PROVE RingInv'
  OBVIOUS
<1>1. Covered /\ TypeOK /\ Content /\ Published /\ EofIsEnd /\ Apart /\ Turns
  BY DEF RingInv
<1>2. /\ host = "idle" /\ host' = "idle"
      /\ (kind = "turns" => dsp = "idle") /\ UNCHANGED kind
      /\ I_EOF' = 1 /\ closed' = TRUE
      /\ UNCHANGED <<I_R_ADDR, I_W_ADDR, I_LOOP, dspVars, mem, next_w, fills, written>>
  BY DEF HostSetEof, HostAt
<1> USE <1>2 DEF dspVars
<1>3. TypeOK'
  BY <1>1, Typed DEF TypeOK, Registers, Handles, Flag
<1>4. Content' /\ Published' /\ EofIsEnd'
  BY <1>1 DEF Content, Unread, WEnd, Waits, Published, EofIsEnd
<1>5. Apart'
  BY <1>1 DEF Apart, Unread, Dist
<1>6. Turns'
  BY <1>1 DEF Turns, LoopTells, Unread
<1> QED
  BY <1>3, <1>4, <1>5, <1>6 DEF RingInv

-----------------------------------------------------------------------------
LEMMA NextInv == RingInv /\ [Next]_vars => RingInv'
<1> SUFFICES ASSUME RingInv, [Next]_vars PROVE RingInv'
  OBVIOUS
<1>1. CASE UNCHANGED vars
  <2> USE <1>1 DEF vars, regs, dspVars, hostVars
  <2>1. TypeOK'
    BY DEF RingInv, TypeOK, Registers
  <2>2. Content' /\ Published' /\ EofIsEnd'
    BY DEF RingInv, Content, Unread, WEnd, Waits, Published, EofIsEnd
  <2>3. Apart' /\ Turns'
    BY DEF RingInv, Apart, Dist, Turns, LoopTells, Unread
  <2> QED
    BY <2>1, <2>2, <2>3 DEF RingInv
<1>2. CASE Dsp
  BY <1>2, FromWInv, FromLoopInv, FromEofInv, EncodeInv, EncodeNoMemoryInv,
     ToRInv, ToLoopInv, ToEofInv DEF Dsp
<1>3. CASE Host
  BY <1>3, HostWriteInv, HostSetWInv, HostSetLoopInv, HostSetEofInv DEF Host
<1> QED
  BY <1>1, <1>2, <1>3 DEF Next

THEOREM RingAlways == Covered /\ Spec => []RingInv
<1> SUFFICES ASSUME Covered PROVE Spec => []RingInv
  OBVIOUS
<1>1. Init => RingInv
  BY InitInv
<1> QED
  BY <1>1, NextInv, PTL DEF Spec

\* Every register, pointer and byte keeps its type; the pointers stay inside the
\* ring (os_buffer_read's single subtraction is enough).
THEOREM InTyped == Covered /\ Spec => []TypeOK
<1>1. RingInv => TypeOK
  BY DEF RingInv
<1> QED
  BY RingAlways, <1>1, PTL

\* The DSP reads the stream byte after byte as the host wrote it, however the
\* steps of task_process and of the host interleave.
THEOREM InOrdered == Covered /\ Spec => []InOrder
<1>1. RingInv => InOrder
  BY DEF RingInv, Content, InOrder
<1> QED
  BY RingAlways, <1>1, PTL

\* With both sides at rest the registers tell how many bytes wait.
THEOREM InRegistersTell == Covered /\ Spec => []RegistersTell
<1>1. ASSUME RingInv, dsp = "idle", host = "idle"
      PROVE  FillLen(Registers) = written - Len(taken)
  <2>1. Covered /\ TypeOK /\ Content /\ Published /\ Apart /\ Turns
    BY <1>1 DEF RingInv
  <2>2. FillLen(Registers) = IF I_LOOP = 1 THEN Size ELSE Dist(I_R_ADDR, I_W_ADDR)
    BY <2>1, Typed, FillIs
  <2>3. /\ Unread \in 0 .. Size /\ hdl.r_addr \in Addr /\ Size \in Nat \ {0}
        /\ I_R_ADDR = hdl.r_addr /\ I_W_ADDR = Forward(hdl.r_addr, Unread)
    BY <1>1, <2>1, Typed DEF Content, Unread, WEnd, Published
  <2>4. CASE Unread = Size
    <3>1. kind = "turns"
      <4>1. Dist(I_R_ADDR, hdl.r_addr) \in Nat
        BY <2>3, DistNat
      <4>2. kind # "gap"
        BY <2>1, <2>3, <2>4, <4>1 DEF Apart
      <4> QED
        BY <2>1, <4>2, InAssumption DEF TypeOK, Covered
    <3> QED
      BY <1>1, <2>1, <2>2, <2>4, <3>1 DEF Turns, LoopTells, Unread
  <2>5. CASE Unread # Size
    <3>1. I_LOOP = 0
      <4>1. kind \in {"gap", "turns"}
        BY <2>1, InAssumption DEF TypeOK, Covered
      <4> QED
        BY <1>1, <2>1, <2>5, <4>1 DEF Apart, Turns, LoopTells
    <3>2. Dist(I_R_ADDR, I_W_ADDR) = Unread
      <4>1. Unread \in 0 .. Size - 1
        BY <2>3, <2>5
      <4> QED
        BY <2>3, <4>1, DistForward
    <3> QED
      BY <2>2, <3>1, <3>2 DEF Unread
  <2> QED
    BY <2>4, <2>5
<1>2. RingInv => RegistersTell
  BY <1>1 DEF RegistersTell
<1> QED
  BY RingAlways, <1>2, PTL

\* DATA_EOF is only reported at the end of the stream, with less than a frame left.
THEOREM InEofOnlyAtEnd == Covered /\ Spec => []EofOnlyAtEnd
<1>1. RingInv => EofOnlyAtEnd
  BY DEF RingInv, Turns, EofOnlyAtEnd, Unread
<1> QED
  BY RingAlways, <1>1, PTL

-----------------------------------------------------------------------------
(* The ring implements Fifo                                                *)

\* While the host has still to move W, W is short of where its bytes end.
Behind == host = "set_w" => Dist(hdl.r_addr, I_W_ADDR) < Unread

LEMMA BehindNext == RingInv /\ Behind /\ [Next]_vars => Behind'
<1> SUFFICES ASSUME RingInv, Behind, [Next]_vars PROVE Behind'
  OBVIOUS
<1>1. Covered /\ TypeOK /\ Content /\ Apart /\ Turns
  BY DEF RingInv
<1>2. /\ hdl.r_addr \in Addr /\ hdl.w_addr \in Addr /\ I_W_ADDR \in Addr
      /\ Unread \in 0 .. Size /\ Size \in Nat \ {0} /\ need \in 1 .. Size
      /\ hdl \in Handles /\ Len(taken) \in Nat /\ written \in Nat
  BY <1>1, Typed DEF Content, Unread
<1>3. CASE Encode
  <2>1. dsp = "encode" /\ UNCHANGED <<regs, need, hostVars>>
        /\ state' = CheckIn(hdl, need)
    BY <1>3 DEF Encode, DspAt
  <2>2. CASE state' # "OK"
    BY <1>1, <1>3, <2>1, <2>2, EncodeReads DEF Behind, Unread, Dist, regs, hostVars
  <2>3. CASE state' = "OK" /\ host = "set_w"
    <3>1. hdl' = AfterRead(hdl, need) /\ taken' = taken \o BytesAt(mem, hdl.r_addr, need)
      BY <1>1, <1>3, <2>3, EncodeReads
    <3>2. need <= FillLen(hdl)
      BY <1>2, <2>1, <2>3 DEF CheckIn
    <3>3. kind = "gap"
      BY <1>1, <2>1, <2>3, InAssumption DEF TypeOK, Covered, Turns
    <3>4. need <= Dist(hdl.r_addr, I_W_ADDR)
      <4>1. hdl.loop = 0 /\ Dist(hdl.r_addr, hdl.w_addr) <= Dist(hdl.r_addr, I_W_ADDR)
        BY <1>1, <3>3 DEF Apart
      <4>2. FillLen(hdl) = Dist(hdl.r_addr, hdl.w_addr)
        BY <1>2, <4>1, FillIs
      <4>3. Dist(hdl.r_addr, hdl.w_addr) \in Nat /\ Dist(hdl.r_addr, I_W_ADDR) \in Nat
        BY <1>2, DistNat
      <4> QED
        BY <1>2, <3>2, <4>1, <4>2, <4>3
    <3>5. Dist(hdl'.r_addr, I_W_ADDR) = Dist(hdl.r_addr, I_W_ADDR) - need
      <4>1. need \in 0 .. Dist(hdl.r_addr, I_W_ADDR)
        <5>1. Dist(hdl.r_addr, I_W_ADDR) \in Nat
          BY <1>2, DistNat
        <5> QED
          BY <1>2, <3>4, <5>1
      <4>2. hdl'.r_addr = Forward(hdl.r_addr, need)
        BY <1>2, <3>1, AfterReadFields
      <4> QED
        BY <1>2, <4>1, <4>2, DistNear
    <3>6. Unread' = Unread - need
      <4>1. Len(taken') = Len(taken) + need
        <5>1. FillLen(hdl) \in 0 .. Unread /\ need \in 0 .. Unread /\ need \in Nat
          BY <1>2, <2>1, <3>2, FillTrue
        <5>2. taken' = taken \o Numbers(Len(taken), need)
          <6>1. BytesAt(mem, hdl.r_addr, need) = Numbers(Len(taken), need)
            BY <1>1, <1>2, <5>1, ReadInOrder DEF Content
          <6> QED
            BY <3>1, <6>1
        <5>3. taken \in Seq(0 .. MaxBytes) /\ MaxBytes \in Nat
              /\ Len(taken) + need <= MaxBytes /\ \A i \in 1 .. Len(taken) : taken[i] = i
          BY <1>1, <1>2, <5>1, Typed DEF TypeOK, Content, Unread
        <5> QED
          BY <5>1, <5>2, <5>3, AppendInOrder
      <4> QED
        BY <1>2, <2>1, <4>1 DEF Unread, hostVars
    <3>7. Dist(hdl.r_addr, I_W_ADDR) < Unread /\ Dist(hdl.r_addr, I_W_ADDR) \in Nat
      BY <1>2, <2>3, DistNat DEF Behind
    <3>8. Dist(hdl'.r_addr, I_W_ADDR) < Unread'
      BY <1>2, <3>5, <3>6, <3>7
    <3> QED
      BY <2>1, <3>8 DEF Behind, Dist, regs
  <2>4. CASE state' = "OK" /\ host # "set_w"
    BY <2>1, <2>4 DEF Behind, hostVars
  <2> QED
    BY <2>2, <2>3, <2>4
<1>4. CASE HostWrite
  <2>1. PICK n \in 1 .. Room : written' = written + n
    BY <1>4 DEF HostWrite
  <2>2. /\ host = "idle" /\ UNCHANGED <<regs, dspVars>>
        /\ (kind = "turns" => dsp = "idle")
    BY <1>4 DEF HostWrite, HostAt
  <2>3. Room \in Int /\ Unread + Room <= Size
    BY <2>2, RoomTrue
  <2>4. I_W_ADDR = Forward(hdl.r_addr, Unread) /\ Unread \in 0 .. Size - 1
    BY <1>1, <1>2, <2>1, <2>2, <2>3 DEF Content, WEnd
  <2>5. Dist(hdl.r_addr, I_W_ADDR) = Unread
    BY <1>2, <2>4, DistForward
  <2>6. Unread' = Unread + n
    BY <1>2, <2>1, <2>2, <2>3 DEF Unread, dspVars
  <2> QED
    BY <1>2, <2>1, <2>2, <2>3, <2>5, <2>6 DEF Behind, Dist, regs, dspVars
<1>5. CASE FromW \/ FromLoop \/ FromEof \/ EncodeNoMemory \/ ToR \/ ToLoop \/ ToEof
  <2>1. hdl'.r_addr = hdl.r_addr /\ UNCHANGED <<I_W_ADDR, taken, written, host>>
    BY <1>2, <1>5 DEF FromW, FromLoop, FromEof, EncodeNoMemory, ToR, ToLoop, ToEof,
       regs, hostVars, Handles
  <2> QED
    BY <2>1 DEF Behind, Dist, Unread
<1>6. CASE HostSetW \/ HostSetLoop \/ HostSetEof
  BY <1>6 DEF HostSetW, HostSetLoop, HostSetEof, HostAt, Behind
<1>7. CASE UNCHANGED vars
  BY <1>7 DEF vars, regs, dspVars, hostVars, Behind, Dist, Unread
<1> QED
  BY <1>3, <1>4, <1>5, <1>6, <1>7 DEF Next, Dsp, Host

\* The bytes that are published and not read are the next ones of the stream.
PendingTells ==
    /\ Unpublished \in 0 .. Unread
    /\ host = "set_w" => /\ Unpublished > 0
                         /\ Unread - Unpublished = Dist(hdl.r_addr, I_W_ADDR)
    /\ Pending = Numbers(Len(taken), Unread - Unpublished)

LEMMA PendingIs == RingInv /\ Behind => PendingTells
<1> SUFFICES ASSUME RingInv, Behind PROVE PendingTells
  OBVIOUS
<1>1. Covered /\ TypeOK /\ Content
  BY DEF RingInv
<1>2. /\ hdl.r_addr \in Addr /\ I_W_ADDR \in Addr /\ next_w \in Addr
      /\ Unread \in 0 .. Size /\ Size \in Nat \ {0}
      /\ Len(taken) \in Nat /\ written \in Nat
  BY <1>1, Typed DEF Content, Unread
<1>3. /\ Unpublished \in 0 .. Unread
      /\ host = "set_w" => /\ Unpublished > 0
                           /\ Unread - Unpublished = Dist(hdl.r_addr, I_W_ADDR)
  <2>1. CASE host # "set_w"
    BY <1>2, <2>1 DEF Unpublished
  <2>2. CASE host = "set_w"
    <3>1. next_w = Forward(hdl.r_addr, Unread) /\ Dist(hdl.r_addr, I_W_ADDR) < Unread
      BY <1>1, <2>2 DEF Content, WEnd, Behind
    <3>2. Unpublished = Unread - Dist(hdl.r_addr, I_W_ADDR)
      BY <1>2, <2>2, <3>1, DistRest DEF Unpublished
    <3>3. Dist(hdl.r_addr, I_W_ADDR) \in Nat
      BY <1>2, DistNat
    <3> QED
      BY <1>2, <3>1, <3>2, <3>3
  <2> QED
    BY <2>1, <2>2
<1>4. Pending = Numbers(Len(taken), Unread - Unpublished)
  <2>1. Unread - Unpublished \in 0 .. Unread
        /\ written - Unpublished - Len(taken) = Unread - Unpublished
    BY <1>2, <1>3 DEF Unread
  <2>2. BytesAt(mem, hdl.r_addr, Unread - Unpublished)
            = Numbers(Len(taken), Unread - Unpublished)
    BY <1>1, <1>2, <2>1, ReadInOrder DEF Content
  <2> QED
    BY <2>1, <2>2 DEF Pending
<1> QED
  BY <1>3, <1>4 DEF PendingTells

LEMMA PendingIsNext == RingInv' /\ Behind' => PendingTells'
BY PendingIs, PTL

\* The host's store of W puts bytes into the queue.
LEMMA SetWPuts ==
    ASSUME RingInv, Behind, RingInv', Behind', HostSetW
    PROVE  Queue!Put
<1>1. Covered /\ TypeOK /\ Content
  BY DEF RingInv
<1>2. /\ host = "set_w" /\ host' # "set_w"
      /\ UNCHANGED <<hdl, taken, mem, written>>
  BY DEF HostSetW, HostAt, dspVars
<1>3. Unread' = Unread /\ Unpublished' = 0 /\ taken' = taken
  BY <1>2 DEF Unread, Unpublished
<1>4. /\ Unpublished \in 1 .. Unread /\ Unread \in 0 .. Size /\ Size \in Nat
      /\ Len(taken) \in Nat /\ written \in Nat /\ written = Len(taken) + Unread
      /\ written <= MaxBytes /\ MaxBytes \in Nat
  <2>1. /\ Unread \in 0 .. Size /\ Size \in Nat
        /\ Len(taken) \in Nat /\ written \in Nat /\ written = Len(taken) + Unread
        /\ written <= MaxBytes /\ MaxBytes \in Nat
    BY <1>1, Typed DEF Content, Unread
  <2>2. Unpublished \in 0 .. Unread /\ Unpublished > 0
    BY <1>2, PendingIs DEF PendingTells
  <2> QED
    BY <2>1, <2>2
<1>5. Pending = Numbers(Len(taken), Unread - Unpublished)
  BY PendingIs DEF PendingTells
<1>6. Pending' = Numbers(Len(taken), Unread)
  <2>1. Pending' = Numbers(Len(taken'), Unread' - Unpublished')
    BY PendingIsNext DEF PendingTells
  <2>2. Unread - 0 = Unread
    BY <1>4
  <2> QED
    BY <1>3, <2>1, <2>2
<1> DEFINE p == Unread - Unpublished
<1>7. p \in 0 .. Unread /\ p < Unread /\ Unread \in Nat
  BY <1>4
<1>8. Len(Pending) = p /\ Len(Pending') = Unread
  <2>1. p \in Nat /\ Unread \in Nat /\ Len(taken) \in Nat
    BY <1>4, <1>7
  <2>2. Len(Numbers(Len(taken), p)) = p
    BY <2>1, NumbersLen
  <2>3. Len(Numbers(Len(taken), Unread)) = Unread
    BY <2>1, NumbersLen
  <2> QED
    BY <1>5, <1>6, <2>2, <2>3
<1>9. Pending' \in Seq(1 .. MaxBytes)
  <2>1. \A i \in 1 .. Unread : Len(taken) + i \in 1 .. MaxBytes
    BY <1>4
  <2> QED
    BY <1>4, <1>6, <2>1 DEF Numbers
<1>10. SubSeq(Pending', 1, p) = Pending
  BY <1>4, <1>5, <1>6, <1>7, FirstNumbers
<1>11. Len(Pending') \in Len(Pending) + 1 .. Size
  BY <1>4, <1>7, <1>8
<1> QED
  BY <1>8, <1>9, <1>10, <1>11 DEF Queue!Put

\* The read of a frame takes bytes from the queue.
LEMMA EncodeTakes ==
    ASSUME RingInv, Behind, RingInv', Behind', Encode
    PROVE  Queue!Take \/ UNCHANGED Pending
<1>1. Covered /\ TypeOK /\ Content /\ Apart /\ Turns
  BY DEF RingInv
<1>2. /\ dsp = "encode" /\ UNCHANGED <<regs, need, hostVars>>
      /\ state' = CheckIn(hdl, need)
  BY DEF Encode, DspAt
<1>3. /\ hdl \in Handles /\ hdl.r_addr \in Addr /\ hdl.w_addr \in Addr /\ I_W_ADDR \in Addr
      /\ need \in 1 .. Size /\ Size \in Nat \ {0}
      /\ Unread \in 0 .. Size /\ Len(taken) \in Nat /\ written = Len(taken) + Unread
  BY <1>1, Typed DEF Content, Unread
<1>4. Unpublished' = Unpublished
  BY <1>2 DEF Unpublished, regs, hostVars
<1>5. CASE state' # "OK"
  <2>1. taken' = taken /\ hdl' = hdl
    BY <1>1, <1>5, EncodeReads
  <2> QED
    BY <1>2, <1>4, <2>1 DEF Pending, hostVars
<1>6. CASE state' = "OK"
  <2>1. /\ taken' = taken \o BytesAt(mem, hdl.r_addr, need)
        /\ need <= FillLen(hdl)
    <3>1. taken' = taken \o BytesAt(mem, hdl.r_addr, need)
      BY <1>1, <1>6, EncodeReads
    <3>2. need <= FillLen(hdl)
      BY <1>2, <1>3, <1>6 DEF CheckIn
    <3> QED
      BY <3>1, <3>2
  <2>2. FillLen(hdl) \in 0 .. Unread /\ need \in 0 .. Unread
    BY <1>2, <1>3, <2>1, FillTrue
  <2>3. Len(taken') = Len(taken) + need
    <3>1. taken' = taken \o Numbers(Len(taken), need)
      <4>1. BytesAt(mem, hdl.r_addr, need) = Numbers(Len(taken), need)
        BY <1>1, <1>3, <2>2, ReadInOrder DEF Content
      <4> QED
        BY <2>1, <4>1
    <3>2. taken \in Seq(0 .. MaxBytes) /\ MaxBytes \in Nat /\ need \in Nat
          /\ Len(taken) + need <= MaxBytes /\ \A i \in 1 .. Len(taken) : taken[i] = i
      BY <1>1, <1>3, <2>2, Typed DEF TypeOK, Content, Unread
    <3> QED
      BY <3>1, <3>2, AppendInOrder
  <2>4. Unread' = Unread - need
    BY <1>2, <1>3, <2>3 DEF Unread, hostVars
  <2> DEFINE p == Unread - Unpublished
  <2>5. p \in 0 .. Unread
    BY <1>3, PendingIs DEF PendingTells
  <2>6. need <= p
    <3>1. CASE host # "set_w"
      BY <1>3, <2>2, <3>1 DEF Unpublished
    <3>2. CASE host = "set_w"
      <4>1. kind = "gap"
        BY <1>1, <1>2, <3>2, InAssumption DEF TypeOK, Covered, Turns
      <4>2. hdl.loop = 0 /\ Dist(hdl.r_addr, hdl.w_addr) <= Dist(hdl.r_addr, I_W_ADDR)
        BY <1>1, <4>1 DEF Apart
      <4>3. FillLen(hdl) = Dist(hdl.r_addr, hdl.w_addr)
        BY <1>3, <4>2, FillIs
      <4>4. p = Dist(hdl.r_addr, I_W_ADDR)
        BY <3>2, PendingIs DEF PendingTells
      <4>5. Dist(hdl.r_addr, hdl.w_addr) \in Nat /\ Dist(hdl.r_addr, I_W_ADDR) \in Nat
        BY <1>3, DistNat
      <4> QED
        BY <1>3, <2>1, <4>2, <4>3, <4>4, <4>5
    <3> QED
      BY <3>1, <3>2
  <2>7. Pending = Numbers(Len(taken), p)
    BY PendingIs DEF PendingTells
  <2>8. Pending' = Numbers(Len(taken) + need, p - need)
    <3>1. Pending' = Numbers(Len(taken'), Unread' - Unpublished')
      BY PendingIsNext DEF PendingTells
    <3>2. Unread - need - Unpublished = p - need
      BY <1>3, <2>5, PendingIs DEF PendingTells
    <3> QED
      BY <1>4, <2>3, <2>4, <3>1, <3>2
  <2>9. p \in Nat /\ need \in 0 .. p /\ need \in 1 .. p
    BY <1>3, <2>5, <2>6
  <2> HIDE DEF p
  <2>10. Len(Pending) = p
    BY <1>3, <2>7, <2>9, NumbersLen
  <2>11. SubSeq(Pending, need + 1, p) = Pending'
    BY <1>3, <2>7, <2>8, <2>9, LastNumbers
  <2>12. Pending' = SubSeq(Pending, need + 1, Len(Pending)) /\ need \in 1 .. Len(Pending)
    BY <2>9, <2>10, <2>11
  <2> QED
    BY <2>12 DEF Queue!Take
<1> QED
  BY <1>5, <1>6

\* No other step changes the queue.
LEMMA OthersKeep ==
    ASSUME RingInv, Behind, RingInv', Behind',
           FromW \/ FromLoop \/ FromEof \/ EncodeNoMemory \/ ToR \/ ToLoop \/ ToEof
              \/ HostWrite \/ HostSetLoop \/ HostSetEof \/ UNCHANGED vars
    PROVE  UNCHANGED Pending
<1>1. /\ Pending = Numbers(Len(taken), Unread - Unpublished)
      /\ Pending' = Numbers(Len(taken'), Unread' - Unpublished')
  BY PendingIs, PendingIsNext DEF PendingTells
<1>2. CASE HostWrite
  <2>1. PICK n \in 1 .. Room : /\ written' = written + n
                               /\ next_w' = Forward(I_W_ADDR, n)
    BY <1>2 DEF HostWrite
  <2>2. /\ host = "idle" /\ host' = "set_w" /\ UNCHANGED <<regs, dspVars>>
    BY <1>2 DEF HostWrite, HostAt
  <2>3. /\ TypeOK /\ Content /\ hdl.r_addr \in Addr /\ I_W_ADDR \in Addr
        /\ I_W_ADDR = Forward(hdl.r_addr, Unread) /\ Unread \in 0 .. Size
        /\ Size \in Nat \ {0}
    BY <2>2, Typed DEF RingInv, Content, Unread, WEnd
  <2>4. Unread' - Unpublished' = Dist(hdl.r_addr, I_W_ADDR)
    <3>1. Unread' - Unpublished' = Dist(hdl.r_addr, I_W_ADDR)'
      BY <2>2, PendingIsNext DEF PendingTells
    <3> QED
      BY <2>2, <3>1 DEF Dist, regs, dspVars
  <2>5. Unread < Size
    <3>1. Unread' = Unread + n /\ Unread' <= Size
      BY <2>1, <2>2, <2>3, Typed DEF RingInv, Content, Unread, dspVars
    <3>2. Room \in Int
      BY <1>2, RoomTrue DEF HostWrite, HostAt
    <3> QED
      BY <2>3, <3>1, <3>2
  <2>6. Dist(hdl.r_addr, I_W_ADDR) = Unread
    <3>1. Unread \in 0 .. Size - 1
      BY <2>3, <2>5
    <3> QED
      BY <2>3, <3>1, DistForward
  <2>7. Unread - Unpublished = Unread
    BY <2>2, <2>3 DEF Unpublished
  <2> QED
    BY <1>1, <2>2, <2>4, <2>6, <2>7 DEF dspVars
<1>3. CASE FromW \/ FromLoop \/ FromEof \/ EncodeNoMemory \/ ToR \/ ToLoop \/ ToEof
              \/ HostSetEof \/ UNCHANGED vars
  <2>1. UNCHANGED <<taken, written, host, next_w, I_W_ADDR>>
    BY <1>3 DEF FromW, FromLoop, FromEof, EncodeNoMemory, ToR, ToLoop, ToEof,
       HostSetEof, HostAt, vars, regs, hostVars, dspVars
  <2> QED
    BY <1>1, <2>1 DEF Unread, Unpublished
<1>4. CASE HostSetLoop
  <2>1. host # "set_w" /\ host' # "set_w" /\ UNCHANGED <<taken, written>>
    BY <1>4 DEF HostSetLoop, HostAt, dspVars
  <2> QED
    BY <1>1, <2>1 DEF Unread, Unpublished
<1> QED
  BY <1>2, <1>3, <1>4

\* The ring is a first-in first-out queue, for any size and any interleaving:
\* every step of task_process and of the host puts bytes, takes bytes or leaves
\* the bytes that wait as they are.
THEOREM InImplementsFifo == Covered /\ Spec => IsFifo
<1> SUFFICES ASSUME Covered PROVE Spec => IsFifo
  OBVIOUS
<1>1. Init => Behind /\ Queue!Init
  <2> SUFFICES ASSUME Init PROVE Behind /\ Queue!Init
    OBVIOUS
  <2>1. Behind
    BY DEF Init, Behind
  <2>2. Len(taken) = 0 /\ Unpublished = 0 /\ Unread = 0
    <3>1. Len(taken) = 0 /\ written = 0 /\ host = "idle"
      BY DEF Init
    <3> QED
      BY <3>1 DEF Unpublished, Unread
  <2>3. Pending = Numbers(0, 0)
    BY <2>1, <2>2, InitInv, PendingIs DEF PendingTells
  <2> QED
    BY <2>1, <2>3 DEF Queue!Init, Numbers
<1>2. RingInv /\ Behind /\ RingInv' /\ Behind' /\ [Next]_vars => [Queue!Next]_Pending
  <2> SUFFICES ASSUME RingInv, Behind, RingInv', Behind', [Next]_vars
               PROVE  [Queue!Next]_Pending
    OBVIOUS
  <2> QED
    BY SetWPuts, EncodeTakes, OthersKeep DEF Next, Dsp, Host, Queue!Next
<1>3. Init => RingInv
  BY InitInv
<1>4. Spec => [](RingInv /\ Behind)
  BY <1>1, <1>3, NextInv, BehindNext, PTL DEF Spec
<1> QED
  BY <1>1, <1>2, <1>4, PTL DEF Spec, IsFifo, Queue!Spec
=============================================================================
