--------------------------- MODULE OsBufferProofs ---------------------------
(***************************************************************************)
(* Lemmas about the operations on a ring handle, for rings of any size.    *)
(***************************************************************************)
EXTENDS OsBuffer, TLAPS

\* How far b lies ahead of a, going round the ring.
Dist(a, b) == IF b >= a THEN b - a ELSE Size + b - a

\* A pointer that moves on by at most a whole ring stays inside it.
LEMMA ForwardAddr ==
    ASSUME NEW a \in Addr, NEW n \in 0 .. Size
    PROVE  Forward(a, n) \in Addr
BY SizeAssumption DEF Forward, Addr

\* Moving on in two steps is moving on by the sum.
LEMMA ForwardForward ==
    ASSUME NEW a \in Addr, NEW m \in Nat, NEW n \in Nat, m + n <= Size
    PROVE  Forward(Forward(a, m), n) = Forward(a, m + n)
BY SizeAssumption DEF Forward, Addr

\* The pointer reached in n < Size steps is n ahead.
LEMMA DistForward ==
    ASSUME NEW a \in Addr, NEW n \in 0 .. Size - 1
    PROVE  Dist(a, Forward(a, n)) = n
BY SizeAssumption DEF Forward, Addr, Dist

LEMMA ForwardDist ==
    ASSUME NEW a \in Addr, NEW b \in Addr
    PROVE  Dist(a, b) \in 0 .. Size - 1 /\ Forward(a, Dist(a, b)) = b
BY SizeAssumption DEF Forward, Addr, Dist

\* fillLen is the distance from R to W, or the whole ring when loop is set.
LEMMA FillIs ==
    ASSUME NEW h \in Handles
    PROVE  FillLen(h) = IF h.loop = 1 THEN Size ELSE Dist(h.r_addr, h.w_addr)
BY DEF FillLen, Dist, Handles

LEMMA FillType ==
    ASSUME NEW h \in Handles
    PROVE  FillLen(h) \in 0 .. Size
BY SizeAssumption DEF FillLen, Handles, Addr

\* A read looks at the bytes from R on, one after the other.
LEMMA ReadsAt ==
    ASSUME NEW m, NEW a \in Addr, NEW n \in 0 .. Size, NEW i \in 1 .. n
    PROVE  BytesAt(m, a, n)[i] = m[Forward(a, i - 1)]
<1>1. BytesAt(m, a, n)[i] = IF a + i <= Size THEN m[a + i - 1] ELSE m[a + i - 1 - Size]
  BY DEF BytesAt
<1>2. CASE a + i <= Size
  <2>1. Forward(a, i - 1) = a + i - 1
    BY <1>2, SizeAssumption DEF Forward, Addr
  <2> QED
    BY <1>1, <1>2, <2>1
<1>3. CASE ~ (a + i <= Size)
  <2>1. Forward(a, i - 1) = a + i - 1 - Size
    BY <1>3, SizeAssumption DEF Forward, Addr
  <2> QED
    BY <1>1, <1>3, <2>1
<1> QED
  BY <1>2, <1>3

\* A write of no more than a ring puts byte j behind the first j ...
LEMMA WriteStores ==
    ASSUME NEW m, NEW a \in Addr, NEW s, Len(s) \in 0 .. Size,
           NEW j \in 0 .. Len(s) - 1
    PROVE  WithBytes(m, a, s)[Forward(a, j)] = s[j + 1]
<1> DEFINE k == Forward(a, j)
<1>1. k \in Addr /\ j \in 0 .. Size
  BY SizeAssumption, ForwardAddr
<1>2. CASE a + j >= Size
  <2>1. k = a + j - Size /\ k < a /\ k + Size - a = j
    BY <1>2, SizeAssumption DEF Forward, Addr
  <2> QED
    BY <1>1, <2>1 DEF WithBytes, Addr
<1>3. CASE ~ (a + j >= Size)
  <2>1. k = a + j /\ k >= a /\ k - a = j
    BY <1>3, SizeAssumption DEF Forward, Addr
  <2> QED
    BY <1>1, <2>1 DEF WithBytes, Addr
<1> QED
  BY <1>2, <1>3

\* ... and touches nothing else.
LEMMA WriteKeeps ==
    ASSUME NEW m, NEW a \in Addr, NEW s, Len(s) \in 0 .. Size,
           NEW k \in Addr, Dist(a, k) >= Len(s)
    PROVE  WithBytes(m, a, s)[k] = m[k]
BY SizeAssumption DEF WithBytes, Addr, Dist

LEMMA WriteType ==
    ASSUME NEW S, NEW m \in [Addr -> S], NEW a \in Addr, NEW s \in Seq(S)
    PROVE  WithBytes(m, a, s) \in [Addr -> S]
<1>1. ASSUME NEW k \in Addr PROVE WithBytes(m, a, s)[k] \in S
  <2>1. CASE k >= a /\ k - a < Len(s)
    <3>1. k - a + 1 \in 1 .. Len(s)
      BY <2>1, SizeAssumption DEF Addr
    <3> QED
      BY <2>1, <3>1 DEF WithBytes
  <2>2. CASE ~ (k >= a /\ k - a < Len(s)) /\ k < a /\ k + Size - a < Len(s)
    <3>1. k + Size - a + 1 \in 1 .. Len(s)
      BY <2>2, SizeAssumption DEF Addr
    <3> QED
      BY <2>2, <3>1 DEF WithBytes
  <2>3. CASE ~ (k >= a /\ k - a < Len(s)) /\ ~ (k < a /\ k + Size - a < Len(s))
    BY <2>3 DEF WithBytes
  <2> QED
    BY <2>1, <2>2, <2>3
<1> QED
  BY <1>1 DEF WithBytes

\* The bytes n, n + 1, ... of a stream, as they wait in the ring from R on.
Waits(m, r, n, len) ==
    \A k \in 0 .. len - 1 : m[Forward(r, k)] = n + k + 1

Numbers(n, len) == [i \in 1 .. len |-> n + i]

\* A read from a ring in order gives the next bytes of the stream.
LEMMA ReadInOrder ==
    ASSUME NEW m, NEW r \in Addr, NEW n \in Nat, NEW len \in 0 .. Size,
           NEW l \in 0 .. len, Waits(m, r, n, len)
    PROVE  BytesAt(m, r, l) = Numbers(n, l)
<1>1. ASSUME NEW i \in 1 .. l PROVE BytesAt(m, r, l)[i] = n + i
  <2>1. l \in 0 .. Size
    BY SizeAssumption
  <2>2. BytesAt(m, r, l)[i] = m[Forward(r, i - 1)]
    BY <2>1, ReadsAt
  <2>3. i - 1 \in 0 .. len - 1 /\ n + (i - 1) + 1 = n + i
    OBVIOUS
  <2> QED
    BY <2>2, <2>3 DEF Waits
<1>2. BytesAt(m, r, l) = [i \in 1 .. l |-> BytesAt(m, r, l)[i]]
  BY DEF BytesAt
<1> QED
  BY <1>1, <1>2 DEF Numbers

\* After the read the rest still waits in order.
LEMMA ReadLeavesOrder ==
    ASSUME NEW m, NEW r \in Addr, NEW n \in Nat, NEW len \in 0 .. Size,
           NEW l \in 0 .. len, Waits(m, r, n, len)
    PROVE  Waits(m, Forward(r, l), n + l, len - l)
<1> SUFFICES ASSUME NEW k \in 0 .. (len - l) - 1
             PROVE  m[Forward(Forward(r, l), k)] = n + l + k + 1
  BY DEF Waits
<1>1. Forward(Forward(r, l), k) = Forward(r, l + k)
  BY ForwardForward, SizeAssumption
<1>2. l + k \in 0 .. len - 1 /\ n + (l + k) + 1 = n + l + k + 1
  BY SizeAssumption
<1> QED
  BY <1>1, <1>2 DEF Waits

\* A write behind the last byte that waits leaves the longer run in order,
\* provided that it fits.
LEMMA WriteKeepsOrder ==
    ASSUME NEW m, NEW r \in Addr, NEW n \in Nat, NEW len \in Nat, NEW l \in Nat,
           len + l <= Size, Waits(m, r, n, len)
    PROVE  Waits(WithBytes(m, Forward(r, len), Numbers(n + len, l)), r, n, len + l)
<1> DEFINE a == Forward(r, len)
           s == Numbers(n + len, l)
<1>1. Len(s) = l /\ \A i \in 1 .. l : s[i] = n + len + i
  BY DEF Numbers
<1>2. a \in Addr
  BY ForwardAddr, SizeAssumption
<1> SUFFICES ASSUME NEW k \in 0 .. (len + l) - 1
             PROVE  WithBytes(m, a, s)[Forward(r, k)] = n + k + 1
  BY DEF Waits
<1> HIDE DEF s
<1>3. CASE k < len
  <2>1. Forward(r, k) \in Addr
    BY ForwardAddr, SizeAssumption
  <2>2. Dist(a, Forward(r, k)) >= l
    BY <1>3, SizeAssumption DEF Dist, Forward, Addr
  <2>3. WithBytes(m, a, s)[Forward(r, k)] = m[Forward(r, k)]
    BY <1>1, <1>2, <2>1, <2>2, WriteKeeps, SizeAssumption
  <2> QED
    BY <1>3, <2>3 DEF Waits
<1>4. CASE k >= len
  <2>1. Forward(r, k) = Forward(a, k - len)
    BY <1>4, ForwardForward, SizeAssumption
  <2>2. k - len \in 0 .. Len(s) - 1 /\ Len(s) \in 0 .. Size
    BY <1>1, <1>4, SizeAssumption
  <2>3. WithBytes(m, a, s)[Forward(a, k - len)] = s[(k - len) + 1]
    BY <1>2, <2>2, WriteStores
  <2>4. s[(k - len) + 1] = n + k + 1
    BY <1>1, <1>4, SizeAssumption
  <2> QED
    BY <2>1, <2>3, <2>4
<1> QED
  BY <1>3, <1>4, SizeAssumption

LEMMA NumbersLen ==
    ASSUME NEW n \in Nat, NEW l \in Nat
    PROVE  Len(Numbers(n, l)) = l
BY DEF Numbers

\* A stream received in order goes on in order.
LEMMA AppendInOrder ==
    ASSUME NEW M \in Nat, NEW s \in Seq(0 .. M), \A i \in 1 .. Len(s) : s[i] = i,
           NEW l \in Nat, Len(s) + l <= M
    PROVE  /\ s \o Numbers(Len(s), l) \in Seq(0 .. M)
           /\ Len(s \o Numbers(Len(s), l)) = Len(s) + l
           /\ \A i \in 1 .. Len(s) + l : (s \o Numbers(Len(s), l))[i] = i
<1> DEFINE t == Numbers(Len(s), l)
<1>1. Len(s) \in Nat
  OBVIOUS
<1>2. \A i \in 1 .. l : Len(s) + i \in 0 .. M
  BY <1>1
<1>3. t \in Seq(0 .. M)
  BY <1>2 DEF Numbers
<1>4. Len(t) = l /\ \A i \in 1 .. l : t[i] = Len(s) + i
  BY <1>1 DEF Numbers
<1> HIDE DEF t
<1>5. /\ s \o t \in Seq(0 .. M)
      /\ Len(s \o t) = Len(s) + l
  BY <1>3, <1>4
<1>6. ASSUME NEW i \in 1 .. Len(s) + l PROVE (s \o t)[i] = i
  <2>1. CASE i <= Len(s)
    <3>1. i \in 1 .. Len(s)
      BY <1>1, <2>1
    <3>2. (s \o t)[i] = s[i]
      BY <1>1, <1>3, <1>4, <2>1
    <3> QED
      BY <3>1, <3>2
  <2>2. CASE i > Len(s)
    <3>1. i - Len(s) \in 1 .. l
      BY <1>1, <2>2
    <3>2. (s \o t)[i] = t[i - Len(s)]
      BY <1>1, <1>3, <1>4, <2>2
    <3>3. Len(s) + (i - Len(s)) = i
      BY <1>1
    <3> QED
      BY <1>4, <3>1, <3>2, <3>3
  <2>3. i <= Len(s) \/ i > Len(s)
    BY <1>1
  <2> QED
    BY <2>1, <2>2, <2>3
<1> QED
  BY <1>5, <1>6 DEF t

\* Moving the near pointer on by n, up to the far one, shortens the distance by n.
LEMMA DistNear ==
    ASSUME NEW a \in Addr, NEW b \in Addr, NEW n \in 0 .. Dist(a, b)
    PROVE  Dist(Forward(a, n), b) = Dist(a, b) - n
BY SizeAssumption DEF Dist, Forward, Addr

\* Moving the far one on, short of the near one, lengthens it by n.
LEMMA DistFar ==
    ASSUME NEW a \in Addr, NEW b \in Addr, NEW n \in Nat, Dist(a, b) + n < Size
    PROVE  Dist(a, Forward(b, n)) = Dist(a, b) + n
BY SizeAssumption DEF Dist, Forward, Addr

LEMMA DistNat ==
    ASSUME NEW a \in Addr, NEW b \in Addr
    PROVE  Dist(a, b) \in Nat /\ Dist(a, b) < Size
BY SizeAssumption DEF Dist, Addr

LEMMA AfterReadFields ==
    ASSUME NEW h \in Handles, NEW n \in 1 .. Size
    PROVE  /\ AfterRead(h, n).r_addr = Forward(h.r_addr, n)
           /\ AfterRead(h, n).w_addr = h.w_addr
           /\ AfterRead(h, n).loop = 0
           /\ AfterRead(h, n).eof = h.eof
           /\ AfterRead(h, n) \in Handles
<1>1. h.r_addr \in Addr
  BY DEF Handles
<1>2. n \in 0 .. Size /\ n > 0
  BY SizeAssumption
<1>3. Forward(h.r_addr, n) \in Addr
  BY <1>1, <1>2, ForwardAddr
<1>4. AfterRead(h, n) = [h EXCEPT !.r_addr = Forward(h.r_addr, n), !.loop = 0]
  BY <1>2 DEF AfterRead, Handles
<1> QED
  BY <1>3, <1>4 DEF Handles, Flag

LEMMA AfterWriteFields ==
    ASSUME NEW h \in Handles, NEW n \in 1 .. Size
    PROVE  /\ AfterWrite(h, n).r_addr = h.r_addr
           /\ AfterWrite(h, n).w_addr = Forward(h.w_addr, n)
           /\ AfterWrite(h, n).loop = IF h.r_addr = Forward(h.w_addr, n) THEN 1 ELSE h.loop
           /\ AfterWrite(h, n).eof = h.eof
           /\ AfterWrite(h, n) \in Handles
<1>1. h.w_addr \in Addr
  BY DEF Handles
<1>2. n \in 0 .. Size /\ n > 0
  BY SizeAssumption
<1>3. Forward(h.w_addr, n) \in Addr
  BY <1>1, <1>2, ForwardAddr
<1> DEFINE l == IF h.r_addr = Forward(h.w_addr, n) THEN 1 ELSE h.loop
<1>4. AfterWrite(h, n) = [h EXCEPT !.w_addr = Forward(h.w_addr, n), !.loop = l]
  BY <1>2 DEF AfterWrite, Handles
<1>5. l \in Flag
  BY DEF Handles, Flag
<1> HIDE DEF l
<1>6. /\ AfterWrite(h, n).r_addr = h.r_addr
      /\ AfterWrite(h, n).w_addr = Forward(h.w_addr, n)
      /\ AfterWrite(h, n).loop = l
      /\ AfterWrite(h, n).eof = h.eof
      /\ AfterWrite(h, n) \in Handles
  BY <1>3, <1>4, <1>5 DEF Handles
<1> QED
  BY <1>6 DEF l

\* The first k of a run of bytes, and the rest of it.
LEMMA FirstNumbers ==
    ASSUME NEW n \in Nat, NEW l \in Nat, NEW k \in 0 .. l
    PROVE  SubSeq(Numbers(n, l), 1, k) = Numbers(n, k)
BY DEF Numbers

LEMMA LastNumbers ==
    ASSUME NEW n \in Nat, NEW l \in Nat, NEW k \in 0 .. l
    PROVE  SubSeq(Numbers(n, l), k + 1, l) = Numbers(n + k, l - k)
BY DEF Numbers

\* From w, which is less than u ahead of a, on to the place u ahead of a.
LEMMA DistRest ==
    ASSUME NEW a \in Addr, NEW w \in Addr, NEW u \in 0 .. Size, Dist(a, w) < u
    PROVE  (IF Forward(a, u) > w THEN Forward(a, u) - w ELSE Size + Forward(a, u) - w)
                = u - Dist(a, w)
BY SizeAssumption DEF Dist, Forward, Addr
=============================================================================
