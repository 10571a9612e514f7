----------------------------- MODULE TaskProofs -----------------------------
(***************************************************************************)
(* Theorems about Task, for any number of tasks, any heap, any sizes of    *)
(* what a task allocates and any table of codecs.                          *)
(***************************************************************************)
EXTENDS Task, TLAPS

\* What of the heap the tasks rely on: the first flag of a block somebody
\* holds is set, and no two of them begin at the same place.
HeapPart ==
    /\ used \in [Heap!Class -> SUBSET Nat]
    /\ pos \in [Heap!Class -> Nat]
    /\ \A c \in Heap!Class : pos[c] \in Heap!Slots(c)
    /\ live \subseteq Heap!Blocks
    /\ \A b \in live : b.idx \in used[b.cls]
    /\ \A b, d \in live : b.cls = d.cls /\ b.idx = d.idx => b = d

Ptr == Heap!Blocks \cup {NULL}

Context ==
    [task_status : {"TASK_IDLE", "TASK_WORK"}, in_buf : Ptr, out_buf : Ptr,
     priv_context : Ptr, stream_init : BOOLEAN, body_data : Ptr,
     granule_vals : Ptr, st : Ptr]

\* No pointer stands in two places of s.
Distinct(s) ==
    \A i, j \in DOMAIN s : s[i] # NULL /\ s[i] = s[j] => i = j

Contexts ==
    /\ ctx \in [TaskIDs -> Context] /\ task \in TaskIDs
    /\ \A id \in TaskIDs :
          /\ ctx[id].task_status = "TASK_IDLE" => ctx[id] = Idle
          /\ ~ ctx[id].stream_init => ctx[id].body_data = NULL /\ ctx[id].granule_vals = NULL
          /\ Distinct(Pointers(ctx[id]))

Allocating == op \in {"create", "stream", "head"}
Freeing    == op \in {"destroy", "clear", "chain"}

\* What a call has got and what it still asks for, together.
Asks ==
    /\ op = "create" =>
          /\ Len(got) + Len(todo) \in {2, 3}
          /\ \A i \in 1 .. Len(todo) :
                todo[i] = IF Len(got) + i <= 2 THEN HandleSize ELSE ContextSize
    /\ op = "stream" =>
          /\ Len(got) + Len(todo) = 2
          /\ \A i \in 1 .. Len(todo) : todo[i] \in {BodySize, GranuleSize}
    /\ op = "head" =>
          /\ Len(got) + Len(todo) = 1
          /\ \A i \in 1 .. Len(todo) : todo[i] = DecoderSize

\* The call in progress, and what it has put aside in the context.
Calls ==
    /\ op = "loop" \/ Allocating \/ Freeing
    /\ Allocating => got \in Seq(Ptr) /\ todo \in Seq(Nat) /\ Distinct(got) /\ Asks
    /\ Freeing => todo \in Seq(Ptr) /\ Distinct(todo)
    /\ op = "create" => ctx[task].task_status = "TASK_IDLE"
    /\ op \in {"stream", "head", "clear", "chain", "destroy"} =>
          ctx[task].task_status = "TASK_WORK"
    /\ op = "stream" => ~ ctx[task].stream_init
    /\ op \in {"head", "chain"} => ctx[task].st = NULL /\ ctx[task].stream_init
    /\ op = "chain" => got = <<>>

\* A handle that was refused leaves a heap that refuses handles, and with them
\* the bigger context: nothing is freed before the call is over.
StaysFull ==
    op = "create" /\ (\E i \in DOMAIN got : i <= 2 /\ got[i] = NULL) =>
        /\ Heap!Refuses(HandleSize)
        /\ Len(got) = 3 => got[3] = NULL

\* The inductive invariant.
TaskInv ==
    /\ HeapPart
    /\ Contexts
    /\ Calls
    /\ OwnedOnce /\ InHand \subseteq live
    /\ StaysFull
    /\ WorkHasBuffers

-----------------------------------------------------------------------------
(* Sequences of pointers                                                   *)

LEMMA Appended ==
    ASSUME NEW s \in Seq(Ptr), NEW p \in Ptr
    PROVE  /\ Append(s, p) \in Seq(Ptr) /\ Len(Append(s, p)) = Len(s) + 1
           /\ NonNull(Append(s, p)) = NonNull(s) \cup ({p} \ {NULL})
           /\ Distinct(s) /\ p \notin NonNull(s) => Distinct(Append(s, p))
<1>1. /\ Append(s, p) \in Seq(Ptr) /\ Len(Append(s, p)) = Len(s) + 1
      /\ Len(s) \in Nat /\ DOMAIN s = 1 .. Len(s)
      /\ DOMAIN Append(s, p) = 1 .. Len(s) + 1
      /\ \A i \in 1 .. Len(s) : Append(s, p)[i] = s[i]
      /\ Append(s, p)[Len(s) + 1] = p
  OBVIOUS
<1>2. NonNull(Append(s, p)) \subseteq NonNull(s) \cup ({p} \ {NULL})
  BY <1>1 DEF NonNull
<1>3. ASSUME NEW q \in NonNull(s) PROVE q \in NonNull(Append(s, p))
  <2>1. PICK i \in 1 .. Len(s) : q = s[i]
    BY <1>1, <1>3 DEF NonNull
  <2>2. i \in 1 .. Len(s) + 1 /\ Append(s, p)[i] = q
    BY <1>1, <2>1
  <2> QED
    BY <1>1, <1>3, <2>2 DEF NonNull
<1>4. p # NULL => p \in NonNull(Append(s, p))
  <2>1. Len(s) + 1 \in 1 .. Len(s) + 1
    BY <1>1
  <2> QED
    BY <1>1, <2>1 DEF NonNull
<1>5. ASSUME Distinct(s), p \notin NonNull(s) PROVE Distinct(Append(s, p))
  <2> SUFFICES ASSUME NEW i \in 1 .. Len(s) + 1, NEW j \in 1 .. Len(s) + 1,
                      Append(s, p)[i] # NULL, Append(s, p)[i] = Append(s, p)[j]
               PROVE  i = j
    BY <1>1 DEF Distinct
  <2>1. CASE i \in 1 .. Len(s) /\ j \in 1 .. Len(s)
    BY <1>1, <1>5, <2>1 DEF Distinct
  <2>2. CASE i \in 1 .. Len(s) /\ j = Len(s) + 1
    BY <1>1, <1>5, <2>2 DEF NonNull
  <2>3. CASE i = Len(s) + 1 /\ j \in 1 .. Len(s)
    BY <1>1, <1>5, <2>3 DEF NonNull
  <2> QED
    BY <1>1, <2>1, <2>2, <2>3
<1> QED
  BY <1>1, <1>2, <1>3, <1>4, <1>5

LEMMA Taken ==
    ASSUME NEW s \in Seq(Ptr), s # <<>>, Distinct(s)
    PROVE  /\ Head(s) \in Ptr /\ Tail(s) \in Seq(Ptr) /\ Distinct(Tail(s))
           /\ Head(s) # NULL => Head(s) \in NonNull(s)
           /\ NonNull(Tail(s)) = NonNull(s) \ {Head(s)}
<1>1. /\ Len(s) \in Nat \ {0} /\ DOMAIN s = 1 .. Len(s)
      /\ Head(s) = s[1] /\ 1 \in DOMAIN s
      /\ Tail(s) \in Seq(Ptr)
      /\ Len(Tail(s)) = Len(s) - 1 /\ DOMAIN Tail(s) = 1 .. Len(s) - 1
      /\ \A i \in 1 .. Len(s) - 1 : Tail(s)[i] = s[i + 1]
  OBVIOUS
<1>2. Head(s) \in Ptr /\ (Head(s) # NULL => Head(s) \in NonNull(s))
  BY <1>1 DEF NonNull
<1>3. ASSUME NEW i \in 1 .. Len(s) - 1
      PROVE  i + 1 \in DOMAIN s /\ i + 1 # 1 /\ Tail(s)[i] = s[i + 1]
  BY <1>1
<1>4. Distinct(Tail(s))
  <2> SUFFICES ASSUME NEW i \in 1 .. Len(s) - 1, NEW j \in 1 .. Len(s) - 1,
                      Tail(s)[i] # NULL, Tail(s)[i] = Tail(s)[j]
               PROVE  i = j
    BY <1>1 DEF Distinct
  <2>1. i + 1 = j + 1
    BY <1>3 DEF Distinct
  <2> QED
    BY <1>1, <2>1
<1>5. ASSUME NEW q \in NonNull(Tail(s)) PROVE q \in NonNull(s) \ {Head(s)}
  <2>1. PICK i \in 1 .. Len(s) - 1 : q = Tail(s)[i] /\ q # NULL
    BY <1>1, <1>5 DEF NonNull
  <2> QED
    BY <1>1, <1>3, <2>1 DEF NonNull, Distinct
<1>6. ASSUME NEW q \in NonNull(s), q # Head(s) PROVE q \in NonNull(Tail(s))
  <2>1. PICK i \in 1 .. Len(s) : q = s[i] /\ q # NULL
    BY <1>1, <1>6 DEF NonNull
  <2>2. i - 1 \in 1 .. Len(s) - 1 /\ Tail(s)[i - 1] = s[(i - 1) + 1] /\ (i - 1) + 1 = i
    BY <1>1, <1>6, <2>1
  <2> QED
    BY <1>1, <2>1, <2>2 DEF NonNull
<1> QED
  BY <1>1, <1>2, <1>4, <1>5, <1>6

\* The pointers of a context, one by one.
LEMMA Pointed ==
    ASSUME NEW c \in Context
    PROVE  /\ Pointers(c) \in Seq(Ptr)
           /\ NonNull(Pointers(c)) = {c.st, c.body_data, c.granule_vals, c.priv_context,
                                      c.in_buf, c.out_buf} \ {NULL}
<1>1. /\ DOMAIN Pointers(c) = 1 .. 6 /\ Len(Pointers(c)) = 6
      /\ Pointers(c)[1] = c.st /\ Pointers(c)[2] = c.body_data
      /\ Pointers(c)[3] = c.granule_vals /\ Pointers(c)[4] = c.priv_context
      /\ Pointers(c)[5] = c.in_buf /\ Pointers(c)[6] = c.out_buf
  BY DEF Pointers
<1>2. Pointers(c) \in Seq(Ptr)
  BY DEF Pointers, Context
<1> QED
  BY <1>1, <1>2 DEF NonNull

LEMMA IdlePoints == Idle \in Context /\ NonNull(Pointers(Idle)) = {}
<1>1. Idle \in Context
  BY DEF Idle, Context, Ptr
<1> QED
  BY <1>1, Pointed DEF Idle

-----------------------------------------------------------------------------
(* The heap as the tasks see it                                            *)

\* What os_malloc hands out nobody holds yet.
LEMMA Fresh ==
    ASSUME HeapPart, NEW size \in Nat, NEW b \in Heap!Candidates(size), Heap!Grants(size, b)
    PROVE  /\ b \in Heap!Blocks /\ b.cls \in Heap!Class /\ b.idx \in Heap!Slots(b.cls)
           /\ b.idx \notin used[b.cls]
           /\ b.idx \in Heap!Span(b)
<1>1. /\ b \in Heap!Blocks /\ b.cls \in Heap!Class /\ b.idx \in Heap!Slots(b.cls)
      /\ b.idx \in Nat /\ b.cnt \in Nat \ {0} /\ Cnt[b.cls] \in Nat
  <2>1. PICK c \in Heap!Class :
           b \in [cls : {c}, idx : Heap!Slots(c), cnt : 1 .. Cnt[Heap!Big], size : {size}]
    BY DEF Heap!Candidates
  <2>2. Cnt[Heap!Big] \in Nat /\ Cnt[c] \in Nat
    BY TaskAssumption DEF Heap!Big, Heap!Class
  <2> QED
    BY <2>1, <2>2 DEF Heap!Blocks, Heap!Slots
<1>2. b.idx \in Heap!Later(b.cls, b.cnt) \/ b.idx \in Heap!Earlier(b.cls, b.cnt)
  BY DEF Heap!Grants, Heap!Found
<1>3. ~ Heap!Flagged(b.cls, b.idx + 0)
  BY <1>1, <1>2 DEF Heap!Later, Heap!Earlier, Heap!Run
<1>4. b.idx \notin used[b.cls]
  BY <1>1, <1>3 DEF Heap!Flagged, Heap!Slots
<1> QED
  BY <1>1, <1>4 DEF Heap!Span

LEMMA GrantKeeps ==
    ASSUME HeapPart, NEW size \in Nat, NEW b \in Heap!Candidates(size), Heap!Grant(size, b)
    PROVE  HeapPart' /\ live' = live \cup {b} /\ b \notin live /\ b \in Heap!Blocks
<1>1. Heap!Grants(size, b) /\ live' = live \cup {b} /\ used' = Heap!UsedWith(b)
      /\ pos' = [pos EXCEPT ![b.cls] = b.idx]
  BY DEF Heap!Grant
<1>2. /\ b \in Heap!Blocks /\ b.cls \in Heap!Class /\ b.idx \in Heap!Slots(b.cls)
      /\ b.idx \notin used[b.cls] /\ b.idx \in Heap!Span(b)
      /\ Heap!Span(b) \subseteq Nat /\ b.idx \in Nat
  BY <1>1, Fresh DEF Heap!Span, Heap!Blocks
<1>3. used' = [used EXCEPT ![b.cls] = used[b.cls] \cup Heap!Span(b)]
      /\ used' \in [Heap!Class -> SUBSET Nat]
  BY <1>1, <1>2 DEF HeapPart, Heap!UsedWith
<1>4. \A d \in live : d.cls \in Heap!Class /\ d.idx \in used[d.cls]
  BY DEF HeapPart, Heap!Blocks
<1>5. \A d \in live' : d.idx \in used'[d.cls]
  BY <1>1, <1>2, <1>3, <1>4 DEF HeapPart
<1>6. \A d, e \in live' : d.cls = e.cls /\ d.idx = e.idx => d = e
  BY <1>1, <1>2, <1>4 DEF HeapPart
<1>7. pos' \in [Heap!Class -> Nat] /\ \A c \in Heap!Class : pos'[c] \in Heap!Slots(c)
  BY <1>1, <1>2 DEF HeapPart
<1>8. b \notin live
  BY <1>2, <1>4
<1> QED
  BY <1>1, <1>2, <1>3, <1>5, <1>6, <1>7, <1>8 DEF HeapPart, Heap!Slots

LEMMA FreeKeeps ==
    ASSUME HeapPart, NEW b \in live, Heap!Free(b)
    PROVE  HeapPart' /\ live' = live \ {b}
<1>1. live' = live \ {b} /\ used' = Heap!UsedWithout(used, b) /\ pos' = pos
  BY DEF Heap!Free
<1>2. \A d \in live : d.cls \in Heap!Class /\ d.idx \in used[d.cls]
  BY DEF HeapPart, Heap!Blocks
<1>3. used' \in [Heap!Class -> SUBSET Nat]
  BY <1>1, <1>2 DEF HeapPart, Heap!UsedWithout
<1>4. \A d \in live' : d.idx \in used'[d.cls]
  BY <1>1, <1>2 DEF HeapPart, Heap!UsedWithout
<1> QED
  BY <1>1, <1>3, <1>4 DEF HeapPart, Heap!Slots
\* A longer run fits nowhere where a shorter one does not.
LEMMA NoFitMore ==
    ASSUME NEW c, NEW n \in Nat, NEW m \in Nat, n <= m, Heap!NoFit(c, n),
           Cnt[c] \in Nat, pos[c] \in Nat
    PROVE  Heap!NoFit(c, m)
<1>1. ASSUME NEW i, Heap!Run(c, i, m) PROVE Heap!Run(c, i, n)
  BY <1>1 DEF Heap!Run
<1>2. Heap!Later(c, m) \subseteq Heap!Later(c, n)
  BY <1>1 DEF Heap!Later
<1>3. Heap!Earlier(c, m) \subseteq Heap!Earlier(c, n)
  BY <1>1 DEF Heap!Earlier
<1> QED
  BY <1>2, <1>3 DEF Heap!NoFit

LEMMA PiecesMore ==
    ASSUME NEW s \in Nat, NEW t \in Nat, s <= t
    PROVE  Heap!Pieces(s) \in Nat /\ Heap!Pieces(t) \in Nat /\ Heap!Pieces(s) <= Heap!Pieces(t)
<1>1. ASSUME NEW a \in Nat, NEW b \in Nat, a <= b, NEW d \in Nat \ {0}
      PROVE  a \div d \in Nat /\ b \div d \in Nat /\ a \div d <= b \div d
  BY <1>1
<1>2. Bytes[Heap!Big] \in Nat \ {0}
  BY TaskAssumption DEF Heap!Big
<1> DEFINE B == Bytes[Heap!Big]
<1>3. s + B - 1 \in Nat /\ t + B - 1 \in Nat /\ s + B - 1 <= t + B - 1
  BY <1>2
<1> HIDE DEF B
<1>4. /\ (s + B - 1) \div B \in Nat /\ (t + B - 1) \div B \in Nat
      /\ (s + B - 1) \div B <= (t + B - 1) \div B
  BY <1>1, <1>2, <1>3 DEF B
<1> QED
  BY <1>4 DEF B, Heap!Pieces

\* A heap that refuses a handle grants neither a handle nor a context.
LEMMA FullForBoth ==
    ASSUME HeapPart, Heap!Refuses(HandleSize), NEW size \in {HandleSize, ContextSize},
           NEW b \in Heap!Candidates(size), Heap!Grants(size, b)
    PROVE  FALSE
<1>1. HandleSize \in Nat /\ size \in Nat /\ HandleSize <= size
  BY TaskAssumption DEF Sizes
<1>2. /\ b.cls \in 1 .. NClass /\ NClass \in Nat /\ b.cnt \in Nat \ {0}
      /\ \A c \in 1 .. NClass : Cnt[c] \in Nat /\ pos[c] \in Nat /\ Bytes[c] \in Nat
  BY <1>1, Fresh, TaskAssumption DEF Heap!Class, Heap!Blocks, HeapPart
<1>3. PICK n \in 1 .. Cnt[NClass] : Heap!Tries(HandleSize, NClass, n) /\ Heap!NoFit(NClass, n)
  BY DEF Heap!Refuses, Heap!Big
<1>4. PICK f \in 1 .. NClass :
         /\ Heap!Starts(HandleSize, f)
         /\ \A d \in f .. NClass - 1 : Heap!NoFit(d, 1)
         /\ n = IF f = NClass THEN Heap!Pieces(HandleSize) ELSE 1
  BY <1>3 DEF Heap!Tries, Heap!Big
<1>5. PICK g \in 1 .. b.cls :
         /\ Heap!Starts(size, g)
         /\ b.cnt = IF g = NClass THEN Heap!Pieces(size) ELSE 1
  BY DEF Heap!Grants, Heap!Tries, Heap!Big
<1>6. Heap!Found(b.cls, b.cnt, b.idx)
  BY DEF Heap!Grants
<1>7. ~ Heap!NoFit(b.cls, b.cnt)
  BY <1>6 DEF Heap!Found, Heap!NoFit
<1>8. f <= g
  <2> SUFFICES ASSUME g < f PROVE FALSE
    BY <1>2, <1>4, <1>5
  <2>1. g \in 1 .. f - 1 /\ g # NClass /\ g \in 1 .. NClass
    BY <1>2, <1>4, <1>5
  <2>2. size <= Bytes[g] /\ HandleSize > Bytes[g]
    BY <1>4, <1>5, <2>1 DEF Heap!Starts, Heap!Big
  <2> QED
    BY <1>1, <1>2, <2>1, <2>2
<1>9. CASE b.cls # NClass
  <2>1. b.cls \in f .. NClass - 1 /\ g # NClass
    BY <1>2, <1>4, <1>5, <1>8, <1>9
  <2> QED
    BY <1>4, <1>5, <1>7, <2>1
<1>10. CASE b.cls = NClass
  <2>1. n <= b.cnt
    <3>1. CASE f = NClass
      <4>1. g = NClass
        BY <1>2, <1>4, <1>5, <1>8, <1>10, <3>1
      <4> QED
        BY <1>1, <1>4, <1>5, <3>1, <4>1, PiecesMore
    <3>2. CASE f # NClass
      BY <1>2, <1>4, <3>2
    <3> QED
      BY <3>1, <3>2
  <2>2. n \in Nat
    BY <1>2, <1>3
  <2> QED
    BY <1>2, <1>3, <1>7, <1>10, <2>1, <2>2, NoFitMore
<1> QED
  BY <1>9, <1>10

LEMMA RefusesAsLong ==
    ASSUME NEW size, UNCHANGED heapVars PROVE Heap!Refuses(size)' = Heap!Refuses(size)
BY DEF heapVars, Heap!Refuses, Heap!Tries, Heap!NoFit, Heap!Later, Heap!Earlier,
       Heap!Run, Heap!Flagged

-----------------------------------------------------------------------------
(* Who holds what                                                          *)

LEMMA NothingNonNull == NonNull(<<>>) = {}
BY DEF NonNull

Held == OwnedOnce /\ InHand \subseteq live

\* What changes hands between the task of a call and the call itself is neither
\* lost nor doubled.
LEMMA Moved ==
    ASSUME Held, NEW t \in TaskIDs, UNCHANGED heapVars,
           \A id \in TaskIDs \ {t} : Owned(id)' = Owned(id),
           (Owned(t) \cup InHand)' = Owned(t) \cup InHand,
           (Owned(t) \cap InHand)' = {}
    PROVE  Held' /\ Orphans' = Orphans
<1>1. live' = live
  BY DEF heapVars
<1>2. \A id \in TaskIDs : (Owned(id) \subseteq live)'
  BY <1>1 DEF Held, OwnedOnce
<1>3. \A id \in TaskIDs : (Owned(id) \cap InHand)' = {}
  <2>1. ASSUME NEW id \in TaskIDs \ {t}
        PROVE  Owned(id) \cap (Owned(t) \cup InHand) = {}
    BY DEF Held, OwnedOnce
  <2> QED
    BY <2>1
<1>4. \A i, j \in TaskIDs : i # j => (Owned(i) \cap Owned(j))' = {}
  <2> SUFFICES ASSUME NEW i \in TaskIDs, NEW j \in TaskIDs, i # j
               PROVE  (Owned(i) \cap Owned(j))' = {}
    OBVIOUS
  <2>1. /\ Owned(i)' \subseteq Owned(i) \cup (IF i = t THEN InHand ELSE {})
        /\ Owned(j)' \subseteq Owned(j) \cup (IF j = t THEN InHand ELSE {})
    OBVIOUS
  <2>2. Owned(i) \cap Owned(j) = {} /\ Owned(i) \cap InHand = {} /\ Owned(j) \cap InHand = {}
    BY DEF Held, OwnedOnce
  <2> QED
    BY <2>1, <2>2
<1>5. (InHand \subseteq live)'
  BY <1>1 DEF Held, OwnedOnce
<1>6. (InHand \cup UNION {Owned(id) : id \in TaskIDs})'
          = InHand \cup UNION {Owned(id) : id \in TaskIDs}
  <2>1. (UNION {Owned(id) : id \in TaskIDs})'
            = Owned(t)' \cup UNION {Owned(id)' : id \in TaskIDs \ {t}}
    OBVIOUS
  <2>2. UNION {Owned(id)' : id \in TaskIDs \ {t}} = UNION {Owned(id) : id \in TaskIDs \ {t}}
    OBVIOUS
  <2>3. UNION {Owned(id) : id \in TaskIDs}
            = Owned(t) \cup UNION {Owned(id) : id \in TaskIDs \ {t}}
    OBVIOUS
  <2> QED
    BY <2>1, <2>2, <2>3
<1> QED
  BY <1>1, <1>2, <1>3, <1>4, <1>5, <1>6 DEF Held, OwnedOnce, Orphans

\* A block the heap grants goes to the call, and one it takes back leaves the
\* call or the task that gives it back.
LEMMA Got ==
    ASSUME Held, NEW b, b \notin live, live' = live \cup {b},
           \A id \in TaskIDs : Owned(id)' = Owned(id), InHand' = InHand \cup {b}
    PROVE  Held' /\ Orphans' = Orphans
<1>1. \A id \in TaskIDs : Owned(id) \subseteq live
  BY DEF Held, OwnedOnce
<1>2. Held'
  BY <1>1 DEF Held, OwnedOnce
<1>3. (UNION {Owned(id) : id \in TaskIDs})' = UNION {Owned(id) : id \in TaskIDs}
  OBVIOUS
<1> QED
  BY <1>1, <1>2, <1>3 DEF Orphans

LEMMA GaveBack ==
    ASSUME Held, NEW b, NEW t \in TaskIDs, b \in Owned(t) \cup InHand, live' = live \ {b},
           \A id \in TaskIDs \ {t} : Owned(id)' = Owned(id),
           Owned(t)' = Owned(t) \ {b}, InHand' = InHand \ {b}
    PROVE  Held' /\ Orphans' = Orphans
<1>1. \A id \in TaskIDs \ {t} : b \notin Owned(id)
  BY DEF Held, OwnedOnce
<1>2. \A id \in TaskIDs : Owned(id)' = Owned(id) \ {b}
  BY <1>1
<1>3. Held'
  BY <1>2 DEF Held, OwnedOnce
<1>4. (UNION {Owned(id) : id \in TaskIDs})'
          = (UNION {Owned(id) : id \in TaskIDs}) \ {b}
  BY <1>2
<1> QED
  BY <1>3, <1>4 DEF Orphans

-----------------------------------------------------------------------------
(* The steps inside a call                                                 *)

HeapStep == [Heap!Next]_(Heap!vars)

LEMMA QuietHeap ==
    UNCHANGED heapVars => HeapStep /\ (HeapPart => HeapPart')
BY DEF heapVars, HeapStep, Heap!vars, HeapPart, Heap!Slots

LEMMA AllocStep ==
    ASSUME TaskInv, AllocNext
    PROVE  TaskInv' /\ HeapStep /\ Orphans' = Orphans
<1>1. /\ Allocating /\ todo # <<>> /\ todo' = Tail(todo)
      /\ UNCHANGED <<ctx, op, task>>
  BY DEF AllocNext, Allocating
<1>2. PICK p \in Heap!Candidates(Head(todo)) \cup {NULL} :
         Alloc(Head(todo), p) /\ got' = Append(got, p)
  BY DEF AllocNext
<1>3. /\ HeapPart /\ Contexts /\ Calls /\ Held /\ StaysFull /\ WorkHasBuffers
      /\ got \in Seq(Ptr) /\ todo \in Seq(Nat) /\ Distinct(got) /\ Asks
  BY <1>1 DEF TaskInv, Calls, Held
<1>4. /\ Len(todo) \in Nat \ {0} /\ Len(got) \in Nat
      /\ Head(todo) = todo[1] /\ Head(todo) \in Nat
      /\ Tail(todo) \in Seq(Nat) /\ Len(Tail(todo)) = Len(todo) - 1
      /\ \A i \in 1 .. Len(todo) - 1 : Tail(todo)[i] = todo[i + 1]
  BY <1>1, <1>3
<1>5. Head(todo) \in Sizes
      /\ (op = "create" => Head(todo) \in {HandleSize, ContextSize})
  BY <1>1, <1>3, <1>4 DEF Asks, Sizes, Allocating
<1>6. InHand = NonNull(got) /\ InHand' = NonNull(got')
  BY <1>1 DEF InHand, Allocating
<1>7. \A id \in TaskIDs : Owned(id)' = Owned(id)
  BY <1>1 DEF Owned, Allocating
<1>8. CASE p = NULL
  <2>1. Heap!Refuses(Head(todo)) /\ UNCHANGED heapVars
    BY <1>2, <1>8 DEF Alloc, Heap!Refuse, Heap!vars, heapVars
  <2>2. InHand' = InHand /\ Distinct(got') /\ got' \in Seq(Ptr)
    <3>1. NULL \in Ptr /\ NULL \notin NonNull(got)
      BY DEF Ptr, NonNull
    <3>2. /\ NonNull(got') = NonNull(got) \cup ({NULL} \ {NULL})
          /\ Distinct(got') /\ got' \in Seq(Ptr)
      BY <1>2, <1>3, <1>8, <3>1, Appended
    <3> QED
      BY <1>6, <3>2
  <2>3. PICK t \in TaskIDs : t = task
    BY <1>3 DEF Contexts
  <2>4. Held' /\ Orphans' = Orphans
    <3>1. /\ (Owned(t) \cup InHand)' = Owned(t) \cup InHand
          /\ (Owned(t) \cap InHand)' = {}
          /\ \A id \in TaskIDs \ {t} : Owned(id)' = Owned(id)
      BY <1>3, <1>7, <2>2 DEF Held, OwnedOnce
    <3> QED
      BY <1>3, <2>1, <3>1, Moved
  <2>5. HeapPart' /\ HeapStep
    BY <1>3, <2>1, QuietHeap
  <2> QED
    <3>1. got' \in Seq(Ptr) /\ Distinct(got') /\ Len(got') = Len(got) + 1
      BY <1>2, <1>3, <1>8, <2>2, Appended DEF Ptr
    <3>2. Calls' /\ Contexts' /\ WorkHasBuffers'
      <4>1. Asks'
        BY <1>1, <1>3, <1>4, <3>1 DEF Asks
      <4> QED
        BY <1>1, <1>3, <1>4, <3>1, <4>1 DEF Calls, Contexts, WorkHasBuffers, Allocating, Freeing
    <3>3. StaysFull'
      <4> SUFFICES ASSUME op = "create", NEW i \in 1 .. Len(got'), i <= 2, got'[i] = NULL
                   PROVE  Heap!Refuses(HandleSize) /\ (Len(got') = 3 => got'[3] = NULL)
        BY <1>1, <2>1, <3>1, RefusesAsLong DEF StaysFull
      <4>1. Len(got) + Len(todo) \in {2, 3}
        BY <1>3 DEF Asks
      <4>2. CASE i = Len(got) + 1
        <5>1. Head(todo) = HandleSize
          BY <1>3, <1>4, <4>2 DEF Asks
        <5> QED
          BY <1>4, <2>1, <3>1, <4>2, <5>1
      <4>3. CASE i # Len(got) + 1
        <5>1. i \in 1 .. Len(got) /\ got[i] = NULL
          BY <1>2, <1>3, <1>4, <1>8, <3>1, <4>3
        <5>2. Heap!Refuses(HandleSize)
          BY <1>3, <1>4, <5>1 DEF StaysFull
        <5>3. Len(got') = 3 => got'[3] = NULL
          BY <1>2, <1>3, <1>4, <1>8, <3>1
        <5> QED
          BY <5>2, <5>3
      <4> QED
        BY <4>2, <4>3
    <3> QED
      BY <2>4, <2>5, <3>2, <3>3 DEF TaskInv, Held
<1>9. CASE p # NULL
  <2>1. p \in Heap!Candidates(Head(todo)) /\ Heap!Grant(Head(todo), p)
    BY <1>2, <1>9 DEF Alloc
  <2>2. HeapPart' /\ live' = live \cup {p} /\ p \notin live /\ p \in Heap!Blocks
    BY <1>3, <1>4, <2>1, GrantKeeps
  <2>3. /\ p \in Ptr /\ p \notin NonNull(got)
    BY <1>3, <1>6, <2>2 DEF Held, Ptr
  <2>4. InHand' = InHand \cup {p}
    BY <1>2, <1>3, <1>6, <1>9, <2>3, Appended
  <2>5. Held' /\ Orphans' = Orphans
    BY <1>3, <1>7, <2>2, <2>4, Got
  <2>6. HeapStep
    BY <1>5, <2>1 DEF HeapStep, Heap!Next, Heap!Malloc
  <2>7. got' \in Seq(Ptr) /\ Distinct(got') /\ Len(got') = Len(got) + 1
    BY <1>2, <1>3, <2>3, Appended
  <2>8. Calls' /\ Contexts' /\ WorkHasBuffers'
    <3>1. Asks'
      BY <1>1, <1>3, <1>4, <2>7 DEF Asks
    <3> QED
      BY <1>1, <1>3, <1>4, <2>7, <3>1 DEF Calls, Contexts, WorkHasBuffers, Allocating, Freeing
  <2>9. StaysFull'
    <3> SUFFICES ASSUME op = "create", NEW i \in 1 .. Len(got'), i <= 2, got'[i] = NULL
                 PROVE  FALSE
      BY <1>1, <2>7 DEF StaysFull
    <3>1. i \in 1 .. Len(got) /\ got[i] = NULL
      BY <1>2, <1>3, <1>4, <1>9, <2>7
    <3>2. Heap!Refuses(HandleSize)
      BY <1>3, <1>4, <3>1 DEF StaysFull
    <3>3. Heap!Grants(Head(todo), p)
      BY <2>1 DEF Heap!Grant
    <3> QED
      BY <1>3, <1>5, <2>1, <3>2, <3>3, FullForBoth
  <2> QED
    BY <2>2, <2>5, <2>6, <2>8, <2>9 DEF TaskInv, Held
<1> QED
  BY <1>8, <1>9

LEMMA FreeStep ==
    ASSUME TaskInv, FreeNext
    PROVE  TaskInv' /\ HeapStep /\ Orphans' = Orphans
<1>1. /\ Freeing /\ todo # <<>> /\ todo' = Tail(todo)
      /\ UNCHANGED <<ctx, op, task, got>>
      /\ IF Head(todo) = NULL THEN UNCHANGED heapVars ELSE Heap!Free(Head(todo))
  BY DEF FreeNext, Freeing
<1>2. /\ HeapPart /\ Contexts /\ Calls /\ Held /\ WorkHasBuffers
      /\ todo \in Seq(Ptr) /\ Distinct(todo) /\ task \in TaskIDs
  BY <1>1 DEF TaskInv, Calls, Held, Contexts
<1>3. /\ todo' \in Seq(Ptr) /\ Distinct(todo')
      /\ Head(todo) # NULL => Head(todo) \in NonNull(todo)
      /\ NonNull(todo') = NonNull(todo) \ {Head(todo)}
  BY <1>1, <1>2, Taken
<1> PICK t \in TaskIDs : t = task
  BY <1>2
<1>4. /\ \A id \in TaskIDs \ {t} : Owned(id)' = Owned(id)
      /\ op = "destroy" => /\ Owned(t) = NonNull(todo) /\ Owned(t)' = NonNull(todo')
                           /\ InHand = {} /\ InHand' = {}
      /\ op # "destroy" => /\ InHand = NonNull(todo) /\ InHand' = NonNull(todo')
                           /\ Owned(t)' = Owned(t)
  BY <1>1, NothingNonNull DEF Owned, InHand, Freeing
<1>5. Contexts' /\ Calls' /\ WorkHasBuffers' /\ StaysFull'
  BY <1>1, <1>2, <1>3 DEF Contexts, Calls, WorkHasBuffers, StaysFull, Allocating, Freeing
<1>6. CASE Head(todo) = NULL
  <2>1. UNCHANGED heapVars /\ NonNull(todo') = NonNull(todo)
    BY <1>1, <1>3, <1>6 DEF NonNull
  <2>2. Held' /\ Orphans' = Orphans
    <3>1. Owned(t)' = Owned(t) /\ InHand' = InHand
      BY <1>4, <2>1
    <3>2. Owned(t) \cap InHand = {}
      BY <1>2 DEF Held, OwnedOnce
    <3> QED
      BY <1>2, <1>4, <2>1, <3>1, <3>2, Moved
  <2>3. HeapPart' /\ HeapStep
    BY <1>2, <2>1, QuietHeap
  <2> QED
    BY <1>5, <2>2, <2>3 DEF TaskInv, Held
<1>7. CASE Head(todo) # NULL
  <2>1. Heap!Free(Head(todo)) /\ Head(todo) \in NonNull(todo)
    BY <1>1, <1>3, <1>7
  <2>2. Head(todo) \in Owned(t) \cup InHand
    BY <1>4, <2>1
  <2>3. Head(todo) \in live
    BY <1>2, <2>2 DEF Held, OwnedOnce
  <2>4. HeapPart' /\ live' = live \ {Head(todo)}
    BY <1>2, <2>1, <2>3, FreeKeeps
  <2>5. Owned(t)' = Owned(t) \ {Head(todo)} /\ InHand' = InHand \ {Head(todo)}
    <3>1. Owned(t) \cap InHand = {}
      BY <1>2 DEF Held, OwnedOnce
    <3> QED
      BY <1>3, <1>4, <2>1, <3>1
  <2>6. Held' /\ Orphans' = Orphans
    <3> PICK b : b = Head(todo)
      OBVIOUS
    <3>1. /\ b \in Owned(t) \cup InHand /\ live' = live \ {b}
          /\ Owned(t)' = Owned(t) \ {b} /\ InHand' = InHand \ {b}
      BY <2>2, <2>4, <2>5
    <3> QED
      BY <1>2, <1>4, <3>1, GaveBack
  <2>7. HeapStep
    BY <2>1, <2>3 DEF HeapStep, Heap!Next
  <2> QED
    BY <1>5, <2>4, <2>6, <2>7 DEF TaskInv, Held
<1> QED
  BY <1>6, <1>7

-----------------------------------------------------------------------------
(* The steps that begin and end a call                                     *)

LEMMA QuietStep ==
    ASSUME TaskInv, UNCHANGED heapVars, NEW t \in TaskIDs,
           (Contexts /\ Calls /\ StaysFull /\ WorkHasBuffers)',
           \A id \in TaskIDs \ {t} : Owned(id)' = Owned(id),
           (Owned(t) \cup InHand)' = Owned(t) \cup InHand,
           (Owned(t) \cap InHand)' = {}
    PROVE  TaskInv' /\ HeapStep /\ Orphans' = Orphans
<1>1. Held /\ HeapPart
  BY DEF TaskInv, Held
<1>2. Held' /\ Orphans' = Orphans
  BY <1>1, Moved
<1>3. HeapPart' /\ HeapStep
  BY <1>1, QuietHeap
<1> QED
  BY <1>2, <1>3 DEF TaskInv, Held

\* The three calls that leave the contexts alone when they begin.
LEMMA BeginStep ==
    ASSUME TaskInv, NEW t \in TaskIDs, Create(t) \/ OpenStream(t) \/ HeadPacket(t)
    PROVE  TaskInv' /\ HeapStep /\ Orphans' = Orphans
<1>1. /\ op = "loop" /\ task' = t /\ got' = <<>>
      /\ UNCHANGED heapVars /\ ctx' = ctx
  BY DEF Create, OpenStream, HeadPacket, Call
<1>2. Contexts /\ Calls /\ WorkHasBuffers
  BY DEF TaskInv
<1>3. HandleSize \in Nat /\ ContextSize \in Nat /\ BodySize \in Nat
      /\ GranuleSize \in Nat /\ DecoderSize \in Nat
  BY TaskAssumption DEF Sizes
<1>4. op' \in {"create", "stream", "head"} /\ todo' \in Seq(Nat)
  <2>1. /\ <<HandleSize, HandleSize>> \in Seq(Nat)
        /\ <<HandleSize, HandleSize, ContextSize>> \in Seq(Nat)
        /\ <<BodySize, GranuleSize>> \in Seq(Nat) /\ <<DecoderSize>> \in Seq(Nat)
    BY <1>3
  <2>2. todo' \in {<<HandleSize, HandleSize>>, <<HandleSize, HandleSize, ContextSize>>,
                   <<BodySize, GranuleSize>>, <<DecoderSize>>}
    BY Zenon DEF Create, OpenStream, HeadPacket, Call
  <2>3. op' \in {"create", "stream", "head"}
    BY DEF Create, OpenStream, HeadPacket, Call
  <2> QED
    BY <2>1, <2>2, <2>3
<1>5. Asks'
  <2>1. CASE Create(t)
    <3>1. op' = "create"
          /\ todo' \in {<<HandleSize, HandleSize>>, <<HandleSize, HandleSize, ContextSize>>}
      BY <2>1 DEF Create, Call
    <3> QED
      BY <1>1, <1>3, <1>4, <3>1 DEF Asks
  <2>2. CASE OpenStream(t)
    BY <1>1, <1>4, <2>2 DEF OpenStream, Call, Asks
  <2>3. CASE HeadPacket(t)
    BY <1>1, <1>4, <2>3 DEF HeadPacket, Call, Asks
  <2> QED
    BY <2>1, <2>2, <2>3
<1>6. /\ op' = "create" => ctx[t].task_status = "TASK_IDLE"
      /\ op' # "create" => ctx[t].task_status = "TASK_WORK"
      /\ op' = "stream" => ~ ctx[t].stream_init
      /\ op' = "head"   => ctx[t].st = NULL /\ ctx[t].stream_init
  BY <1>2 DEF Create, OpenStream, HeadPacket, Call, Contexts
<1>7. Calls'
  <2>1. Distinct(got') /\ got' \in Seq(Ptr)
    BY <1>1 DEF Distinct
  <2> QED
    BY <1>1, <1>4, <1>5, <1>6, <2>1 DEF Calls, Allocating, Freeing
<1>8. Contexts' /\ StaysFull' /\ WorkHasBuffers'
  BY <1>1, <1>2 DEF Contexts, StaysFull, WorkHasBuffers
<1>9. /\ \A id \in TaskIDs : Owned(id)' = Owned(id)
      /\ InHand = {} /\ InHand' = {}
  BY <1>1, <1>4, NothingNonNull DEF Owned, InHand
<1> QED
  BY <1>1, <1>7, <1>8, <1>9, QuietStep

LEMMA DestroyStep ==
    ASSUME TaskInv, NEW t \in TaskIDs, Destroy(t)
    PROVE  TaskInv' /\ HeapStep /\ Orphans' = Orphans
<1>1. /\ op = "loop" /\ op' = "destroy" /\ task' = t /\ got' = <<>>
      /\ todo' = Pointers(ctx[t]) /\ ctx[t].task_status = "TASK_WORK"
      /\ UNCHANGED heapVars /\ ctx' = ctx
  BY DEF Destroy, Call
<1>2. Contexts /\ Calls /\ WorkHasBuffers
  BY DEF TaskInv
<1>3. todo' \in Seq(Ptr) /\ Distinct(todo')
  BY <1>1, <1>2, Pointed DEF Contexts
<1>4. (Contexts /\ Calls /\ StaysFull /\ WorkHasBuffers)'
  BY <1>1, <1>2, <1>3 DEF Contexts, Calls, StaysFull, WorkHasBuffers, Allocating, Freeing
<1>5. /\ \A id \in TaskIDs : Owned(id)' = Owned(id)
      /\ InHand = {} /\ InHand' = {}
  BY <1>1, NothingNonNull DEF Owned, InHand
<1> QED
  BY <1>1, <1>4, <1>5, QuietStep

\* The pointers of a context are all different.
LEMMA Differ ==
    ASSUME NEW c \in Context, Distinct(Pointers(c)), c.st # NULL
    PROVE  c.st \notin {c.body_data, c.granule_vals, c.priv_context, c.in_buf, c.out_buf}
<1>1. /\ DOMAIN Pointers(c) = 1 .. 6
      /\ Pointers(c)[1] = c.st /\ Pointers(c)[2] = c.body_data
      /\ Pointers(c)[3] = c.granule_vals /\ Pointers(c)[4] = c.priv_context
      /\ Pointers(c)[5] = c.in_buf /\ Pointers(c)[6] = c.out_buf
  BY DEF Pointers
<1> QED
  BY <1>1 DEF Distinct

LEMMA ChainedStep ==
    ASSUME TaskInv, NEW t \in TaskIDs, Chained(t)
    PROVE  TaskInv' /\ HeapStep /\ Orphans' = Orphans
<1>1. /\ op = "loop" /\ op' = "chain" /\ task' = t /\ got' = <<>>
      /\ todo' = <<ctx[t].st>> /\ ctx[t].task_status = "TASK_WORK"
      /\ ctx[t].st # NULL /\ ctx[t].body_data # NULL
      /\ UNCHANGED heapVars /\ ctx' = [ctx EXCEPT ![t].st = NULL]
  BY DEF Chained, Call
<1>2. Contexts /\ Calls /\ WorkHasBuffers
  BY DEF TaskInv
<1> DEFINE c == ctx[t]
           d == [c EXCEPT !.st = NULL]
<1>3. /\ ctx \in [TaskIDs -> Context] /\ c \in Context /\ Distinct(Pointers(c))
      /\ c.stream_init
  BY <1>1, <1>2 DEF Contexts
<1>4. /\ d \in Context /\ ctx' = [ctx EXCEPT ![t] = d]
      /\ d.st = NULL /\ d.body_data = c.body_data /\ d.granule_vals = c.granule_vals
      /\ d.priv_context = c.priv_context /\ d.in_buf = c.in_buf /\ d.out_buf = c.out_buf
      /\ d.task_status = c.task_status /\ d.stream_init = c.stream_init
  BY <1>1, <1>3 DEF Context, Ptr
<1>5. Distinct(Pointers(d))
  BY <1>3, <1>4 DEF Distinct, Pointers
<1>6. c.st \in Ptr
  BY <1>3 DEF Context
<1> HIDE DEF c, d
<1>7. /\ ctx'[t] = d /\ ctx' \in [TaskIDs -> Context]
      /\ \A id \in TaskIDs \ {t} : ctx'[id] = ctx[id]
      /\ ctx[t] = c
  BY <1>3, <1>4 DEF c
<1>8. (Contexts /\ WorkHasBuffers /\ StaysFull)'
  BY <1>1, <1>2, <1>3, <1>4, <1>5, <1>7 DEF Contexts, WorkHasBuffers, StaysFull
<1>9. todo' = <<c.st>> /\ todo' \in Seq(Ptr) /\ Distinct(todo') /\ NonNull(todo') = {c.st}
  BY <1>1, <1>6, <1>7 DEF Distinct, NonNull
<1>10. Calls'
  BY <1>1, <1>3, <1>4, <1>7, <1>9 DEF Calls, Allocating, Freeing
<1>11. /\ \A id \in TaskIDs \ {t} : Owned(id)' = Owned(id)
       /\ Owned(t) = NonNull(Pointers(c)) /\ Owned(t)' = NonNull(Pointers(d))
       /\ InHand = {} /\ InHand' = {c.st}
  BY <1>1, <1>7, <1>9, NothingNonNull DEF Owned, InHand
<1>12. NonNull(Pointers(c)) = NonNull(Pointers(d)) \cup {c.st}
       /\ c.st \notin NonNull(Pointers(d))
  <2>1. c.st \notin {c.body_data, c.granule_vals, c.priv_context, c.in_buf, c.out_buf}
        /\ c.st # NULL
    BY <1>1, <1>3, <1>7, Differ
  <2> QED
    BY <1>3, <1>4, <2>1, Pointed
<1> QED
  BY <1>1, <1>8, <1>10, <1>11, <1>12, QuietStep

LEMMA SixPointers ==
    ASSUME NEW c
    PROVE  /\ DOMAIN Pointers(c) = 1 .. 6
           /\ Pointers(c)[1] = c.st /\ Pointers(c)[2] = c.body_data
           /\ Pointers(c)[3] = c.granule_vals /\ Pointers(c)[4] = c.priv_context
           /\ Pointers(c)[5] = c.in_buf /\ Pointers(c)[6] = c.out_buf
BY DEF Pointers

\* The pointers a call has got, one by one.
LEMMA GotPointers ==
    ASSUME TaskInv, Allocating, todo = <<>>
    PROVE  /\ got \in Seq(Ptr) /\ Distinct(got) /\ NonNull(got) = InHand
           /\ op = "create" => Len(got) \in {2, 3}
           /\ op = "stream" => Len(got) = 2
           /\ op = "head" => Len(got) = 1
BY DEF TaskInv, Calls, Asks, Allocating, InHand

LEMMA CreateReturnsStep ==
    ASSUME TaskInv, CreateReturns
    PROVE  /\ TaskInv' /\ HeapStep
           /\ \/ Orphans' = Orphans
              \/ /\ op = "create" /\ op' = "loop" /\ ~ Created
                 /\ Orphans' = Orphans \cup (InHand \cap Heap!Blocks)
<1>1. /\ op = "create" /\ op' = "loop" /\ todo = <<>> /\ got' = <<>>
      /\ UNCHANGED heapVars /\ task' = task /\ todo' = todo
  BY DEF CreateReturns, Return
<1>2. Contexts /\ Calls /\ WorkHasBuffers /\ Held /\ StaysFull
  BY DEF TaskInv, Held
<1>3. /\ got \in Seq(Ptr) /\ Distinct(got) /\ NonNull(got) = InHand
      /\ Len(got) \in {2, 3}
  BY <1>1, GotPointers DEF Allocating
<1> PICK t \in TaskIDs : t = task
  BY <1>2 DEF Contexts
<1>4. ctx[t] = Idle /\ ctx \in [TaskIDs -> Context]
  BY <1>1, <1>2 DEF Calls, Contexts
<1>5. InHand' = {} /\ (Calls /\ StaysFull)'
  BY <1>1, NothingNonNull DEF InHand, Calls, StaysFull, Allocating, Freeing
<1>6. CASE ~ Created
  <2>1. ctx' = ctx
    BY <1>6 DEF CreateReturns
  <2>2. (Contexts /\ WorkHasBuffers)'
    BY <1>1, <1>2, <2>1 DEF Contexts, WorkHasBuffers
  <2>3. \A id \in TaskIDs : Owned(id)' = Owned(id)
    BY <1>1, <2>1 DEF Owned
  <2>4. live' = live
    BY <1>1 DEF heapVars
  <2>5. Held'
    BY <1>2, <1>5, <2>3, <2>4 DEF Held, OwnedOnce
  <2>6. Orphans' = Orphans \cup (InHand \cap Heap!Blocks)
    <3>1. InHand \subseteq Heap!Blocks /\ InHand \subseteq live
      BY <1>2 DEF TaskInv, HeapPart, Held
    <3>2. \A id \in TaskIDs : InHand \cap Owned(id) = {}
      BY <1>2 DEF Held, OwnedOnce
    <3>3. (UNION {Owned(id) : id \in TaskIDs})' = UNION {Owned(id) : id \in TaskIDs}
      BY <2>3
    <3>4. InHand \cap UNION {Owned(id) : id \in TaskIDs} = {}
      BY <3>2
    <3> QED
      BY <1>5, <2>4, <3>1, <3>3, <3>4 DEF Orphans
  <2>7. HeapPart' /\ HeapStep
    BY <1>1, QuietHeap DEF TaskInv
  <2> QED
    BY <1>1, <1>5, <1>6, <2>2, <2>5, <2>6, <2>7 DEF TaskInv, Held
<1>7. CASE Created
  <2> DEFINE d == [Idle EXCEPT !.task_status = "TASK_WORK", !.in_buf = got[1],
                               !.out_buf = got[2], !.priv_context = got[3]]
  <2>1. Len(got) = 3 /\ got[3] # NULL
    BY <1>7 DEF Created
  <2>2. got[1] # NULL /\ got[2] # NULL
    BY <1>1, <1>2, <1>3, <2>1 DEF StaysFull
  <2>3. got[1] \in Ptr /\ got[2] \in Ptr /\ got[3] \in Ptr
    <3>1. \A i \in 1 .. Len(got) : got[i] \in Ptr
      BY <1>3
    <3>2. 1 \in 1 .. Len(got) /\ 2 \in 1 .. Len(got) /\ 3 \in 1 .. Len(got)
      BY <2>1
    <3> QED
      BY <3>1, <3>2
  <2>4. got[1] # got[2] /\ got[1] # got[3] /\ got[2] # got[3]
    BY <1>3, <2>1, <2>2 DEF Distinct
  <2>5. NonNull(got) = {got[1], got[2], got[3]}
    BY <1>3, <2>1, <2>2 DEF NonNull
  <2>6. ctx' = [ctx EXCEPT ![t] = d]
    BY <1>7 DEF CreateReturns
  <2>7. /\ d \in Context /\ d.task_status = "TASK_WORK" /\ d.in_buf = got[1]
        /\ d.out_buf = got[2] /\ d.priv_context = got[3] /\ d.st = NULL
        /\ d.body_data = NULL /\ d.granule_vals = NULL
    BY <2>3 DEF Context, Idle, Ptr
  <2> HIDE DEF d
  <2>8. NonNull(Pointers(d)) = NonNull(got)
    BY <2>1, <2>2, <2>5, <2>7, Pointed
  <2>9. Distinct(Pointers(d))
    BY <2>4, <2>7, SixPointers DEF Distinct
  <2>10. /\ ctx'[t] = d /\ ctx' \in [TaskIDs -> Context]
         /\ \A id \in TaskIDs \ {t} : ctx'[id] = ctx[id]
    BY <1>4, <2>6, <2>7
  <2>11. (Contexts /\ WorkHasBuffers)'
    BY <1>1, <1>2, <2>1, <2>2, <2>7, <2>9, <2>10 DEF Contexts, WorkHasBuffers
  <2>12. /\ \A id \in TaskIDs \ {t} : Owned(id)' = Owned(id)
         /\ Owned(t) = {} /\ Owned(t)' = NonNull(Pointers(d))
    BY <1>1, <1>4, <2>10, IdlePoints DEF Owned
  <2> QED
    BY <1>1, <1>3, <1>5, <2>8, <2>11, <2>12, QuietStep
<1> QED
  BY <1>6, <1>7

LEMMA StreamReturnsStep ==
    ASSUME TaskInv, StreamReturns
    PROVE  TaskInv' /\ HeapStep /\ Orphans' = Orphans
<1>1. /\ op = "stream" /\ op' = "loop" /\ todo = <<>> /\ got' = <<>>
      /\ UNCHANGED heapVars /\ task' = task /\ todo' = todo
      /\ NULL \notin {got[i] : i \in DOMAIN got}
  BY DEF StreamReturns, Return
<1>2. Contexts /\ Calls /\ WorkHasBuffers /\ Held
  BY DEF TaskInv, Held
<1>3. got \in Seq(Ptr) /\ Distinct(got) /\ NonNull(got) = InHand /\ Len(got) = 2
  BY <1>1, GotPointers DEF Allocating
<1> PICK t \in TaskIDs : t = task
  BY <1>2 DEF Contexts
<1> DEFINE c == ctx[t]
           d == [c EXCEPT !.stream_init = TRUE, !.body_data = got[1],
                          !.granule_vals = got[2]]
<1>4. /\ ctx \in [TaskIDs -> Context] /\ c \in Context /\ Distinct(Pointers(c))
      /\ c.body_data = NULL /\ c.granule_vals = NULL /\ c.task_status = "TASK_WORK"
  BY <1>1, <1>2 DEF Contexts, Calls
<1>5. /\ got[1] \in Ptr /\ got[2] \in Ptr /\ got[1] # NULL /\ got[2] # NULL
      /\ got[1] # got[2] /\ InHand = {got[1], got[2]}
  BY <1>1, <1>3 DEF Distinct, NonNull
<1>6. ctx' = [ctx EXCEPT ![t] = d]
  BY <1>4 DEF StreamReturns
<1>7. /\ d \in Context /\ d.body_data = got[1] /\ d.granule_vals = got[2]
      /\ d.st = c.st /\ d.in_buf = c.in_buf /\ d.out_buf = c.out_buf
      /\ d.priv_context = c.priv_context /\ d.stream_init = TRUE
      /\ d.task_status = "TASK_WORK"
  BY <1>4, <1>5 DEF Context
<1> HIDE DEF d
<1>8. /\ ctx'[t] = d /\ ctx' \in [TaskIDs -> Context]
      /\ \A id \in TaskIDs \ {t} : ctx'[id] = ctx[id]
  BY <1>4, <1>6, <1>7
<1>9. /\ \A id \in TaskIDs \ {t} : Owned(id)' = Owned(id)
      /\ Owned(t) = NonNull(Pointers(c)) /\ Owned(t)' = NonNull(Pointers(d))
      /\ InHand' = {}
  BY <1>1, <1>8, NothingNonNull DEF Owned, InHand
<1>10. Owned(t) \cap InHand = {}
  BY <1>2 DEF Held, OwnedOnce
<1> HIDE DEF c
<1>11. NonNull(Pointers(d)) = NonNull(Pointers(c)) \cup {got[1], got[2]}
  BY <1>4, <1>5, <1>7, Pointed
<1>12. {got[1], got[2]} \cap {c.st, c.in_buf, c.out_buf, c.priv_context} = {}
  BY <1>4, <1>5, <1>9, <1>10, Pointed
<1>13. Distinct(Pointers(d))
  <2> SUFFICES ASSUME NEW i \in 1 .. 6, NEW j \in 1 .. 6,
                      Pointers(d)[i] # NULL, Pointers(d)[i] = Pointers(d)[j]
               PROVE  i = j
    BY SixPointers DEF Distinct
  <2>1. /\ Pointers(d)[2] = got[1] /\ Pointers(d)[3] = got[2]
        /\ \A k \in {1, 4, 5, 6} :
              /\ Pointers(d)[k] = Pointers(c)[k]
              /\ Pointers(c)[k] \in {c.st, c.in_buf, c.out_buf, c.priv_context}
    BY <1>7, SixPointers
  <2>2. CASE i \in {1, 4, 5, 6} /\ j \in {1, 4, 5, 6}
    BY <1>4, <2>1, <2>2, SixPointers DEF Distinct
  <2>3. CASE i \in {2, 3} /\ j \in {1, 4, 5, 6}
    BY <1>12, <2>1, <2>3
  <2>4. CASE i \in {1, 4, 5, 6} /\ j \in {2, 3}
    BY <1>12, <2>1, <2>4
  <2>5. CASE i \in {2, 3} /\ j \in {2, 3}
    BY <1>5, <2>1, <2>5
  <2> QED
    BY <2>2, <2>3, <2>4, <2>5
<1>14. (Contexts /\ WorkHasBuffers)'
  BY <1>1, <1>2, <1>4, <1>7, <1>8, <1>13 DEF Contexts, WorkHasBuffers, c
<1>15. (Calls /\ StaysFull)'
  BY <1>1 DEF Calls, StaysFull, Allocating, Freeing
<1> QED
  BY <1>1, <1>5, <1>9, <1>11, <1>14, <1>15, QuietStep

LEMMA StreamFailsStep ==
    ASSUME TaskInv, StreamFails
    PROVE  TaskInv' /\ HeapStep /\ Orphans' = Orphans
<1>1. /\ op = "stream" /\ op' = "clear" /\ todo = <<>> /\ todo' = got
      /\ UNCHANGED heapVars /\ task' = task
      /\ ctx' = [ctx EXCEPT ![task].stream_init = TRUE]
  BY DEF StreamFails
<1>2. Contexts /\ Calls /\ WorkHasBuffers /\ Held
  BY DEF TaskInv, Held
<1>3. got \in Seq(Ptr) /\ Distinct(got) /\ NonNull(got) = InHand
  BY <1>1, GotPointers DEF Allocating
<1> PICK t \in TaskIDs : t = task
  BY <1>2 DEF Contexts
<1> DEFINE c == ctx[t]
           d == [c EXCEPT !.stream_init = TRUE]
<1>4. ctx \in [TaskIDs -> Context] /\ c \in Context /\ c.task_status = "TASK_WORK"
  BY <1>1, <1>2 DEF Contexts, Calls
<1>5. ctx' = [ctx EXCEPT ![t] = d] /\ d \in Context /\ d.task_status = "TASK_WORK"
      /\ d.stream_init = TRUE /\ d.in_buf = c.in_buf /\ d.out_buf = c.out_buf
      /\ d.priv_context = c.priv_context
  BY <1>1, <1>4 DEF Context
<1>6. Pointers(d) = Pointers(c)
  BY <1>4 DEF Pointers, Context
<1> HIDE DEF c, d
<1>7. /\ ctx'[t] = d /\ ctx' \in [TaskIDs -> Context] /\ ctx[t] = c
      /\ \A id \in TaskIDs \ {t} : ctx'[id] = ctx[id]
  BY <1>4, <1>5 DEF c
<1>8. (Contexts /\ WorkHasBuffers)'
  <2>1. Distinct(Pointers(d))
    BY <1>2, <1>6, <1>7 DEF Contexts
  <2>2. WorkHasBuffers'
    BY <1>2, <1>4, <1>5, <1>7 DEF WorkHasBuffers
  <2>3. ASSUME NEW id \in TaskIDs
        PROVE  /\ ctx'[id].task_status = "TASK_IDLE" => ctx'[id] = Idle
               /\ ~ ctx'[id].stream_init => /\ ctx'[id].body_data = NULL
                                           /\ ctx'[id].granule_vals = NULL
               /\ Distinct(Pointers(ctx'[id]))
    <3>1. CASE id = t
      BY <1>5, <1>7, <2>1, <3>1
    <3>2. CASE id # t
      BY <1>2, <1>7, <3>2 DEF Contexts
    <3> QED
      BY <3>1, <3>2
  <2> QED
    BY <1>1, <1>7, <2>2, <2>3 DEF Contexts
<1>9. (Calls /\ StaysFull)'
  BY <1>1, <1>3, <1>5, <1>7 DEF Calls, StaysFull, Allocating, Freeing
<1>10. \A id \in TaskIDs : Owned(id)' = Owned(id)
  BY <1>1, <1>6, <1>7 DEF Owned
<1>11. InHand' = InHand
  BY <1>1, <1>3 DEF InHand
<1>12. Owned(t) \cap InHand = {}
  BY <1>2 DEF Held, OwnedOnce
<1> QED
  BY <1>1, <1>8, <1>9, <1>10, <1>11, <1>12, QuietStep

LEMMA HeadReturnsStep ==
    ASSUME TaskInv, HeadReturns
    PROVE  TaskInv' /\ HeapStep /\ Orphans' = Orphans
<1>1. /\ op = "head" /\ op' = "loop" /\ todo = <<>> /\ got' = <<>>
      /\ UNCHANGED heapVars /\ task' = task /\ todo' = todo
      /\ ctx' = [ctx EXCEPT ![task].st = got[1]]
  BY DEF HeadReturns, Return
<1>2. Contexts /\ Calls /\ WorkHasBuffers /\ Held
  BY DEF TaskInv, Held
<1>3. got \in Seq(Ptr) /\ NonNull(got) = InHand /\ Len(got) = 1
  BY <1>1, GotPointers DEF Allocating
<1> PICK t \in TaskIDs : t = task
  BY <1>2 DEF Contexts
<1> DEFINE c == ctx[t]
           d == [c EXCEPT !.st = got[1]]
<1>4. /\ ctx \in [TaskIDs -> Context] /\ c \in Context /\ Distinct(Pointers(c))
      /\ c.st = NULL /\ c.task_status = "TASK_WORK" /\ c.stream_init
  BY <1>1, <1>2 DEF Contexts, Calls
<1>5. got[1] \in Ptr /\ InHand = {got[1]} \ {NULL}
  <2>1. DOMAIN got = 1 .. 1 /\ \A i \in DOMAIN got : got[i] \in Ptr
    <3>1. got \in Seq(Ptr)
      BY <1>3
    <3>2. DOMAIN got = 1 .. Len(got) /\ \A i \in 1 .. Len(got) : got[i] \in Ptr
      BY <3>1
    <3> QED
      BY <1>3, <3>2
  <2> QED
    BY <1>3, <2>1 DEF NonNull
<1>6. ctx' = [ctx EXCEPT ![t] = d]
  BY <1>1, <1>4
<1>7. /\ d \in Context /\ d.st = got[1] /\ d.body_data = c.body_data
      /\ d.granule_vals = c.granule_vals /\ d.in_buf = c.in_buf /\ d.out_buf = c.out_buf
      /\ d.priv_context = c.priv_context /\ d.stream_init = c.stream_init
      /\ d.task_status = "TASK_WORK"
  BY <1>4, <1>5 DEF Context
<1> HIDE DEF d
<1>8. /\ ctx'[t] = d /\ ctx' \in [TaskIDs -> Context] /\ ctx[t] = c
      /\ \A id \in TaskIDs \ {t} : ctx'[id] = ctx[id]
  BY <1>4, <1>6, <1>7
<1> HIDE DEF c
<1>9. /\ \A id \in TaskIDs \ {t} : Owned(id)' = Owned(id)
      /\ Owned(t) = NonNull(Pointers(c)) /\ Owned(t)' = NonNull(Pointers(d))
      /\ InHand' = {}
  BY <1>1, <1>8, NothingNonNull DEF Owned, InHand
<1>10. Owned(t) \cap InHand = {}
  BY <1>2 DEF Held, OwnedOnce
<1>11. NonNull(Pointers(d)) = NonNull(Pointers(c)) \cup ({got[1]} \ {NULL})
  BY <1>4, <1>7, Pointed
<1>12. got[1] # NULL => got[1] \notin NonNull(Pointers(c))
  BY <1>5, <1>9, <1>10
<1>13. Distinct(Pointers(d))
  <2> SUFFICES ASSUME NEW i \in 1 .. 6, NEW j \in 1 .. 6,
                      Pointers(d)[i] # NULL, Pointers(d)[i] = Pointers(d)[j]
               PROVE  i = j
    BY SixPointers DEF Distinct
  <2>1. /\ Pointers(d)[1] = got[1]
        /\ \A k \in 2 .. 6 : Pointers(d)[k] = Pointers(c)[k]
    BY <1>7, SixPointers
  <2>2. \A k \in 2 .. 6 : Pointers(c)[k] # NULL => Pointers(c)[k] \in NonNull(Pointers(c))
    BY SixPointers DEF NonNull
  <2>3. CASE i # 1 /\ j # 1
    BY <1>4, <2>1, <2>3, SixPointers DEF Distinct
  <2>4. CASE (i = 1 /\ j # 1) \/ (i # 1 /\ j = 1)
    BY <1>12, <2>1, <2>2, <2>4
  <2> QED
    BY <2>3, <2>4
<1>14. (Contexts /\ WorkHasBuffers)'
  BY <1>1, <1>2, <1>4, <1>7, <1>8, <1>13 DEF Contexts, WorkHasBuffers
<1>15. (Calls /\ StaysFull)'
  BY <1>1 DEF Calls, StaysFull, Allocating, Freeing
<1> QED
  BY <1>1, <1>5, <1>9, <1>11, <1>14, <1>15, QuietStep

LEMMA DestroyReturnsStep ==
    ASSUME TaskInv, DestroyReturns
    PROVE  TaskInv' /\ HeapStep /\ Orphans' = Orphans
<1>1. /\ op = "destroy" /\ op' = "loop" /\ todo = <<>> /\ got' = <<>>
      /\ UNCHANGED heapVars /\ task' = task /\ ctx' = [ctx EXCEPT ![task] = Idle]
  BY DEF DestroyReturns, Return
<1>2. Contexts /\ Calls /\ WorkHasBuffers /\ Held
  BY DEF TaskInv, Held
<1> PICK t \in TaskIDs : t = task
  BY <1>2 DEF Contexts
<1>3. /\ ctx'[t] = Idle /\ ctx' \in [TaskIDs -> Context]
      /\ \A id \in TaskIDs \ {t} : ctx'[id] = ctx[id]
  BY <1>1, <1>2, IdlePoints DEF Contexts
<1>4. Distinct(Pointers(Idle)) /\ Idle.task_status = "TASK_IDLE"
      /\ Idle.body_data = NULL /\ Idle.granule_vals = NULL
  BY IdlePoints, SixPointers DEF Distinct, NonNull, Idle
<1>5. (Contexts /\ WorkHasBuffers)'
  BY <1>1, <1>2, <1>3, <1>4 DEF Contexts, WorkHasBuffers
<1>6. (Calls /\ StaysFull)'
  BY <1>1 DEF Calls, StaysFull, Allocating, Freeing
<1>7. /\ \A id \in TaskIDs \ {t} : Owned(id)' = Owned(id)
      /\ Owned(t) = {} /\ Owned(t)' = {} /\ InHand = {} /\ InHand' = {}
  BY <1>1, <1>3, IdlePoints, NothingNonNull DEF Owned, InHand
<1> QED
  BY <1>1, <1>5, <1>6, <1>7, QuietStep

\* The decoder of the stream before is gone, and all that was got of a stream
\* that failed to open.
LEMMA ClearReturnsStep ==
    ASSUME TaskInv, ClearReturns \/ ChainGoesOn
    PROVE  TaskInv' /\ HeapStep /\ Orphans' = Orphans
<1>1. /\ op \in {"clear", "chain"} /\ todo = <<>> /\ UNCHANGED heapVars
      /\ ctx' = ctx /\ task' = task
      /\ \/ op' = "loop" /\ got' = <<>> /\ todo' = todo
         \/ op = "chain" /\ op' = "head" /\ got' = got /\ todo' = <<DecoderSize>>
  BY DEF ClearReturns, ChainGoesOn, Return
<1>2. Contexts /\ Calls /\ WorkHasBuffers /\ Held
  BY DEF TaskInv, Held
<1> PICK t \in TaskIDs : t = task
  BY <1>2 DEF Contexts
<1>3. (Contexts /\ WorkHasBuffers /\ StaysFull)'
  BY <1>1, <1>2 DEF Contexts, WorkHasBuffers, StaysFull
<1>4. op = "chain" => got = <<>>
  BY <1>1, <1>2 DEF Calls
<1>5. Calls'
  <2>1. CASE op' = "loop"
    BY <1>1, <2>1 DEF Calls, Allocating, Freeing
  <2>2. CASE op' = "head"
    <3>1. got' = <<>> /\ todo' = <<DecoderSize>> /\ DecoderSize \in Nat
      BY <1>1, <1>4, <2>2, TaskAssumption DEF Sizes
    <3>2. got' \in Seq(Ptr) /\ todo' \in Seq(Nat) /\ Distinct(got') /\ Asks'
      BY <2>2, <3>1 DEF Distinct, Asks
    <3> QED
      BY <1>1, <1>2, <2>2, <3>2 DEF Calls, Allocating, Freeing
  <2> QED
    BY <1>1, <2>1, <2>2
<1>6. /\ \A id \in TaskIDs : Owned(id)' = Owned(id)
      /\ InHand = {} /\ InHand' = {}
  BY <1>1, <1>4, NothingNonNull DEF Owned, InHand
<1> QED
  BY <1>1, <1>3, <1>5, <1>6, QuietStep

-----------------------------------------------------------------------------
LEMMA TaskStart == Init => TaskInv /\ Heap!Init
<1> SUFFICES ASSUME Init PROVE TaskInv /\ Heap!Init
  OBVIOUS
<1>1. /\ Heap!Init /\ ctx = [id \in TaskIDs |-> Idle] /\ op = "loop" /\ task \in TaskIDs
  BY DEF Init
<1>2. \A c \in Heap!Class : Cnt[c] \in Nat \ {0}
  BY TaskAssumption DEF Heap!Class
<1>3. HeapPart
  BY <1>1, <1>2 DEF HeapPart, Heap!Init, Heap!Slots
<1>4. Distinct(Pointers(Idle)) /\ Idle.task_status = "TASK_IDLE"
      /\ Idle.body_data = NULL /\ Idle.granule_vals = NULL /\ Idle \in Context
  BY IdlePoints, SixPointers DEF Distinct, NonNull, Idle
<1>5. Contexts /\ WorkHasBuffers
  BY <1>1, <1>4 DEF Contexts, WorkHasBuffers
<1>6. Calls /\ StaysFull
  BY <1>1 DEF Calls, StaysFull, Allocating, Freeing
<1>7. InHand = {} /\ \A id \in TaskIDs : Owned(id) = {}
  BY <1>1, IdlePoints, NothingNonNull DEF InHand, Owned
<1>8. OwnedOnce /\ InHand \subseteq live
  BY <1>7 DEF OwnedOnce
<1> QED
  BY <1>1, <1>3, <1>5, <1>6, <1>8 DEF TaskInv

\* What a step does to the blocks that are reachable from nowhere.
OrphansStep ==
    \/ Orphans' = Orphans
    \/ /\ op = "create" /\ op' = "loop" /\ ~ Created
       /\ Orphans' = Orphans \cup (InHand \cap Heap!Blocks)

LEMMA TaskNext == TaskInv /\ [Next]_vars => TaskInv' /\ HeapStep /\ (OrphansStep \/ UNCHANGED vars)
<1> SUFFICES ASSUME TaskInv, [Next]_vars
             PROVE  TaskInv' /\ HeapStep /\ (OrphansStep \/ UNCHANGED vars)
  OBVIOUS
<1>1. CASE AllocNext
  BY <1>1, AllocStep DEF OrphansStep
<1>2. CASE FreeNext
  BY <1>2, FreeStep DEF OrphansStep
<1>3. CASE CreateReturns
  BY <1>3, CreateReturnsStep DEF OrphansStep
<1>4. CASE DestroyReturns
  BY <1>4, DestroyReturnsStep DEF OrphansStep
<1>5. CASE StreamReturns
  BY <1>5, StreamReturnsStep DEF OrphansStep
<1>6. CASE StreamFails
  BY <1>6, StreamFailsStep DEF OrphansStep
<1>7. CASE ClearReturns \/ ChainGoesOn
  BY <1>7, ClearReturnsStep DEF OrphansStep
<1>8. CASE HeadReturns
  BY <1>8, HeadReturnsStep DEF OrphansStep
<1>9. ASSUME NEW id \in TaskIDs, Create(id) \/ OpenStream(id) \/ HeadPacket(id)
      PROVE  TaskInv' /\ HeapStep /\ OrphansStep
  BY <1>9, BeginStep DEF OrphansStep
<1>10. ASSUME NEW id \in TaskIDs, Destroy(id)
       PROVE  TaskInv' /\ HeapStep /\ OrphansStep
  BY <1>10, DestroyStep DEF OrphansStep
<1>11. ASSUME NEW id \in TaskIDs, Chained(id)
       PROVE  TaskInv' /\ HeapStep /\ OrphansStep
  BY <1>11, ChainedStep DEF OrphansStep
<1>12. CASE FreeLacing \/ UNCHANGED vars
  <2>1. UNCHANGED <<heapVars, ctx, op, task, todo, got>>
    BY <1>12 DEF vars, FreeLacing, Heap!FreeForeign, Heap!vars, heapVars
  <2>2. HeapPart' /\ HeapStep
    BY <2>1, QuietHeap DEF TaskInv
  <2>3. Contexts' /\ WorkHasBuffers'
    BY <2>1 DEF TaskInv, Contexts, WorkHasBuffers
  <2>4. InHand' = InHand /\ live' = live /\ \A id \in TaskIDs : Owned(id)' = Owned(id)
    BY <2>1 DEF InHand, Owned, heapVars
  <2>5. OwnedOnce' /\ (InHand \subseteq live)'
    BY <2>4 DEF TaskInv, OwnedOnce
  <2>6. Calls'
    BY <2>1 DEF TaskInv, Calls, Asks, Allocating, Freeing
  <2>7. StaysFull'
    BY <2>1, RefusesAsLong DEF TaskInv, StaysFull
  <2>8. Orphans' = Orphans
    BY <2>4 DEF Orphans
  <2> QED
    BY <2>2, <2>3, <2>5, <2>6, <2>7, <2>8 DEF TaskInv, OrphansStep
<1> QED
  BY <1>1, <1>2, <1>3, <1>4, <1>5, <1>6, <1>7, <1>8, <1>9, <1>10, <1>11, <1>12
  DEF Next, Working

LEMMA TaskAlways == Spec => []TaskInv
BY TaskStart, TaskNext, PTL DEF Spec

\* No two tasks use the same memory, none uses what it gave back, and a call in
\* progress has nothing in hand that a task uses.
THEOREM TaskOwnedOnce == Spec => []OwnedOnce
<1>1. TaskInv => OwnedOnce
  BY DEF TaskInv
<1> QED
  BY TaskAlways, <1>1, PTL

\* A working task has both handles and its context, although task_create looks
\* at the result of the last allocation only.
THEOREM TaskWorkHasBuffers == Spec => []WorkHasBuffers
<1>1. TaskInv => WorkHasBuffers
  BY DEF TaskInv
<1> QED
  BY TaskAlways, <1>1, PTL

\* Only a task_create that fails loses memory, and then just its two handles.
THEOREM TaskOrphans == Spec => OrphansOnlyFromFailure
<1>1. TaskInv /\ [Next]_vars => [OrphansStep]_vars
  BY TaskNext
<1> QED
  BY TaskAlways, <1>1, PTL DEF Spec, OrphansOnlyFromFailure, OrphansStep

\* The task table with all its calls uses the heap as its interface allows: each
\* step is a grant or a refusal that os_malloc makes, the free of a block that is
\* handed out, the free of the static table that os_free turns away, or none.
THEOREM TaskImplementsHeap == Spec => IsHeapClient
<1>1. TaskInv /\ [Next]_vars => [Heap!Next]_(Heap!vars)
  BY TaskNext DEF HeapStep
<1> QED
  BY TaskStart, TaskAlways, <1>1, PTL DEF Spec, IsHeapClient, Heap!Spec

-----------------------------------------------------------------------------
(* The heap's own type, which every call of a task keeps                    *)

\* The flags and positions stay inside their class; the piece counts stop a
\* scan that wrapped round.
HeapTyped ==
    /\ LowByte = 0
    /\ Heap!TypeOK
    /\ \A i \in Heap!Slots(Heap!Big) : piece[i] > 0

LEMMA HeapConstants ==
    /\ Heap!Big \in Heap!Class
    /\ \A c \in Heap!Class : Cnt[c] \in Nat /\ Cnt[c] > 0 /\ Bytes[c] \in Nat /\ Bytes[c] > 0
BY TaskAssumption DEF Heap!Class, Heap!Big

LEMMA RunFits ==
    ASSUME HeapTyped, NEW c \in Heap!Class, NEW n \in Nat \ {0}, NEW i \in Nat,
           Heap!Found(c, n, i), c = Heap!Big \/ n = 1
    PROVE  i .. i + n - 1 \subseteq Heap!Slots(c)
<1>1. /\ pos[c] \in Nat /\ pos[c] < Cnt[c] /\ Cnt[c] \in Nat /\ Cnt[c] > 0
  BY HeapConstants DEF HeapTyped, Heap!TypeOK, Heap!Slots
<1>2. \A j \in 0 .. n - 1 : ~ Heap!Flagged(c, i + j)
  BY DEF Heap!Found, Heap!Later, Heap!Earlier, Heap!Run
<1>3. i + n <= Cnt[c]
  <2>1. CASE i \in Heap!Later(c, n)
    BY <1>1, <2>1 DEF Heap!Later
  <2>2. CASE i \in Heap!Earlier(c, n) /\ n = 1
    BY <1>1, <2>2 DEF Heap!Earlier
  <2>3. CASE i \in Heap!Earlier(c, n) /\ c = Heap!Big
    <3>1. i <= pos[c]
      BY <1>1, <2>3 DEF Heap!Earlier
    <3>2. SUFFICES ASSUME i + n > Cnt[c] PROVE FALSE
      BY <1>1
    <3>3. Cnt[c] - i \in 0 .. n - 1 /\ i + (Cnt[c] - i) = Cnt[c]
      BY <1>1, <3>1, <3>2
    <3>4. Cnt[c] + LowByte = Cnt[c] /\ ~ Heap!Flagged(c, Cnt[c])
      <4>1. LowByte = 0
        BY DEF HeapTyped
      <4> QED
        BY <1>1, <1>2, <3>3, <4>1
    <3>5. piece[0] # 0
      BY <1>1, <2>3 DEF HeapTyped, Heap!Slots
    <3> QED
      BY <1>1, <3>4, <3>5 DEF Heap!Flagged
  <2> QED
    BY <2>1, <2>2, <2>3 DEF Heap!Found
<1> QED
  BY <1>1, <1>3 DEF Heap!Slots

LEMMA GrantTyped ==
    ASSUME HeapTyped, NEW size \in Nat, NEW b \in Heap!Candidates(size), Heap!Grant(size, b)
    PROVE  HeapTyped'
<1>1. /\ Heap!Grants(size, b) /\ live' = live \cup {b} /\ used' = Heap!UsedWith(b)
      /\ piece' = Heap!PieceWith(b) /\ pos' = [pos EXCEPT ![b.cls] = b.idx]
  BY DEF Heap!Grant
<1>2. /\ b \in Heap!Blocks /\ b.idx \in Heap!Slots(b.cls)
      /\ b.cls \in Heap!Class /\ b.idx \in Nat /\ b.cnt \in Nat \ {0}
  <2>1. PICK c \in Heap!Class :
           b \in [cls : {c}, idx : Heap!Slots(c), cnt : 1 .. Cnt[Heap!Big], size : {size}]
    BY DEF Heap!Candidates
  <2> QED
    BY <2>1, HeapConstants DEF Heap!Blocks, Heap!Slots
<1>3. b.cls = Heap!Big \/ b.cnt = 1
  BY <1>1, <1>2, TaskAssumption DEF Heap!Grants, Heap!Tries, Heap!Class, Heap!Big
<1>4. Heap!Span(b) \subseteq Heap!Slots(b.cls)
  BY <1>1, <1>2, <1>3, RunFits DEF Heap!Grants, Heap!Span
<1>5. Heap!Slots(b.cls) \subseteq Nat
  BY <1>2, HeapConstants DEF Heap!Slots
<1>6. /\ used' \in [Heap!Class -> SUBSET Nat]
      /\ \A c \in Heap!Class : used'[c] \subseteq Heap!Slots(c)
  BY <1>1, <1>2, <1>4, <1>5 DEF HeapTyped, Heap!TypeOK, Heap!UsedWith
<1>7. /\ piece' \in [Heap!Slots(Heap!Big) -> Nat]
      /\ \A i \in Heap!Slots(Heap!Big) : piece'[i] > 0
  BY <1>1, <1>2 DEF HeapTyped, Heap!TypeOK, Heap!PieceWith
<1>8. /\ pos' \in [Heap!Class -> Nat]
      /\ \A c \in Heap!Class : pos'[c] \in Heap!Slots(c)
  BY <1>1, <1>2 DEF HeapTyped, Heap!TypeOK
<1>9. live' \subseteq Heap!Blocks
  BY <1>1, <1>2 DEF HeapTyped, Heap!TypeOK
<1> QED
  BY <1>6, <1>7, <1>8, <1>9 DEF HeapTyped, Heap!TypeOK, Heap!Slots

LEMMA FreeTyped ==
    ASSUME HeapTyped, NEW b \in live, Heap!Free(b)
    PROVE  HeapTyped'
<1>1. /\ live' = live \ {b} /\ used' = Heap!UsedWithout(used, b) /\ pos' = pos
      /\ piece' = Heap!PieceWithout(piece, b)
  BY DEF Heap!Free
<1>2. b.cls \in Heap!Class
  BY DEF HeapTyped, Heap!TypeOK, Heap!Blocks
<1>3. /\ used' \in [Heap!Class -> SUBSET Nat]
      /\ \A c \in Heap!Class : used'[c] \subseteq Heap!Slots(c)
  BY <1>1, <1>2 DEF HeapTyped, Heap!TypeOK, Heap!UsedWithout
<1>4. piece' = [piece EXCEPT ![b.idx] = 1] \/ piece' = piece
  BY <1>1 DEF Heap!PieceWithout
<1>5. /\ piece' \in [Heap!Slots(Heap!Big) -> Nat]
      /\ \A i \in Heap!Slots(Heap!Big) : piece'[i] > 0
  BY <1>4 DEF HeapTyped, Heap!TypeOK
<1> QED
  BY <1>1, <1>3, <1>5 DEF HeapTyped, Heap!TypeOK, Heap!Slots

LEMMA HeapTypedNext ==
    ASSUME TaskInv, HeapTyped, [Next]_vars
    PROVE  HeapTyped'
<1>1. ASSUME UNCHANGED heapVars PROVE HeapTyped'
  BY <1>1 DEF heapVars, HeapTyped, Heap!TypeOK, Heap!Slots
<1>2. CASE AllocNext
  <2>1. op \in {"create", "stream", "head"} /\ todo # <<>>
    BY <1>2 DEF AllocNext
  <2>2. PICK p \in Heap!Candidates(Head(todo)) \cup {NULL} : Alloc(Head(todo), p)
    BY <1>2 DEF AllocNext
  <2>3. Head(todo) \in Nat
    <3>1. todo \in Seq(Nat)
      BY <2>1 DEF TaskInv, Calls, Allocating
    <3> QED
      BY <2>1, <3>1
  <2>4. CASE p = NULL
    BY <1>1, <2>2, <2>4 DEF Alloc, Heap!Refuse, Heap!vars, heapVars
  <2>5. CASE p # NULL
    <3>1. p \in Heap!Candidates(Head(todo)) /\ Heap!Grant(Head(todo), p)
      BY <2>2, <2>5 DEF Alloc
    <3> QED
      BY <2>3, <3>1, GrantTyped
  <2> QED
    BY <2>4, <2>5
<1>3. CASE FreeNext
  <2>1. /\ op \in {"destroy", "clear", "chain"} /\ todo # <<>>
        /\ IF Head(todo) = NULL THEN UNCHANGED heapVars ELSE Heap!Free(Head(todo))
    BY <1>3 DEF FreeNext
  <2>2. CASE Head(todo) = NULL
    BY <1>1, <2>1, <2>2
  <2>3. CASE Head(todo) # NULL
    <3>1. todo \in Seq(Ptr) /\ Distinct(todo) /\ task \in TaskIDs
      BY <2>1 DEF TaskInv, Calls, Contexts, Freeing
    <3>2. Head(todo) \in NonNull(todo)
      BY <2>1, <2>3, <3>1, Taken
    <3>3. Head(todo) \in Owned(task) \cup InHand
      BY <2>1, <3>1, <3>2 DEF Owned, InHand
    <3>4. Head(todo) \in live
      BY <3>1, <3>3 DEF TaskInv, OwnedOnce
    <3> QED
      BY <2>1, <2>3, <3>4, FreeTyped
  <2> QED
    BY <2>2, <2>3
<1>4. CASE ~ AllocNext /\ ~ FreeNext
  <2>1. UNCHANGED heapVars
    BY <1>4 DEF Next, Working, Return, Call, CreateReturns, DestroyReturns, StreamReturns,
       StreamFails, ClearReturns, HeadReturns, ChainGoesOn, Create, Destroy, OpenStream,
       HeadPacket, Chained, FreeLacing, Heap!FreeForeign, Heap!vars, heapVars, vars
  <2> QED
    BY <1>1, <2>1
<1> QED
  BY <1>2, <1>3, <1>4

-----------------------------------------------------------------------------
(* The sizes of what a task holds                                          *)

\* p is NULL, or a block that was asked for with this size.
Is(p, size) == p # NULL => p.size = size

SizedContext(c) ==
    /\ Is(c.in_buf, HandleSize) /\ Is(c.out_buf, HandleSize)
    /\ Is(c.priv_context, ContextSize) /\ Is(c.body_data, BodySize)
    /\ Is(c.granule_vals, GranuleSize) /\ Is(c.st, DecoderSize)

\* The size the i-th os_malloc of a call asks for.
Asked(i) ==
    IF op = "create" THEN IF i <= 2 THEN HandleSize ELSE ContextSize
    ELSE IF op = "stream" THEN IF i = 1 THEN BodySize ELSE GranuleSize
    ELSE DecoderSize

\* The contexts, what a call has got and still asks for, and no more of either
\* than task.c and opus_dec.c have variables for.
TaskSized ==
    /\ \A id \in TaskIDs : SizedContext(ctx[id])
    /\ Allocating =>
          /\ \A i \in 1 .. Len(got) : Is(got[i], Asked(i))
          /\ \A i \in 1 .. Len(todo) : todo[i] = Asked(Len(got) + i)
    /\ Len(got) <= 3 /\ Len(todo) <= 6

LEMMA AskedAgain ==
    ASSUME op' = op, NEW i PROVE Asked(i)' = Asked(i)
BY DEF Asked

LEMMA AllocSized ==
    ASSUME TaskInv, TaskSized, AllocNext
    PROVE  TaskSized'
<1>1. /\ Allocating /\ todo # <<>> /\ todo' = Tail(todo)
      /\ UNCHANGED <<ctx, op, task>>
  BY DEF AllocNext, Allocating
<1>2. PICK p \in Heap!Candidates(Head(todo)) \cup {NULL} :
         Alloc(Head(todo), p) /\ got' = Append(got, p)
  BY DEF AllocNext
<1>3. got \in Seq(Ptr) /\ todo \in Seq(Nat) /\ Asks
  BY <1>1 DEF TaskInv, Calls
<1>4. PICK n \in Nat, m \in Nat : n = Len(got) /\ m = Len(todo) /\ m >= 1
  BY <1>1, <1>3
<1>5. n + m <= 3
  BY <1>1, <1>3, <1>4 DEF Asks, Allocating
<1>6. p \in Ptr
  <2>1. p \in Heap!Candidates(Head(todo)) => p \in Heap!Blocks
    <3> SUFFICES ASSUME p \in Heap!Candidates(Head(todo)) PROVE p \in Heap!Blocks
      OBVIOUS
    <3>1. PICK c \in Heap!Class :
             p \in [cls : {c}, idx : Heap!Slots(c), cnt : 1 .. Cnt[Heap!Big], size : {Head(todo)}]
      BY DEF Heap!Candidates
    <3>2. Head(todo) \in Nat
      BY <1>1, <1>3
    <3> QED
      BY <3>1, <3>2, HeapConstants DEF Heap!Blocks, Heap!Slots
  <2> QED
    BY <1>2, <2>1 DEF Ptr
<1>7. Is(p, Asked(n + 1))
  <2>1. Head(todo) = Asked(n + 1)
    <3>1. Head(todo) = todo[1] /\ 1 \in 1 .. Len(todo)
      BY <1>1, <1>3, <1>4
    <3> QED
      BY <1>1, <1>4, <3>1 DEF TaskSized
  <2>2. p # NULL => p.size = Head(todo)
    BY <1>2 DEF Heap!Candidates
  <2> QED
    BY <2>1, <2>2 DEF Is
<1>8. /\ Len(got') = n + 1 /\ got'[n + 1] = p /\ \A i \in 1 .. n : got'[i] = got[i]
  BY <1>2, <1>3, <1>4, <1>6
<1>9. /\ Len(todo') = m - 1 /\ \A i \in 1 .. m - 1 : todo'[i] = todo[i + 1]
  BY <1>1, <1>3, <1>4
<1>10. Allocating'
  BY <1>1 DEF Allocating
<1>11. \A i \in 1 .. n : Is(got[i], Asked(i))
  BY <1>1, <1>4 DEF TaskSized
<1>12. \A i \in 1 .. m : todo[i] = Asked(n + i)
  BY <1>1, <1>4 DEF TaskSized
<1>13. ASSUME NEW i \in 1 .. n + 1 PROVE Is(got'[i], Asked(i)')
  <2>1. Asked(i)' = Asked(i)
    BY <1>1, AskedAgain
  <2>2. CASE i \in 1 .. n
    BY <1>8, <1>11, <2>1, <2>2
  <2>3. CASE i = n + 1
    BY <1>7, <1>8, <2>1, <2>3
  <2> QED
    BY <2>2, <2>3
<1>14. ASSUME NEW i \in 1 .. m - 1 PROVE todo'[i] = Asked(n + 1 + i)'
  <2>1. i + 1 \in 1 .. m /\ n + (i + 1) = n + 1 + i
    OBVIOUS
  <2>2. todo[i + 1] = Asked(n + 1 + i)
    BY <1>12, <2>1
  <2>3. Asked(n + 1 + i)' = Asked(n + 1 + i)
    BY <1>1, AskedAgain
  <2> QED
    BY <1>9, <2>2, <2>3
<1>15. \A id \in TaskIDs : SizedContext(ctx[id])'
  BY <1>1 DEF TaskSized, SizedContext, Is
<1>16. Len(got') <= 3 /\ Len(todo') <= 6
  BY <1>5, <1>8, <1>9
<1>17. \A i \in 1 .. Len(got') : Is(got'[i], Asked(i)')
  BY <1>8, <1>13, Zenon
<1>18. \A i \in 1 .. Len(todo') : todo'[i] = Asked(Len(got) + i)'
  BY <1>8, <1>9, <1>14, Zenon
<1>19. \A id \in TaskIDs : SizedContext(ctx[id])'
  BY <1>15
<1> QED
  BY <1>16, <1>17, <1>18, <1>19, Zenon DEF TaskSized

\* A step that replaces no pointer but those of one context.
LEMMA SizedWhen ==
    ASSUME TaskSized, NEW t, \A id \in TaskIDs \ {t} : ctx'[id] = ctx[id],
           SizedContext(ctx'[t]), ~ Allocating', Len(got') <= 3, Len(todo') <= 6
    PROVE  TaskSized'
<1>1. \A id \in TaskIDs : SizedContext(ctx'[id])
  BY DEF TaskSized
<1>2. \A id \in TaskIDs : SizedContext(ctx[id])'
  BY <1>1 DEF SizedContext, Is
<1> QED
  BY <1>2 DEF TaskSized

\* A step that begins to allocate.
LEMMA SizedBegin ==
    ASSUME TaskSized, ctx' = ctx, got' = <<>>,
           \/ op' = "create" /\ todo' \in {<<HandleSize, HandleSize>>,
                                           <<HandleSize, HandleSize, ContextSize>>}
           \/ op' = "stream" /\ todo' = <<BodySize, GranuleSize>>
           \/ op' = "head" /\ todo' = <<DecoderSize>>
    PROVE  TaskSized'
<1>1. \A id \in TaskIDs : SizedContext(ctx[id])'
  BY DEF TaskSized, SizedContext, Is
<1>2. Len(got') = 0 /\ Len(todo') \in {1, 2, 3}
  OBVIOUS
<1>3. ASSUME NEW i \in 1 .. Len(todo') PROVE todo'[i] = Asked(i)'
  BY DEF Asked
<1>4. \A i \in 1 .. Len(todo') : todo'[i] = Asked(Len(got) + i)'
  <2>1. \A i \in 1 .. Len(todo') : Len(got') + i = i
    BY <1>2
  <2>2. ASSUME NEW i \in 1 .. Len(todo') PROVE Asked(Len(got) + i)' = Asked(i)'
    BY <2>1 DEF Asked
  <2> QED
    BY <1>3, <2>2
<1>5. Len(got') <= 3 /\ Len(todo') <= 6
  BY <1>2
<1>6. \A i \in 1 .. Len(got') : Is(got'[i], Asked(i)')
  BY <1>2
<1> QED
  BY <1>1, <1>4, <1>5, <1>6, Zenon DEF TaskSized

LEMMA BeginSized ==
    ASSUME TaskInv, TaskSized,
           \/ \E id \in TaskIDs : Create(id) \/ OpenStream(id) \/ HeadPacket(id)
           \/ ChainGoesOn
    PROVE  TaskSized'
<1>1. CASE \E id \in TaskIDs : Create(id) \/ OpenStream(id) \/ HeadPacket(id)
  <2>1. ctx' = ctx /\ got' = <<>>
    BY <1>1 DEF Create, OpenStream, HeadPacket, Call
  <2>2. \/ op' = "create" /\ todo' \in {<<HandleSize, HandleSize>>,
                                        <<HandleSize, HandleSize, ContextSize>>}
        \/ op' = "stream" /\ todo' = <<BodySize, GranuleSize>>
        \/ op' = "head" /\ todo' = <<DecoderSize>>
    BY <1>1, Zenon DEF Create, OpenStream, HeadPacket, Call
  <2> QED
    BY <2>1, <2>2, SizedBegin
<1>2. CASE ChainGoesOn
  <2>1. op = "chain" /\ op' = "head" /\ todo' = <<DecoderSize>> /\ ctx' = ctx /\ got' = got
    BY <1>2 DEF ChainGoesOn
  <2>2. got = <<>>
    BY <2>1 DEF TaskInv, Calls
  <2> QED
    BY <2>1, <2>2, SizedBegin
<1> QED
  BY <1>1, <1>2

\* What a call that is over has got.
LEMMA GotSized ==
    ASSUME TaskInv, TaskSized, Allocating, todo = <<>>
    PROVE  /\ op = "create" /\ Created =>
                 Is(got[1], HandleSize) /\ Is(got[2], HandleSize) /\ Is(got[3], ContextSize)
           /\ op = "stream" => Is(got[1], BodySize) /\ Is(got[2], GranuleSize)
           /\ op = "head" => Is(got[1], DecoderSize)
<1>1. \A i \in 1 .. Len(got) : Is(got[i], Asked(i))
  BY DEF TaskSized
<1>2. /\ op = "create" => Len(got) \in {2, 3}
      /\ op = "stream" => Len(got) = 2
      /\ op = "head" => Len(got) = 1
  BY GotPointers
<1>3. ASSUME op = "create", Created
      PROVE  Is(got[1], HandleSize) /\ Is(got[2], HandleSize) /\ Is(got[3], ContextSize)
  <2>1. 1 \in 1 .. Len(got) /\ 2 \in 1 .. Len(got) /\ 3 \in 1 .. Len(got)
    BY <1>3 DEF Created
  <2>2. Asked(1) = HandleSize /\ Asked(2) = HandleSize /\ Asked(3) = ContextSize
    BY <1>3 DEF Asked
  <2> QED
    BY <1>1, <2>1, <2>2
<1>4. ASSUME op = "stream" PROVE Is(got[1], BodySize) /\ Is(got[2], GranuleSize)
  <2>1. 1 \in 1 .. Len(got) /\ 2 \in 1 .. Len(got)
    BY <1>2, <1>4
  <2>2. Asked(1) = BodySize /\ Asked(2) = GranuleSize
    BY <1>4 DEF Asked
  <2> QED
    BY <1>1, <2>1, <2>2
<1>5. ASSUME op = "head" PROVE Is(got[1], DecoderSize)
  <2>1. 1 \in 1 .. Len(got)
    BY <1>2, <1>5
  <2>2. Asked(1) = DecoderSize
    BY <1>5 DEF Asked
  <2> QED
    BY <1>1, <2>1, <2>2
<1> QED
  BY <1>3, <1>4, <1>5

LEMMA IdleSized == SizedContext(Idle)
BY DEF SizedContext, Is, Idle

LEMMA ReturnSized ==
    ASSUME TaskInv, TaskSized,
           CreateReturns \/ DestroyReturns \/ StreamReturns \/ HeadReturns \/ ClearReturns
    PROVE  TaskSized'
<1>1. /\ todo = <<>> /\ todo' = todo /\ got' = <<>> /\ op' = "loop" /\ task' = task
      /\ op \in {"create", "destroy", "stream", "head", "clear"}
  BY DEF CreateReturns, DestroyReturns, StreamReturns, HeadReturns, ClearReturns, Return
<1>2. ~ Allocating' /\ Len(got') <= 3 /\ Len(todo') <= 6
  BY <1>1 DEF Allocating
<1>3. ctx \in [TaskIDs -> Context] /\ task \in TaskIDs
  BY DEF TaskInv, Contexts
<1> PICK t \in TaskIDs : t = task
  BY <1>3
<1>4. SizedContext(ctx[t]) /\ ctx[t] \in Context
  BY <1>3 DEF TaskSized
<1>5. (\A id \in TaskIDs \ {t} : ctx'[id] = ctx[id]) /\ SizedContext(ctx'[t])
  <2>1. CASE ctx' = ctx
    BY <1>4, <2>1
  <2>2. CASE CreateReturns /\ Created
    <3>1. op = "create"
      BY <2>2 DEF CreateReturns, Return
    <3>2. Is(got[1], HandleSize) /\ Is(got[2], HandleSize) /\ Is(got[3], ContextSize)
      BY <1>1, <2>2, <3>1, GotSized DEF Allocating
    <3>3. ctx' = [ctx EXCEPT ![t] =
                     [Idle EXCEPT !.task_status = "TASK_WORK", !.in_buf = got[1],
                                  !.out_buf = got[2], !.priv_context = got[3]]]
      BY <2>2 DEF CreateReturns
    <3>4. SizedContext([Idle EXCEPT !.task_status = "TASK_WORK", !.in_buf = got[1],
                                    !.out_buf = got[2], !.priv_context = got[3]])
      BY <3>2 DEF SizedContext, Is, Idle
    <3> QED
      BY <1>3, <3>3, <3>4
  <2>3. CASE DestroyReturns
    BY <1>3, <2>3, IdleSized DEF DestroyReturns
  <2>4. CASE StreamReturns
    <3>1. op = "stream"
      BY <2>4 DEF StreamReturns, Return
    <3>2. Is(got[1], BodySize) /\ Is(got[2], GranuleSize)
      BY <1>1, <3>1, GotSized DEF Allocating
    <3>3. ctx' = [ctx EXCEPT ![t].stream_init = TRUE, ![t].body_data = got[1],
                             ![t].granule_vals = got[2]]
      BY <2>4 DEF StreamReturns
    <3>4. ctx'[t] = [ctx[t] EXCEPT !.stream_init = TRUE, !.body_data = got[1],
                                   !.granule_vals = got[2]]
          /\ \A id \in TaskIDs \ {t} : ctx'[id] = ctx[id]
      BY <1>3, <3>3
    <3> QED
      BY <1>4, <3>2, <3>4 DEF SizedContext, Context
  <2>5. CASE HeadReturns
    <3>1. op = "head"
      BY <2>5 DEF HeadReturns, Return
    <3>2. Is(got[1], DecoderSize)
      BY <1>1, <3>1, GotSized DEF Allocating
    <3>3. ctx'[t] = [ctx[t] EXCEPT !.st = got[1]]
          /\ \A id \in TaskIDs \ {t} : ctx'[id] = ctx[id]
      BY <1>3, <2>5 DEF HeadReturns
    <3> QED
      BY <1>4, <3>2, <3>3 DEF SizedContext, Context
  <2> QED
    BY <2>1, <2>2, <2>3, <2>4, <2>5 DEF CreateReturns, ClearReturns
<1> QED
  BY <1>2, <1>5, SizedWhen

LEMMA LeaveSized ==
    ASSUME TaskInv, TaskSized,
           \/ StreamFails
           \/ \E id \in TaskIDs : Destroy(id) \/ Chained(id)
    PROVE  TaskSized'
<1>1. ctx \in [TaskIDs -> Context] /\ task \in TaskIDs
  BY DEF TaskInv, Contexts
<1>2. CASE StreamFails
  <2>1. /\ op = "stream" /\ op' = "clear" /\ todo = <<>> /\ todo' = got /\ got' = <<>>
        /\ ctx' = [ctx EXCEPT ![task].stream_init = TRUE]
    BY <1>2 DEF StreamFails
  <2>2. ~ Allocating' /\ Len(got') <= 3
    BY <2>1 DEF Allocating
  <2>3. Len(got) = 2
    BY <2>1, GotPointers DEF Allocating
  <2>4. Len(todo') <= 6
    BY <2>1, <2>3
  <2>5. (\A id \in TaskIDs \ {task} : ctx'[id] = ctx[id])
        /\ ctx'[task] = [ctx[task] EXCEPT !.stream_init = TRUE]
    BY <1>1, <2>1
  <2>6. SizedContext(ctx'[task])
    <3>1. SizedContext(ctx[task]) /\ ctx[task] \in Context
      BY <1>1 DEF TaskSized
    <3> QED
      BY <2>5, <3>1 DEF SizedContext, Context
  <2> QED
    BY <2>2, <2>4, <2>5, <2>6, SizedWhen
<1>3. ASSUME NEW id \in TaskIDs, Destroy(id) PROVE TaskSized'
  <2>1. op' = "destroy" /\ todo' = Pointers(ctx[id]) /\ got' = <<>> /\ ctx' = ctx
    BY <1>3 DEF Destroy, Call
  <2>2. ~ Allocating' /\ Len(got') <= 3
    BY <2>1 DEF Allocating
  <2>3. Len(todo') <= 6
    BY <2>1 DEF Pointers
  <2>4. SizedContext(ctx'[id])
    BY <2>1 DEF TaskSized
  <2> QED
    BY <2>1, <2>2, <2>3, <2>4, SizedWhen
<1>4. ASSUME NEW id \in TaskIDs, Chained(id) PROVE TaskSized'
  <2>1. op' = "chain" /\ todo' = <<ctx[id].st>> /\ got' = <<>> /\ ctx' = [ctx EXCEPT ![id].st = NULL]
    BY <1>4 DEF Chained, Call
  <2>2. ~ Allocating' /\ Len(got') <= 3 /\ Len(todo') <= 6
    BY <2>1 DEF Allocating
  <2>3. (\A t \in TaskIDs \ {id} : ctx'[t] = ctx[t]) /\ ctx'[id] = [ctx[id] EXCEPT !.st = NULL]
    BY <1>1, <2>1
  <2>4. SizedContext(ctx'[id])
    <3>1. SizedContext(ctx[id]) /\ ctx[id] \in Context
      BY <1>1 DEF TaskSized
    <3> QED
      BY <2>3, <3>1 DEF SizedContext, Context, Is
  <2> QED
    BY <2>2, <2>3, <2>4, SizedWhen
<1> QED
  BY <1>2, <1>3, <1>4

LEMMA FreeSized ==
    ASSUME TaskInv, TaskSized, FreeNext
    PROVE  TaskSized'
<1>1. /\ Freeing /\ op' = op /\ todo # <<>> /\ todo' = Tail(todo) /\ ctx' = ctx /\ got' = got
  BY DEF FreeNext, Freeing
<1>2. todo \in Seq(Ptr) /\ task \in TaskIDs
  BY <1>1 DEF TaskInv, Calls, Contexts
<1>3. Len(todo') = Len(todo) - 1 /\ Len(todo) \in Nat
  BY <1>1, <1>2
<1>4. Len(todo') <= 6 /\ Len(got') <= 3
  BY <1>1, <1>3 DEF TaskSized
<1>5. ~ Allocating'
  BY <1>1 DEF Allocating, Freeing
<1>6. SizedContext(ctx'[task])
  BY <1>1, <1>2 DEF TaskSized
<1> QED
  BY <1>1, <1>4, <1>5, <1>6, SizedWhen

LEMMA SizedNext ==
    ASSUME TaskInv, TaskSized, [Next]_vars
    PROVE  TaskSized'
<1>1. CASE FreeLacing \/ UNCHANGED vars
  <2>1. ctx' = ctx /\ op' = op /\ todo' = todo /\ got' = got
    BY <1>1 DEF vars, FreeLacing
  <2> QED
    BY <2>1 DEF TaskSized, SizedContext, Is, Asked, Allocating
<1> QED
  BY <1>1, AllocSized, FreeSized, BeginSized, ReturnSized, LeaveSized DEF Next, Working

LEMMA TypedStart == LowByte = 0 /\ Init => HeapTyped /\ TaskSized
<1> SUFFICES ASSUME LowByte = 0, Init PROVE HeapTyped /\ TaskSized
  OBVIOUS
<1>1. /\ Heap!Init /\ ctx = [id \in TaskIDs |-> Idle] /\ op = "loop" /\ task \in TaskIDs
      /\ todo = <<>> /\ got = <<>>
  BY DEF Init
<1>2. HeapTyped
  BY <1>1, HeapConstants DEF HeapTyped, Heap!TypeOK, Heap!Init, Heap!Slots
<1>3. TaskSized
  BY <1>1, IdleSized DEF TaskSized, Allocating
<1> QED
  BY <1>2, <1>3

LEMMA TypedAlways == LowByte = 0 /\ Spec => [](HeapTyped /\ TaskSized)
<1> SUFFICES ASSUME LowByte = 0 PROVE Spec => [](HeapTyped /\ TaskSized)
  OBVIOUS
<1>1. Init => HeapTyped /\ TaskSized
  BY TypedStart
<1>2. TaskInv /\ HeapTyped /\ TaskSized /\ [Next]_vars => (HeapTyped /\ TaskSized)'
  BY HeapTypedNext, SizedNext
<1> QED
  BY TaskAlways, <1>1, <1>2, PTL DEF Spec

LacingFlag == lacing \in BOOLEAN

LEMMA LacingAlways == Spec => []LacingFlag
<1>1. Init => LacingFlag
  BY DEF Init, LacingFlag
<1>2. LacingFlag /\ [Next]_vars => LacingFlag'
  BY Zenon DEF LacingFlag, Next, Working, AllocNext, FreeNext, FreeLacing, CreateReturns, DestroyReturns,
     StreamReturns, StreamFails, ClearReturns, HeadReturns, ChainGoesOn, Create, Destroy,
     OpenStream, HeadPacket, Chained, Call, Return, vars
<1> QED
  BY <1>1, <1>2, PTL DEF Spec

\* In every state the flags, positions and piece counts of the heap are in
\* range, and every pointer of a task is NULL or a block that is handed out
\* and was asked for with the size of what the task keeps in it, but for those
\* that task_destory is giving back; where the low byte of an int comes first.
THEOREM TaskTypeOK == LowByte = 0 /\ Spec => []TypeOK
<1>1. TaskInv /\ HeapTyped /\ TaskSized /\ LacingFlag => TypeOK
  <2> SUFFICES ASSUME TaskInv, HeapTyped, TaskSized, LacingFlag PROVE TypeOK
    OBVIOUS
  <2>1. Heap!TypeOK
    BY DEF HeapTyped
  <2>2. op \in {"loop", "create", "destroy", "stream", "clear", "head", "chain"}
        /\ task \in TaskIDs
    BY DEF TaskInv, Calls, Contexts, Allocating, Freeing
  <2>3. Len(todo) <= 6 /\ Len(got) <= 3
    BY DEF TaskSized
  <2>4. ASSUME NEW id \in TaskIDs, op # "destroy" \/ id # task
        PROVE  /\ ctx[id].task_status \in {"TASK_IDLE", "TASK_WORK"}
               /\ ctx[id].stream_init \in BOOLEAN
               /\ ctx[id].in_buf       \in Pointer(HandleSize)
               /\ ctx[id].out_buf      \in Pointer(HandleSize)
               /\ ctx[id].priv_context \in Pointer(ContextSize)
               /\ ctx[id].body_data    \in Pointer(BodySize)
               /\ ctx[id].granule_vals \in Pointer(GranuleSize)
               /\ ctx[id].st           \in Pointer(DecoderSize)
    <3>1. ctx[id] \in Context
      BY DEF TaskInv, Contexts
    <3>2. SizedContext(ctx[id])
      BY DEF TaskSized
    <3>3. NonNull(Pointers(ctx[id])) \subseteq live
      <4>1. Owned(id) \subseteq live
        BY DEF TaskInv, OwnedOnce
      <4> QED
        BY <2>4, <4>1 DEF Owned
    <3>4. {ctx[id].st, ctx[id].body_data, ctx[id].granule_vals, ctx[id].priv_context,
           ctx[id].in_buf, ctx[id].out_buf} \ {NULL} \subseteq live
      BY <3>1, <3>3, Pointed
    <3>5. ctx[id].task_status \in {"TASK_IDLE", "TASK_WORK"} /\ ctx[id].stream_init \in BOOLEAN
      BY <3>1 DEF Context
    <3> QED
      BY <3>2, <3>4, <3>5 DEF Pointer, SizedContext, Is
  <2> QED
    BY <2>1, <2>2, <2>3, <2>4 DEF TypeOK, LacingFlag
<1> QED
  BY TaskAlways, TypedAlways, LacingAlways, <1>1, PTL
=============================================================================
