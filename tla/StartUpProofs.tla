--------------------------- MODULE StartUpProofs ----------------------------
(***************************************************************************)
(* Theorems about StartUp, for any task numbers, ids and contexts.         *)
(***************************************************************************)
EXTENDS StartUp, SequenceTheorems, TLAPS

Start(n) == Cmd(n, TASK_START)
Stop(n)  == Cmd(n, TASK_STOP)

\* Two task numbers never share an id; the host only takes a STOP out as a STOP.
Shape ==
    /\ NoHole
    /\ pc = "action" => taskNo \in Nos \cup {0}
    /\ \A m, n \in Nos : task_id[m] = task_id[n] => m = n
    /\ host \in {"clear", "pop"} => \E n \in Nos : TASK_QUEQUE[1] = Stop(n)

\* The inductive invariant of the queue.
QueueInv == TypeOK /\ Shape

-----------------------------------------------------------------------------
(* The commands and the queue                                              *)

\* A command is taken apart again into what it was put together from.
LEMMA CmdParts ==
    ASSUME NEW n \in Nos
    PROVE  /\ n \in {1, 2}
           /\ Start(n) \in Commands /\ Stop(n) \in Commands
           /\ Start(n) \in 1 .. 15 /\ Stop(n) \in 1 .. 15
           /\ Start(n) # Empty /\ Stop(n) # Empty
           /\ No(Start(n)) = n /\ Action(Start(n)) = TASK_START
           /\ No(Stop(n)) = n /\ Action(Stop(n)) = TASK_STOP
           /\ \A m \in Nos : Start(n) # Stop(m)
           /\ \A m \in Nos : (Start(n) = Start(m) \/ Stop(n) = Stop(m)) => m = n
<1>1. n \in {1, 2} /\ Nos \subseteq {1, 2}
  BY StartUpAssumption
<1>2. Start(n) \in Commands /\ Stop(n) \in Commands
  BY DEF Commands, Start, Stop, TASK_START, TASK_STOP
<1>3. CASE n = 1
  BY <1>1, <1>2, <1>3
     DEF Start, Stop, Cmd, No, Action, Empty, TASK_START, TASK_STOP
<1>4. CASE n = 2
  BY <1>1, <1>2, <1>4
     DEF Start, Stop, Cmd, No, Action, Empty, TASK_START, TASK_STOP
<1> QED
  BY <1>1, <1>3, <1>4

\* What a field of the queue can hold.
LEMMA CommandIs ==
    ASSUME NEW val \in Commands
    PROVE  \/ val = Empty /\ No(val) = 0 /\ Action(val) = 0
           \/ \E n \in Nos : val = Start(n) \/ val = Stop(n)
<1>1. No(Empty) = 0 /\ Action(Empty) = 0
  BY DEF No, Action, Empty
<1> QED
  BY <1>1 DEF Commands, Start, Stop

LEMMA QueueTyped ==
    ASSUME TypeOK, NoHole
    PROVE  /\ TASK_QUEQUE = <<TASK_QUEQUE[1], TASK_QUEQUE[2]>>
           /\ TASK_QUEQUE[1] \in Commands /\ TASK_QUEQUE[2] \in Commands
           /\ First = TASK_QUEQUE[1]
           /\ TASK_QUEQUE[1] = Empty => TASK_QUEQUE[2] = Empty
BY DEF TypeOK, NoHole, First

\* reg_clear_task moves the second command up.
LEMMA PoppedIs ==
    ASSUME TypeOK, NoHole
    PROVE  Popped = <<TASK_QUEQUE[2], Empty>>
BY QueueTyped DEF Popped

\* reg_enable_task puts a command behind the others, or drops it.
LEMMA PushedIs ==
    ASSUME TypeOK, NoHole, NEW val
    PROVE  Pushed(val) = IF TASK_QUEQUE[1] = Empty THEN <<val, Empty>>
                         ELSE IF TASK_QUEQUE[2] = Empty THEN <<TASK_QUEQUE[1], val>>
                         ELSE TASK_QUEQUE
BY QueueTyped DEF Pushed

-----------------------------------------------------------------------------
(* Types and the shape of the queue                                        *)

LEMMA QueueInit == Init => QueueInv
<1> SUFFICES ASSUME Init PROVE QueueInv
  OBVIOUS
<1>1. TASK_QUEQUE = <<Empty, Empty>> /\ disable = FALSE /\ INT = {}
  BY DEF Init
<1>2. TypeOK
  <2>1. Empty \in Commands
    BY DEF Commands
  <2>2. wants \in [Nos -> {"off", "started", "stopping"}] /\ starts \in [Nos -> 0 .. MaxStarts]
    BY StartUpAssumption DEF Init
  <2>3. status \in [TaskIDs -> {"TASK_IDLE", "TASK_WORK"}]
    BY DEF Init
  <2>4. isr \in IsrType /\ INT \subseteq IsrType
    BY <1>1 DEF Init, IsrType
  <2> QED
    <3>1. pc = "boot" /\ host = "up" /\ hostIsr = {} /\ oldIsr = {} /\ task_id \in [Nos -> IDs]
      BY DEF Init
    <3> QED
      BY <1>1, <2>1, <2>2, <2>3, <2>4, <3>1 DEF TypeOK
<1>3. Shape
  BY <1>1 DEF Init, Shape, NoHole
<1> QED
  BY <1>2, <1>3 DEF QueueInv

LEMMA DspQueue == QueueInv /\ Dsp => QueueInv'
<1> SUFFICES ASSUME QueueInv, Dsp PROVE QueueInv'
  OBVIOUS
<1>1. TypeOK /\ Shape /\ NoHole
  BY DEF QueueInv, Shape
<1>2. UNCHANGED <<TASK_QUEQUE, disable, task_id, hostVars>>
  BY DEF Dsp, Loop, CodecReturns, Boot, CheckDisable, ReadNo, ReadAction, ServeUnknown,
     ServeStart, ServeStop, ReadInt, WriteInt, regs
<1> USE <1>2 DEF hostVars
<1>3. NoHole'
  BY <1>1 DEF NoHole
<1>4. \A m, n \in Nos : task_id'[m] = task_id'[n] => m = n
  BY <1>1 DEF Shape
<1>5. host' \in {"clear", "pop"} => \E n \in Nos : TASK_QUEQUE'[1] = Stop(n)
  BY <1>1 DEF Shape, Stop, Cmd
<1>6. CASE Boot \/ CheckDisable
  <2>1. /\ pc' \in {"raise", "no"} /\ isr' \in IsrType
        /\ UNCHANGED <<INT, status, taskNo, taskAction, oldIsr>>
    BY <1>1, <1>6 DEF Boot, CheckDisable, Raising, regs, IsrType, TypeOK
  <2>2. TypeOK'
    BY <1>1, <2>1 DEF TypeOK
  <2> QED
    BY <1>3, <1>4, <1>5, <2>1, <2>2 DEF QueueInv, Shape
<1>7. CASE ReadNo
  <2>1. /\ pc' = "action" /\ taskNo' = No(First)
        /\ UNCHANGED <<INT, status, taskAction, isr, oldIsr>>
    BY <1>7 DEF ReadNo, regs
  <2>2. No(First) \in Nos \cup {0}
    BY <1>1, QueueTyped, CommandIs, CmdParts
  <2>3. TypeOK'
    BY <1>1, <2>1 DEF TypeOK
  <2> QED
    BY <1>3, <1>4, <1>5, <2>1, <2>2, <2>3 DEF QueueInv, Shape
<1>8. CASE ReadAction
  <2>1. /\ pc = "action" /\ taskNo' = taskNo
        /\ pc' = IF taskNo \in {1, 2} /\ taskAction' \in {TASK_START, TASK_STOP}
                 THEN "serve" ELSE "loop"
        /\ UNCHANGED <<INT, status, isr, oldIsr>>
    BY <1>8 DEF ReadAction, regs
  <2>2. pc' = "serve" => taskNo' \in Nos /\ taskAction' \in {TASK_START, TASK_STOP}
    BY <1>1, <2>1 DEF Shape
  <2>3. TypeOK'
    BY <1>1, <2>1, <2>2 DEF TypeOK
  <2> QED
    BY <1>3, <1>4, <1>5, <2>1, <2>3 DEF QueueInv, Shape
<1>9. CASE ServeUnknown \/ ServeStart \/ CodecReturns
  <2>1. /\ pc' \in {"loop", "codec"} /\ UNCHANGED <<INT, taskNo, taskAction, isr, oldIsr>>
        /\ status' \in [TaskIDs -> {"TASK_IDLE", "TASK_WORK"}]
    <3>1. CASE ServeUnknown
      BY <1>1, <3>1 DEF ServeUnknown, regs, TypeOK
    <3>2. CASE ServeStart
      BY <1>1, <3>2 DEF ServeStart, regs, TypeOK
    <3>3. CASE CodecReturns
      BY <1>1, <3>3 DEF CodecReturns, regs, TypeOK
    <3> QED
      BY <1>9, <3>1, <3>2, <3>3
  <2>2. TypeOK'
    BY <1>1, <2>1 DEF TypeOK
  <2> QED
    BY <1>3, <1>4, <1>5, <2>1, <2>2 DEF QueueInv, Shape
<1>10. CASE ServeStop
  <2>1. /\ pc' = "raise" /\ isr' \in IsrType
        /\ UNCHANGED <<INT, taskNo, taskAction, oldIsr>>
        /\ status' \in [TaskIDs -> {"TASK_IDLE", "TASK_WORK"}]
    BY <1>1, <1>10 DEF ServeStop, Raising, StopIsr, IsrType, regs, TypeOK
  <2>2. TypeOK'
    BY <1>1, <2>1 DEF TypeOK
  <2> QED
    BY <1>3, <1>4, <1>5, <2>1, <2>2 DEF QueueInv, Shape
<1>11. CASE ReadInt
  <2>1. /\ pc' = "isr" /\ oldIsr' = INT /\ UNCHANGED <<INT, status, taskNo, taskAction, isr>>
    BY <1>11 DEF ReadInt, regs
  <2>2. TypeOK'
    BY <1>1, <2>1 DEF TypeOK
  <2> QED
    BY <1>3, <1>4, <1>5, <2>1, <2>2 DEF QueueInv, Shape
<1>12. CASE WriteInt
  <2>1. /\ pc' \in {"off", "loop"} /\ INT' = oldIsr \cup {isr}
        /\ UNCHANGED <<status, taskNo, taskAction, isr, oldIsr>>
    BY <1>12 DEF WriteInt
  <2>2. TypeOK'
    BY <1>1, <2>1 DEF TypeOK
  <2> QED
    BY <1>3, <1>4, <1>5, <2>1, <2>2 DEF QueueInv, Shape
<1> QED
  BY <1>6, <1>7, <1>8, <1>9, <1>10, <1>11, <1>12 DEF Dsp, Loop

LEMMA HostQueue == QueueInv /\ Host => QueueInv'
<1> SUFFICES ASSUME QueueInv, Host PROVE QueueInv'
  OBVIOUS
<1>1. TypeOK /\ Shape /\ NoHole
  BY DEF QueueInv, Shape
<1>2. /\ TASK_QUEQUE = <<TASK_QUEQUE[1], TASK_QUEQUE[2]>>
      /\ TASK_QUEQUE[1] \in Commands /\ TASK_QUEQUE[2] \in Commands
      /\ First = TASK_QUEQUE[1]
      /\ TASK_QUEQUE[1] = Empty => TASK_QUEQUE[2] = Empty
      /\ Empty \in Commands
  BY <1>1, QueueTyped DEF Commands
<1>3. CASE Enabled \/ Disable \/ Disabled
  <2>1. /\ host' \in {"run", "join", "crashed"} /\ disable' \in BOOLEAN
        /\ UNCHANGED <<TASK_QUEQUE, task_id, INT, dspVars, hostIsr, wants, starts>>
    BY <1>1, <1>3 DEF Enabled, Disable, Disabled, regs, TypeOK
  <2>2. TypeOK'
    BY <1>1, <2>1 DEF TypeOK, dspVars
  <2> QED
    BY <1>1, <2>1, <2>2 DEF QueueInv, Shape, NoHole, dspVars
<1>5. ASSUME NEW n \in Nos, PushStart(n) \/ PushStop(n) PROVE QueueInv'
  <2>1. PICK val \in {Start(n), Stop(n)} : TASK_QUEQUE' = Pushed(val)
    BY <1>5 DEF PushStart, PushStop, Start, Stop
  <2>2. val \in Commands /\ val # Empty
    BY <2>1, CmdParts
  <2>3. /\ TASK_QUEQUE' \in Commands \X Commands
        /\ TASK_QUEQUE'[1] = Empty => TASK_QUEQUE'[2] = Empty
    BY <1>1, <1>2, <2>1, <2>2, PushedIs
  <2>4. /\ host = "run" /\ UNCHANGED <<disable, task_id, INT, dspVars, host, hostIsr>>
        /\ wants' \in [Nos -> {"off", "started", "stopping"}]
        /\ starts' \in [Nos -> 0 .. MaxStarts]
    BY <1>1, <1>5, StartUpAssumption DEF PushStart, PushStop, TypeOK
  <2>5. TypeOK'
    BY <1>1, <2>3, <2>4 DEF TypeOK, dspVars
  <2> QED
    BY <1>1, <2>3, <2>4, <2>5 DEF QueueInv, Shape, NoHole, dspVars
<1>6. CASE TakeStart \/ TakeStop
  <2>1. TASK_QUEQUE' = <<TASK_QUEQUE[2], Empty>>
    BY <1>1, <1>6, PoppedIs DEF TakeStart, TakeStop
  <2>2. /\ UNCHANGED <<disable, task_id, INT, dspVars, hostIsr, starts>> /\ host' = "run"
        /\ wants' \in [Nos -> {"off", "started", "stopping"}]
    BY <1>1, <1>6 DEF TakeStart, TakeStop, hostVars, TypeOK
  <2>3. TypeOK'
    BY <1>1, <1>2, <2>1, <2>2 DEF TypeOK, dspVars
  <2> QED
    BY <1>1, <1>2, <2>1, <2>2, <2>3 DEF QueueInv, Shape, NoHole, dspVars
<1>7. CASE AckSeen
  <2>1. /\ host' = "clear" /\ hostIsr' \subseteq IsrType
        /\ Action(First) = TASK_STOP
        /\ UNCHANGED <<regs, dspVars, wants, starts>>
    BY <1>1, <1>7 DEF AckSeen, TypeOK
  <2>2. \E n \in Nos : TASK_QUEQUE[1] = Stop(n)
    <3>1. TASK_START # TASK_STOP /\ TASK_STOP # 0
      BY DEF TASK_START, TASK_STOP
    <3> QED
      BY <1>2, <2>1, <3>1, CommandIs, CmdParts
  <2>3. TypeOK'
    BY <1>1, <2>1 DEF TypeOK, regs, dspVars
  <2> QED
    BY <1>1, <2>1, <2>2, <2>3 DEF QueueInv, Shape, NoHole, regs, dspVars, Stop, Cmd
<1>8. CASE ClearIsr
  <2>1. /\ host = "clear" /\ host' = "pop" /\ INT' = hostIsr
        /\ UNCHANGED <<TASK_QUEQUE, disable, task_id, dspVars, hostIsr, wants, starts>>
    BY <1>8 DEF ClearIsr
  <2>2. TypeOK'
    BY <1>1, <2>1 DEF TypeOK, dspVars
  <2> QED
    BY <1>1, <2>1, <2>2 DEF QueueInv, Shape, NoHole, dspVars, Stop, Cmd
<1> QED
  BY <1>3, <1>5, <1>6, <1>7, <1>8 DEF Host

LEMMA QueueNext == QueueInv /\ [Next]_vars => QueueInv'
<1>1. QueueInv /\ UNCHANGED vars => QueueInv'
  BY DEF QueueInv, Shape, NoHole, TypeOK, vars, regs, dspVars, hostVars, Stop, Cmd
<1> QED
  BY <1>1, DspQueue, HostQueue DEF Next, Ended

\* Every register, local and bookkeeping variable keeps its type: whatever is
\* pushed into a full queue or cleared from it, a field holds a command or none.
THEOREM StartUpTyped == Spec => []TypeOK
<1>1. QueueInv => TypeOK
  BY DEF QueueInv
<1> QED
  BY <1>1, QueueInit, QueueNext, PTL DEF Spec

\* The second field of the queue is never filled while the first is empty: the
\* branches of register.c that warn of it are dead.
THEOREM StartUpNoHole == Spec => []NoHole
<1>1. QueueInv => NoHole
  BY DEF QueueInv, Shape
<1> QED
  BY <1>1, QueueInit, QueueNext, PTL DEF Spec

-----------------------------------------------------------------------------
(* The queue is a Fifo                                                     *)

LEMMA ShortSeqs ==
    ASSUME NEW S, NEW a \in S, NEW b \in S
    PROVE  <<a>> \in Seq(S) /\ <<a, b>> \in Seq(S)
OBVIOUS

\* How sequences of up to two elements are put together and shortened.
LEMMA Joins ==
    ASSUME NEW a, NEW b
    PROVE  /\ << >> \o << >> = << >> /\ <<a>> \o << >> = <<a>> /\ <<a>> \o <<b>> = <<a, b>>
           /\ SubSeq(<<a>>, 2, 1) = << >> /\ SubSeq(<<a, b>>, 3, 2) = << >>
           /\ SubSeq(<<a>>, 1, 1) = <<a>> /\ SubSeq(<<a, b>>, 1, 1) = <<a>>
           /\ SubSeq(<<a, b>>, 2, 2) = <<b>>
<1> DEFINE S == {a, b}
<1>1. << >> \in Seq(S) /\ <<a>> \in Seq(S) /\ <<b>> \in Seq(S) /\ <<a, b>> \in Seq(S)
  OBVIOUS
<1>2. << >> \o << >> = << >> /\ <<a>> \o << >> = <<a>>
  BY <1>1, ConcatEmptySeq
<1>3. <<a>> \o <<b>> = Append(<<a>>, b)
  BY <1>1, AppendIsConcat
<1>4. Append(<<a>>, b) = <<a, b>>
  <2>1. /\ Append(<<a>>, b) \in Seq(S) /\ Len(Append(<<a>>, b)) = 2
        /\ Append(<<a>>, b)[1] = a /\ Append(<<a>>, b)[2] = b
    BY <1>1, AppendProperties
  <2>2. \A i \in 1 .. 2 : Append(<<a>>, b)[i] = <<a, b>>[i]
    <3>1. \A i \in 1 .. 2 : i = 1 \/ i = 2
      OBVIOUS
    <3> QED
      BY <2>1, <3>1
  <2> QED
    BY <1>1, <2>1, <2>2, SeqEqual
<1>5. SubSeq(<<a>>, 2, 1) = << >> /\ SubSeq(<<a, b>>, 3, 2) = << >>
  BY SubSeqEmpty
<1>6. ASSUME NEW c \in S, NEW s \in Seq(S), NEW i \in 1 .. Len(s), s[i] = c
      PROVE  SubSeq(s, i, i) = <<c>>
  <2>1. /\ SubSeq(s, i, i) \in Seq(S) /\ Len(SubSeq(s, i, i)) = 1
        /\ SubSeq(s, i, i)[1] = c
    <3>1. i \in Int /\ i - i + 1 = 1 /\ i + 1 - 1 = i /\ \A k \in i .. i : s[k] \in S
      BY <1>6
    <3> QED
      BY <1>6, <3>1, SubSeqProperties
  <2>2. <<c>> \in Seq(S) /\ Len(<<c>>) = 1 /\ <<c>>[1] = c
    BY <1>6
  <2>3. \A k \in 1 .. Len(SubSeq(s, i, i)) : SubSeq(s, i, i)[k] = <<c>>[k]
    <3>1. \A k \in 1 .. 1 : k = 1
      OBVIOUS
    <3> QED
      BY <2>1, <2>2, <3>1
  <2>4. Len(SubSeq(s, i, i)) = Len(<<c>>)
    BY <2>1, <2>2
  <2> QED
    BY <2>1, <2>2, <2>3, <2>4, SeqEqual
<1>7. /\ SubSeq(<<a>>, 1, 1) = <<a>> /\ SubSeq(<<a, b>>, 1, 1) = <<a>>
      /\ SubSeq(<<a, b>>, 2, 2) = <<b>>
  <2>1. /\ 1 \in 1 .. Len(<<a>>) /\ <<a>>[1] = a /\ a \in S
        /\ 1 \in 1 .. Len(<<a, b>>) /\ <<a, b>>[1] = a
        /\ 2 \in 1 .. Len(<<a, b>>) /\ <<a, b>>[2] = b /\ b \in S
    OBVIOUS
  <2> HIDE DEF S
  <2> QED
    BY <1>1, <1>6, <2>1
<1> QED
  BY <1>2, <1>3, <1>4, <1>5, <1>6, <1>7

\* The three states a queue without a hole can be in.
LEMMA WaitingIs ==
    ASSUME TypeOK, NoHole
    PROVE  /\ TASK_QUEQUE[1] = Empty => Waiting = <<>>
           /\ TASK_QUEQUE[1] # Empty /\ TASK_QUEQUE[2] = Empty
                 => Waiting = <<TASK_QUEQUE[1]>>
           /\ TASK_QUEQUE[1] # Empty /\ TASK_QUEQUE[2] # Empty
                 => Waiting = <<TASK_QUEQUE[1], TASK_QUEQUE[2]>>
           /\ Waiting \in Seq(1 .. 15)
<1>1. \A val \in Commands : val # Empty => val \in 1 .. 15
  BY CommandIs, CmdParts
<1>2. /\ TASK_QUEQUE[1] \in Commands /\ TASK_QUEQUE[2] \in Commands
      /\ TASK_QUEQUE[1] = Empty => TASK_QUEQUE[2] = Empty
  BY QueueTyped
<1>3. Waiting = (IF TASK_QUEQUE[1] = Empty THEN << >> ELSE <<TASK_QUEQUE[1]>>)
                  \o (IF TASK_QUEQUE[2] = Empty THEN << >> ELSE <<TASK_QUEQUE[2]>>)
  BY DEF Waiting
<1>4. /\ TASK_QUEQUE[1] = Empty => Waiting = <<>>
      /\ TASK_QUEQUE[1] # Empty /\ TASK_QUEQUE[2] = Empty => Waiting = <<TASK_QUEQUE[1]>>
      /\ TASK_QUEQUE[1] # Empty /\ TASK_QUEQUE[2] # Empty => Waiting = <<TASK_QUEQUE[1], TASK_QUEQUE[2]>>
  BY <1>2, <1>3, Joins
<1>5. Waiting \in Seq(1 .. 15)
  <2>1. CASE TASK_QUEQUE[1] = Empty
    BY <1>4, <2>1, EmptySeq
  <2>2. CASE TASK_QUEQUE[1] # Empty /\ TASK_QUEQUE[2] = Empty
    <3>1. <<TASK_QUEQUE[1]>> \in Seq(1 .. 15)
      BY <1>1, <1>2, <2>2, ShortSeqs
    <3> QED
      BY <1>4, <2>2, <3>1
  <2>3. CASE TASK_QUEQUE[1] # Empty /\ TASK_QUEQUE[2] # Empty
    <3>1. <<TASK_QUEQUE[1], TASK_QUEQUE[2]>> \in Seq(1 .. 15)
      BY <1>1, <1>2, <2>3, ShortSeqs
    <3> QED
      BY <1>4, <2>3, <3>1
  <2> QED
    BY <2>1, <2>2, <2>3
<1> QED
  BY <1>4, <1>5

LEMMA WaitingIsNext ==
    ASSUME TypeOK', NoHole'
    PROVE  /\ TASK_QUEQUE'[1] = Empty => Waiting' = <<>>
           /\ TASK_QUEQUE'[1] # Empty /\ TASK_QUEQUE'[2] = Empty
                 => Waiting' = <<TASK_QUEQUE'[1]>>
           /\ TASK_QUEQUE'[1] # Empty /\ TASK_QUEQUE'[2] # Empty
                 => Waiting' = <<TASK_QUEQUE'[1], TASK_QUEQUE'[2]>>
           /\ Waiting' \in Seq(1 .. 15)
<1>1. \A val \in Commands : val # Empty => val \in 1 .. 15
  BY CommandIs, CmdParts
<1>2. /\ TASK_QUEQUE' = <<TASK_QUEQUE'[1], TASK_QUEQUE'[2]>>
      /\ TASK_QUEQUE'[1] \in Commands /\ TASK_QUEQUE'[2] \in Commands
      /\ TASK_QUEQUE'[1] = Empty => TASK_QUEQUE'[2] = Empty
  BY DEF TypeOK, NoHole, Commands
<1>3. Waiting' = (IF TASK_QUEQUE'[1] = Empty THEN << >> ELSE <<TASK_QUEQUE'[1]>>)
                  \o (IF TASK_QUEQUE'[2] = Empty THEN << >> ELSE <<TASK_QUEQUE'[2]>>)
  BY DEF Waiting
<1>4. /\ TASK_QUEQUE'[1] = Empty => Waiting' = <<>>
      /\ TASK_QUEQUE'[1] # Empty /\ TASK_QUEQUE'[2] = Empty => Waiting' = <<TASK_QUEQUE'[1]>>
      /\ TASK_QUEQUE'[1] # Empty /\ TASK_QUEQUE'[2] # Empty => Waiting' = <<TASK_QUEQUE'[1], TASK_QUEQUE'[2]>>
  BY <1>2, <1>3, Joins
<1>5. Waiting' \in Seq(1 .. 15)
  <2>1. CASE TASK_QUEQUE'[1] = Empty
    BY <1>4, <2>1, EmptySeq
  <2>2. CASE TASK_QUEQUE'[1] # Empty /\ TASK_QUEQUE'[2] = Empty
    <3>1. <<TASK_QUEQUE'[1]>> \in Seq(1 .. 15)
      BY <1>1, <1>2, <2>2, ShortSeqs
    <3> QED
      BY <1>4, <2>2, <3>1
  <2>3. CASE TASK_QUEQUE'[1] # Empty /\ TASK_QUEQUE'[2] # Empty
    <3>1. <<TASK_QUEQUE'[1], TASK_QUEQUE'[2]>> \in Seq(1 .. 15)
      BY <1>1, <1>2, <2>3, ShortSeqs
    <3> QED
      BY <1>4, <2>3, <3>1
  <2> QED
    BY <2>1, <2>2, <2>3
<1> QED
  BY <1>4, <1>5

\* reg_enable_task puts a command in, or leaves a full queue as it is.
LEMMA PushPuts ==
    ASSUME QueueInv, QueueInv', NEW n \in Nos, PushStart(n) \/ PushStop(n)
    PROVE  Queue!Put \/ UNCHANGED Waiting
<1>1. TypeOK /\ NoHole /\ TypeOK' /\ NoHole'
  BY DEF QueueInv, Shape
<1>2. PICK val \in {Start(n), Stop(n)} : TASK_QUEQUE' = Pushed(val)
  BY DEF PushStart, PushStop, Start, Stop
<1>3. val # Empty
  BY <1>2, CmdParts
<1>4. TASK_QUEQUE' = IF TASK_QUEQUE[1] = Empty THEN <<val, Empty>>
                     ELSE IF TASK_QUEQUE[2] = Empty THEN <<TASK_QUEQUE[1], val>>
                     ELSE TASK_QUEQUE
  BY <1>1, <1>2, PushedIs
<1>5. CASE TASK_QUEQUE[1] = Empty
  <2>1. Waiting = <<>> /\ Waiting' = <<val>> /\ Waiting' \in Seq(1 .. 15)
    BY <1>1, <1>3, <1>4, <1>5, WaitingIs, WaitingIsNext
  <2> QED
    BY <2>1 DEF Queue!Put
<1>6. CASE TASK_QUEQUE[1] # Empty /\ TASK_QUEQUE[2] = Empty
  <2>1. /\ Waiting = <<TASK_QUEQUE[1]>> /\ Waiting' = <<TASK_QUEQUE[1], val>>
        /\ Waiting' \in Seq(1 .. 15)
    BY <1>1, <1>3, <1>4, <1>6, WaitingIs, WaitingIsNext
  <2>2. Len(Waiting) = 1 /\ Len(Waiting') = 2 /\ SubSeq(Waiting', 1, 1) = Waiting
    BY <2>1, Joins
  <2> QED
    BY <2>1, <2>2 DEF Queue!Put
<1>7. CASE TASK_QUEQUE[1] # Empty /\ TASK_QUEQUE[2] # Empty
  BY <1>4, <1>7 DEF Waiting
<1> QED
  BY <1>5, <1>6, <1>7

\* reg_clear_task takes the first command out, whichever field it is told to.
LEMMA PopTakes ==
    ASSUME QueueInv, QueueInv', TakeStart \/ TakeStop
    PROVE  Queue!Take \/ UNCHANGED Waiting
<1>1. TypeOK /\ NoHole /\ TypeOK' /\ NoHole'
  BY DEF QueueInv, Shape
<1>2. TASK_QUEQUE' = <<TASK_QUEQUE[2], Empty>>
  BY <1>1, PoppedIs DEF TakeStart, TakeStop
<1>3. CASE TASK_QUEQUE[1] = Empty
  BY <1>1, <1>2, <1>3, WaitingIs, WaitingIsNext, QueueTyped
<1>4. CASE TASK_QUEQUE[1] # Empty /\ TASK_QUEQUE[2] = Empty
  <2>1. Waiting = <<TASK_QUEQUE[1]>> /\ Waiting' = <<>>
    BY <1>1, <1>2, <1>4, WaitingIs, WaitingIsNext
  <2>2. Len(Waiting) = 1 /\ SubSeq(Waiting, 2, 1) = <<>>
    BY <2>1, Joins
  <2> QED
    BY <2>1, <2>2 DEF Queue!Take
<1>5. CASE TASK_QUEQUE[1] # Empty /\ TASK_QUEQUE[2] # Empty
  <2>1. Waiting = <<TASK_QUEQUE[1], TASK_QUEQUE[2]>> /\ Waiting' = <<TASK_QUEQUE[2]>>
    BY <1>1, <1>2, <1>5, WaitingIs, WaitingIsNext
  <2>2. Len(Waiting) = 2 /\ SubSeq(Waiting, 2, 2) = <<TASK_QUEQUE[2]>>
    BY <2>1, Joins
  <2>3. 1 \in 1 .. Len(Waiting) /\ Waiting' = SubSeq(Waiting, 1 + 1, Len(Waiting))
    BY <2>1, <2>2
  <2> QED
    BY <2>3 DEF Queue!Take
<1> QED
  BY <1>3, <1>4, <1>5

\* The command queue is a first-in first-out queue of two: no command overtakes
\* another, appears twice or gets lost once reg_enable_task has stored it.
THEOREM StartUpImplementsFifo == Spec => IsFifo
<1>1. Init => Queue!Init
  <2>1. Init => TypeOK /\ NoHole /\ TASK_QUEQUE[1] = Empty
    BY QueueInit DEF QueueInv, Shape, Init
  <2> QED
    BY <2>1, WaitingIs DEF Queue!Init
<1>2. QueueInv /\ QueueInv' /\ [Next]_vars => [Queue!Next]_Waiting
  <2> SUFFICES ASSUME QueueInv, QueueInv', [Next]_vars
               PROVE  Queue!Next \/ UNCHANGED Waiting
    BY DEF Queue!Next
  <2>1. CASE \E n \in Nos : PushStart(n) \/ PushStop(n)
    BY <2>1, PushPuts DEF Queue!Next
  <2>2. CASE TakeStart \/ TakeStop
    BY <2>2, PopTakes DEF Queue!Next
  <2>3. CASE \/ Dsp \/ Enabled \/ Disable \/ Disabled \/ AckSeen \/ ClearIsr
            \/ Ended \/ UNCHANGED vars
    <3>1. UNCHANGED TASK_QUEQUE
      BY <2>3 DEF Dsp, Loop, CodecReturns, Boot, CheckDisable, ReadNo, ReadAction,
         ServeUnknown, ServeStart, ServeStop, ReadInt, WriteInt, Enabled, Disable,
         Disabled, AckSeen, ClearIsr, Ended, vars, regs
    <3> QED
      BY <3>1 DEF Waiting
  <2> QED
    BY <2>1, <2>2, <2>3 DEF Next, Host
<1> QED
  BY <1>1, <1>2, QueueInit, QueueNext, PTL DEF Spec, IsFifo, Queue!Spec
=============================================================================
