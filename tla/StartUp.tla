------------------------------ MODULE StartUp -------------------------------
(***************************************************************************)
(* api/main.c and the control registers of platform/register.c (the x86    *)
(* build): the start_up thread, the queue of two commands it serves, the   *)
(* interrupt status it raises, and the host thread that fills the queue.   *)
(*                                                                         *)
(* regMutex makes each access to TASK_QUEQUE one step, but the loop takes  *)
(* it twice, once for the task number and once for the action.  Nothing    *)
(* guards INT, which both threads read, change and write back.  (In the    *)
(* dsp32 build reg_set_task_isr is empty and nothing is ever raised.)      *)
(*                                                                         *)
(* The host's start and stop are stubs (core_start, core_stop).  It is     *)
(* taken to be one thread that keeps a STOP queued until it sees the       *)
(* task's stop interrupt, then clears the interrupt and the entry; a START *)
(* it may take out at any time.  It enables and disables the DSP as        *)
(* core_init and core_uninit do; the latter ends the program.              *)
(***************************************************************************)
EXTENDS Integers, Sequences

CONSTANTS
    Nos,        \* the task numbers the host uses: TASK_NO_0 = 1, TASK_NO_1 = 2
    TaskIDs,    \* the entries of sTaskContext
    IDs,        \* the values the host puts into the id fields of RUN_CTRL
    MaxStarts   \* bound: STARTs of a task number while the DSP is enabled

ASSUME StartUpAssumption ==
    /\ Nos \subseteq {1, 2}
    /\ TaskIDs \subseteq 0 .. 15 /\ IDs \subseteq 0 .. 15
    /\ MaxStarts \in Nat

TASK_START == 4
TASK_STOP  == 8

\* A command is a nibble: the task number in the low bits, the action above.
Empty == 0
Cmd(n, action) == n + action
No(val)     == val % 4
Action(val) == val - (val % 4)

StopIsr(n) == IF n = 1 THEN "ISR_TASK_NO_0_STOP" ELSE "ISR_TASK_NO_1_STOP"
IsrType == {StopIsr(1), StopIsr(2), "ISR_ENABLE_OK", "ISR_DISABLE_OK"}

VARIABLES
    TASK_QUEQUE,   \* the two command fields
    disable,       \* bit 24 of RUN_CTRL
    task_id,       \* the id fields of RUN_CTRL
    INT,           \* the interrupts that are set
    status,        \* task_status of each context; they outlive the thread
    pc, taskNo, taskAction,   \* where the start_up thread is, and its locals
    isr, oldIsr,   \* the interrupt it is about to raise, and INT as it read it
    host, hostIsr, \* where the host is, and the INT it is about to store
    wants,         \* what the host wants of each task number
    starts         \* how often it started each

regs     == <<TASK_QUEQUE, disable, task_id, INT>>
dspVars  == <<status, pc, taskNo, taskAction, isr, oldIsr>>
hostVars == <<host, hostIsr, wants, starts>>
vars     == <<regs, dspVars, hostVars>>

-----------------------------------------------------------------------------
(* The queue                                                               *)

Bug_PushedOver(val) == [TASK_QUEQUE EXCEPT ![1] = val]

\* reg_enable_task: a command for a full queue is dropped.
Pushed(val) ==
    LET val0 == TASK_QUEQUE[1]
        val1 == TASK_QUEQUE[2]
    IN  IF val0 # Empty /\ val1 # Empty THEN TASK_QUEQUE
        ELSE IF val0 = Empty /\ val1 # Empty THEN <<val1, val>>
        ELSE IF val0 # Empty THEN <<val0, val>>
        ELSE <<val, Empty>>

\* reg_clear_task: whatever fields it is asked to clear, the first command
\* goes and the second one moves up.
Popped ==
    LET val0 == TASK_QUEQUE[1]
        val1 == TASK_QUEQUE[2]
    IN  IF val0 = Empty THEN <<Empty, Empty>> ELSE <<val1, Empty>>

\* What reg_get_task_no and reg_get_task_action take their bits from.
First ==
    IF TASK_QUEQUE[1] = Empty /\ TASK_QUEQUE[2] # Empty
    THEN TASK_QUEQUE[2] ELSE TASK_QUEQUE[1]

-----------------------------------------------------------------------------
Init ==
    /\ TASK_QUEQUE = <<Empty, Empty>> /\ disable = FALSE /\ INT = {}
    /\ task_id \in [Nos -> IDs]
    /\ \A m, n \in Nos : task_id[m] = task_id[n] => m = n
    /\ status = [id \in TaskIDs |-> "TASK_IDLE"]
    /\ pc = "boot" /\ taskNo = 0 /\ taskAction = 0
    /\ isr = "ISR_ENABLE_OK" /\ oldIsr = {}
    /\ host = "up" /\ hostIsr = {}
    /\ wants = [n \in Nos |-> "off"]
    /\ starts = [n \in Nos |-> 0]

(* The start_up thread                                                     *)

Raising(type) == pc' = "raise" /\ isr' = type

\* start_up: os_malloc_init and the rest of the set-up touch no register.
Boot ==
    /\ pc = "boot"
    /\ Raising("ISR_ENABLE_OK")
    /\ UNCHANGED <<regs, status, taskNo, taskAction, oldIsr, hostVars>>

\* The top of the loop.  The tasks stay as they are when it is left.
CheckDisable ==
    /\ pc = "loop"
    /\ IF disable THEN Raising("ISR_DISABLE_OK") ELSE pc' = "no" /\ UNCHANGED isr
    /\ UNCHANGED <<regs, status, taskNo, taskAction, oldIsr, hostVars>>

ReadNo ==
    /\ pc = "no" /\ pc' = "action"
    /\ taskNo' = No(First)
    /\ UNCHANGED <<regs, status, taskAction, isr, oldIsr, hostVars>>

ReadAction ==
    /\ pc = "action"
    /\ taskAction' = Action(First)
    /\ pc' = IF taskNo \in {1, 2} /\ taskAction' \in {TASK_START, TASK_STOP}
             THEN "serve" ELSE "loop"
    /\ UNCHANGED <<regs, status, taskNo, isr, oldIsr, hostVars>>

\* An id without a context: nothing happens.
ServeUnknown ==
    /\ pc = "serve" /\ pc' = "loop"
    /\ task_id[taskNo] \notin TaskIDs
    /\ UNCHANGED <<regs, status, taskNo, taskAction, isr, oldIsr, hostVars>>

\* task_create, if idle, may fail (see Task); then task_process, which only
\* calls the codec of a task at work.
ServeStart ==
    /\ pc = "serve"
    /\ taskAction = TASK_START /\ task_id[taskNo] \in TaskIDs
    /\ \E made \in {"TASK_IDLE", "TASK_WORK"} : status' =
          [status EXCEPT ![task_id[taskNo]] = IF @ = "TASK_IDLE" THEN made ELSE @]
    /\ pc' = IF status'[task_id[taskNo]] = "TASK_WORK" THEN "codec" ELSE "loop"
    /\ UNCHANGED <<regs, taskNo, taskAction, isr, oldIsr, hostVars>>

\* The codec need not ever return: opus_dec_decode reads on until a packet is
\* complete or data is short, which on x86 it is never told (see OpusDec).
CodecReturns ==
    /\ pc = "codec" /\ pc' = "loop"
    /\ UNCHANGED <<regs, status, taskNo, taskAction, isr, oldIsr, hostVars>>

Bug_ServeStopSilent ==
    /\ pc = "serve" /\ pc' = "loop"
    /\ taskAction = TASK_STOP /\ task_id[taskNo] \in TaskIDs
    /\ status' = [status EXCEPT ![task_id[taskNo]] = "TASK_IDLE"]
    /\ UNCHANGED <<regs, taskNo, taskAction, isr, oldIsr, hostVars>>

Bug_ServeStopOnlyAcks ==
    /\ pc = "serve"
    /\ taskAction = TASK_STOP /\ task_id[taskNo] \in TaskIDs
    /\ Raising(StopIsr(taskNo))
    /\ UNCHANGED <<regs, status, taskNo, taskAction, oldIsr, hostVars>>

\* task_destory, then the interrupt; the command stays in the queue.
ServeStop ==
    /\ pc = "serve"
    /\ taskAction = TASK_STOP /\ task_id[taskNo] \in TaskIDs
    /\ status' = [status EXCEPT ![task_id[taskNo]] = "TASK_IDLE"]
    /\ Raising(StopIsr(taskNo))
    /\ UNCHANGED <<regs, taskNo, taskAction, oldIsr, hostVars>>

\* reg_set_task_isr reads INT ...
ReadInt ==
    /\ pc = "raise" /\ pc' = "isr"
    /\ oldIsr' = INT
    /\ UNCHANGED <<regs, status, taskNo, taskAction, isr, hostVars>>

\* ... and writes it back with the interrupt added.
WriteInt ==
    /\ pc = "isr"
    /\ INT' = oldIsr \cup {isr}
    /\ pc' = IF isr = "ISR_DISABLE_OK" THEN "off" ELSE "loop"
    /\ UNCHANGED <<TASK_QUEQUE, disable, task_id, status, taskNo, taskAction, isr,
                   oldIsr, hostVars>>

\* The thread outside of a codec.
Loop ==
    \/ Boot \/ CheckDisable \/ ReadNo \/ ReadAction
    \/ ServeUnknown \/ ServeStart \/ ServeStop \/ ReadInt \/ WriteInt

Dsp == Loop \/ CodecReturns

-----------------------------------------------------------------------------
(* The host                                                                *)

\* core_init has waited for ISR_ENABLE_OK.
Enabled ==
    /\ host = "up" /\ host' = "run"
    /\ "ISR_ENABLE_OK" \in INT
    /\ UNCHANGED <<regs, dspVars, hostIsr, wants, starts>>

PushStart(n) ==
    /\ host = "run"
    /\ wants[n] = "off" /\ starts[n] < MaxStarts
    /\ TASK_QUEQUE' = Pushed(Cmd(n, TASK_START))
    /\ wants'  = [wants EXCEPT ![n] = "started"]
    /\ starts' = [starts EXCEPT ![n] = @ + 1]
    /\ UNCHANGED <<disable, task_id, INT, dspVars, host, hostIsr>>

PushStop(n) ==
    /\ host = "run"
    /\ wants[n] = "started"
    /\ TASK_QUEQUE' = Pushed(Cmd(n, TASK_STOP))
    /\ wants' = [wants EXCEPT ![n] = "stopping"]
    /\ UNCHANGED <<disable, task_id, INT, dspVars, host, hostIsr, starts>>

TakeStart ==
    /\ host = "run"
    /\ Action(First) = TASK_START
    /\ TASK_QUEQUE' = Popped
    /\ UNCHANGED <<disable, task_id, INT, dspVars, hostVars>>

\* The stop interrupt is there: reg_clr_task_isr reads INT ...
AckSeen ==
    /\ host = "run" /\ host' = "clear"
    /\ Action(First) = TASK_STOP /\ StopIsr(No(First)) \in INT
    /\ hostIsr' = INT \ {StopIsr(No(First))}
    /\ UNCHANGED <<regs, dspVars, wants, starts>>

\* ... and writes it back without the interrupt.
ClearIsr ==
    /\ host = "clear" /\ host' = "pop"
    /\ INT' = hostIsr
    /\ UNCHANGED <<TASK_QUEQUE, disable, task_id, dspVars, hostIsr, wants, starts>>

TakeStop ==
    /\ host = "pop" /\ host' = "run"
    /\ TASK_QUEQUE' = Popped
    /\ wants' = [wants EXCEPT ![No(First)] = "off"]
    /\ UNCHANGED <<disable, task_id, INT, dspVars, hostIsr, starts>>

\* core_uninit: reg_disable_run joins the thread, then ISR_DISABLE_OK is awaited.
Disable ==
    /\ host = "run" /\ host' = "join"
    /\ disable' = TRUE
    /\ UNCHANGED <<TASK_QUEQUE, task_id, INT, dspVars, hostIsr, wants, starts>>

\* What search_dev returns is NULL (dev_list.c:24), and core_uninit follows it.
Disabled ==
    /\ host = "join" /\ host' = "crashed"
    /\ pc = "off" /\ "ISR_DISABLE_OK" \in INT
    /\ UNCHANGED <<regs, dspVars, hostIsr, wants, starts>>

Host ==
    \/ Enabled \/ Disable \/ Disabled
    \/ \E n \in Nos : PushStart(n) \/ PushStop(n)
    \/ TakeStart \/ AckSeen \/ ClearIsr \/ TakeStop

\* The program has ended: the only state it may stop in.
Ended == host = "crashed" /\ UNCHANGED vars

Next == Dsp \/ Host \/ Ended

Spec == Init /\ [][Next]_vars

\* The start_up thread is scheduled, and the host finishes what it has begun;
\* nothing is assumed of a codec.
FairSpec == Spec /\ WF_vars(Loop) /\ WF_vars(ClearIsr \/ TakeStop)

-----------------------------------------------------------------------------
Commands == {Empty} \cup {Cmd(n, a) : n \in Nos, a \in {TASK_START, TASK_STOP}}

TypeOK ==
    /\ TASK_QUEQUE \in Commands \X Commands
    /\ disable \in BOOLEAN
    /\ task_id \in [Nos -> IDs]
    /\ INT \subseteq IsrType /\ oldIsr \subseteq IsrType /\ hostIsr \subseteq IsrType
    /\ status \in [TaskIDs -> {"TASK_IDLE", "TASK_WORK"}]
    /\ pc \in {"boot", "loop", "no", "action", "serve", "codec", "raise", "isr", "off"}
    /\ pc = "serve" => taskNo \in Nos /\ taskAction \in {TASK_START, TASK_STOP}
    /\ isr \in IsrType
    /\ host \in {"up", "run", "clear", "pop", "join", "crashed"}
    /\ wants \in [Nos -> {"off", "started", "stopping"}]
    /\ starts \in [Nos -> 0 .. MaxStarts]

\* The second field is only filled while the first one is: the LEVEL_WARN
\* branches of register.c for the other case are never taken.
NoHole == TASK_QUEQUE[1] = Empty => TASK_QUEQUE[2] = Empty

\* The commands that wait, the first one first.
Waiting ==
    LET filled(val) == IF val = Empty THEN <<>> ELSE <<val>>
    IN  filled(TASK_QUEQUE[1]) \o filled(TASK_QUEQUE[2])

Queue == INSTANCE Fifo WITH Byte <- 1 .. 15, Capacity <- 2, queue <- Waiting

\* The queue is first in, first out: no command overtakes another or is lost
\* once it is in, whatever is pushed into a full queue or cleared from it.
IsFifo == Queue!Spec

\* When the host takes the stop interrupt of a task for its answer the task is
\* idle: its context and buffers are the DSP's no more.  This only holds for the
\* first session of a task number: a STOP that stays queued raises its interrupt
\* again after the host has cleared it, and so answers the STOP of the next one.
AckMeansIdle ==
    [][AckSeen /\ task_id[No(First)] \in TaskIDs
          => status[task_id[No(First)]] = "TASK_IDLE"]_vars

\* A working task is only destroyed when the host wants it to stop.  The task
\* number and the action come from two looks at the queue.
StopOnlyWhenAsked ==
    [][\A n \in Nos :
          /\ task_id[n] \in TaskIDs
          /\ status[task_id[n]] = "TASK_WORK" /\ status'[task_id[n]] = "TASK_IDLE"
          => wants[n] = "stopping"]_vars

StopFirst(n) ==
    First = Cmd(n, TASK_STOP) /\ task_id[n] \in TaskIDs /\ host = "run"

\* An interrupt is only raised when it is not set: reg_set_task_isr takes the
\* contrary for an error (platform/register.c:188).  A STOP that stays queued is
\* served, and its interrupt raised, in every turn of the loop.
RaisedOnce == [][WriteInt => isr \notin oldIsr]_vars

\* The thread is in a codec that does not return.
CodecHangs == <>[](pc = "codec")

\* Unless a codec hangs nobody waits for ever: a STOP that has come to the front,
\* and that the host is not just taking out, is answered unless the DSP is
\* disabled meanwhile, and so are core_init and core_uninit, although both threads
\* write INT back unguarded.  core_init does not wait for ever in any case.
Answered ==
    /\ host = "up" ~> "ISR_ENABLE_OK" \in INT
    /\ \/ CodecHangs
       \/ /\ \A n \in Nos : StopFirst(n) ~> (StopIsr(n) \in INT \/ disable)
          /\ disable ~> (pc = "off" /\ "ISR_DISABLE_OK" \in INT)
=============================================================================
