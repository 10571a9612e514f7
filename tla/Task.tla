-------------------------------- MODULE Task --------------------------------
(***************************************************************************)
(* api/task.c, api/list.c and the memory side of api/avcodec/opus_dec.c:   *)
(* the table of task contexts on top of the heap of OsMalloc.  A call      *)
(* (task_create, task_destory, a decode that opens a stream or a decoder)  *)
(* runs from the loop of start_up to its end without a switch; `todo'      *)
(* holds the os_malloc or os_free calls it still has to make, one step     *)
(* each, and `got' what its os_malloc calls returned.                      *)
(***************************************************************************)
EXTENDS Integers, Sequences

CONSTANTS
    NClass, Bytes, Cnt, AddressBits, LowByte,   \* the heap, see OsMalloc
    TaskIDs,       \* the entries of sTaskContext
    Decoders,      \* the codecs of decClass, in the order of the table
    Codecs,        \* the values the host puts into CODEC_ID
    TaskDos,       \* and for a task into RUN_CTRL: TASK_DECODER, TASK_ENCODER
    HandleSize,    \* sizeof(OsBufferHandle)
    ContextSize,   \* sizeof(OpusDecContext)
    BodySize, GranuleSize,   \* body_data and granule_vals of ogg_stream_init
    DecoderSize,   \* opus_multistream_decoder_get_size
    LacingVal,     \* the static table that os->lacing_vals points to
    NULL

VARIABLES
    used, pos, piece, live,   \* the heap
    ctx,      \* sTaskContext, with the pointers its OpusDecContext holds
    op,       \* the call in progress; "loop": none
    task,     \* the task it is about
    todo, got,
    lacing    \* whether its ogg_stream_clear has still to free os->lacing_vals

heapVars == <<used, pos, piece, live>>
vars == <<heapVars, ctx, op, task, todo, got, lacing>>

Sizes == {HandleSize, ContextSize, BodySize, GranuleSize, DecoderSize}

Heap == INSTANCE OsMalloc

\* The heap's own assumptions, and that the context of a codec is not smaller
\* than a handle.
ASSUME TaskAssumption ==
    /\ TaskIDs # {}
    /\ Decoders \in Seq(Codecs)
    /\ NULL \notin Heap!Blocks /\ LacingVal \notin Heap!Blocks
    /\ NClass \in Nat /\ NClass >= 2
    /\ Bytes \in [1 .. NClass -> Nat \ {0}]
    /\ Cnt \in [1 .. NClass -> Nat \ {0}]
    /\ \A c, d \in 1 .. NClass : c < d => Bytes[c] < Bytes[d]
    /\ Sizes \subseteq Nat
    /\ \A s \in Sizes : Heap!Pieces(s) <= Cnt[NClass]
    /\ HandleSize <= ContextSize

Idle == [task_status |-> "TASK_IDLE", in_buf |-> NULL, out_buf |-> NULL,
         priv_context |-> NULL, stream_init |-> FALSE, body_data |-> NULL,
         granule_vals |-> NULL, st |-> NULL]

\* find_register_decoder: the loop bound divides the bytes of the table of
\* pointers by the bytes of a DecoderClass, which is six words long.
Found(codec) ==
    \E i \in 1 .. Len(Decoders) \div 6 : Decoders[i] = codec

Init ==
    /\ Heap!Init
    /\ ctx  = [id \in TaskIDs |-> Idle]
    /\ op   = "loop"
    /\ task \in TaskIDs
    /\ todo = <<>> /\ got = <<>>
    /\ lacing = FALSE

-----------------------------------------------------------------------------
(* The steps of a call                                                     *)

Call(name, id, work) ==
    /\ op = "loop" /\ op' = name
    /\ task' = id /\ todo' = work /\ got' = <<>>
    /\ lacing' = (name = "destroy" /\ ctx[id].body_data # NULL)

Return(name) ==
    /\ op = name /\ op' = "loop"
    /\ todo = <<>> /\ got' = <<>>
    /\ UNCHANGED <<heapVars, task, todo, lacing>>

\* os_malloc(size) returns p.
Alloc(size, p) == IF p = NULL THEN Heap!Refuse(size) ELSE Heap!Grant(size, p)

AllocNext ==
    /\ op \in {"create", "stream", "head"}
    /\ todo # <<>>
    /\ \E p \in Heap!Candidates(Head(todo)) \cup {NULL} :
          /\ Alloc(Head(todo), p)
          /\ got' = Append(got, p)
    /\ todo' = Tail(todo)
    /\ UNCHANGED <<ctx, op, task, lacing>>

\* ogg_stream_clear frees os->lacing_vals between body_data and granule_vals.
AtLacing == lacing /\ Len(todo) = IF op = "clear" THEN 1 ELSE 4

\* What the call in progress passes to os_free next.
Freed == IF AtLacing THEN LacingVal ELSE Head(todo)

\* The callers leave out what was never allocated.
FreeNext ==
    /\ op \in {"destroy", "clear", "chain"}
    /\ todo # <<>> /\ ~ AtLacing
    /\ IF Head(todo) = NULL THEN UNCHANGED heapVars ELSE Heap!Free(Head(todo))
    /\ todo' = Tail(todo)
    /\ UNCHANGED <<ctx, op, task, got, lacing>>

\* The table is static, not from the pool: os_free turns its address away.
FreeLacing ==
    /\ op \in {"destroy", "clear"}
    /\ AtLacing
    /\ Heap!FreeForeign
    /\ lacing' = FALSE
    /\ UNCHANGED <<ctx, op, task, todo, got>>

-----------------------------------------------------------------------------
(* task_create, called by start_up for an idle task                        *)

\* Both handles are opened before anything is looked at; the context is only
\* asked for when the task is a decoder whose codec is found.
Create(id) ==
    /\ ctx[id].task_status = "TASK_IDLE"
    /\ \E taskDo \in TaskDos, codec \in Codecs :
          Call("create", id, IF taskDo = "TASK_DECODER" /\ Found(codec)
                             THEN <<HandleSize, HandleSize, ContextSize>>
                             ELSE <<HandleSize, HandleSize>>)
    /\ UNCHANGED <<heapVars, ctx>>

Bug_CreateReturnsUnchecked ==
    /\ Return("create")
    /\ ctx' = [ctx EXCEPT ![task] =
          [Idle EXCEPT !.task_status = "TASK_WORK", !.in_buf = got[1],
                       !.out_buf = got[2], !.priv_context = got[Len(got)]]]

Created == Len(got) = 3 /\ got[3] # NULL

\* TASK_FAILURE leaves the context as it was, and both handles to nobody.
CreateReturns ==
    /\ Return("create")
    /\ ctx' = IF Created
              THEN [ctx EXCEPT ![task] =
                     [Idle EXCEPT !.task_status = "TASK_WORK", !.in_buf = got[1],
                                  !.out_buf = got[2], !.priv_context = got[3]]]
              ELSE ctx

-----------------------------------------------------------------------------
(* task_destory, with opus_dec_free                                        *)

Pointers(c) ==
    <<c.st, c.body_data, c.granule_vals, c.priv_context, c.in_buf, c.out_buf>>

Bug_DestroyForgetsOut(id) ==
    /\ ctx[id].task_status = "TASK_WORK"
    /\ Call("destroy", id, SubSeq(Pointers(ctx[id]), 1, 5))
    /\ UNCHANGED <<heapVars, ctx>>

\* An idle task is left alone.
Destroy(id) ==
    /\ ctx[id].task_status = "TASK_WORK"
    /\ Call("destroy", id, Pointers(ctx[id]))
    /\ UNCHANGED <<heapVars, ctx>>

Bug_DestroyReturnsWorking == Return("destroy") /\ UNCHANGED ctx

DestroyReturns ==
    /\ Return("destroy")
    /\ ctx' = [ctx EXCEPT ![task] = Idle]

-----------------------------------------------------------------------------
(* task_process: what opus_dec_decode does to the heap                     *)

\* The first page opens the stream.
OpenStream(id) ==
    /\ ctx[id].task_status = "TASK_WORK" /\ ~ ctx[id].stream_init
    /\ Call("stream", id, <<BodySize, GranuleSize>>)
    /\ UNCHANGED <<heapVars, ctx>>

StreamReturns ==
    /\ NULL \notin {got[i] : i \in DOMAIN got}
    /\ Return("stream")
    /\ ctx' = [ctx EXCEPT ![task].stream_init  = TRUE,
                          ![task].body_data    = got[1],
                          ![task].granule_vals = got[2]]

\* ogg_stream_clear gives back what ogg_stream_init could get; the decoder
\* does not look at the result, and never opens the stream again.
StreamFails ==
    /\ op = "stream" /\ todo = <<>>
    /\ NULL \in {got[i] : i \in DOMAIN got}
    /\ op' = "clear" /\ todo' = got /\ got' = <<>> /\ lacing' = TRUE
    /\ ctx' = [ctx EXCEPT ![task].stream_init = TRUE]
    /\ UNCHANGED <<heapVars, task>>

ClearReturns == Return("clear") /\ UNCHANGED ctx

\* A head packet, which only a stream with storage yields, creates the decoder.
HeadPacket(id) ==
    /\ ctx[id].task_status = "TASK_WORK"
    /\ ctx[id].body_data # NULL /\ ctx[id].st = NULL
    /\ Call("head", id, <<DecoderSize>>)
    /\ UNCHANGED <<heapVars, ctx>>

HeadReturns ==
    /\ Return("head")
    /\ ctx' = [ctx EXCEPT ![task].st = got[1]]

Bug_ChainedKeepsPointer(id) ==
    /\ ctx[id].task_status = "TASK_WORK"
    /\ ctx[id].body_data # NULL /\ ctx[id].st # NULL
    /\ Call("chain", id, <<ctx[id].st>>)
    /\ UNCHANGED <<heapVars, ctx>>

\* The head packet of a chained stream: the old decoder is destroyed first.
Chained(id) ==
    /\ ctx[id].task_status = "TASK_WORK"
    /\ ctx[id].body_data # NULL /\ ctx[id].st # NULL
    /\ Call("chain", id, <<ctx[id].st>>)
    /\ ctx' = [ctx EXCEPT ![id].st = NULL]
    /\ UNCHANGED <<heapVars>>

ChainGoesOn ==
    /\ op = "chain" /\ todo = <<>>
    /\ op' = "head" /\ todo' = <<DecoderSize>>
    /\ UNCHANGED <<heapVars, ctx, task, got, lacing>>

-----------------------------------------------------------------------------
Working ==
    \/ AllocNext \/ FreeNext \/ FreeLacing
    \/ CreateReturns \/ DestroyReturns
    \/ StreamReturns \/ StreamFails \/ ClearReturns
    \/ HeadReturns \/ ChainGoesOn

Next ==
    \/ Working
    \/ \E id \in TaskIDs :
          Create(id) \/ Destroy(id) \/ OpenStream(id) \/ HeadPacket(id) \/ Chained(id)

Spec == Init /\ [][Next]_vars

\* A START stays in the queue until the host takes it out: start_up calls
\* task_create for an idle task again and again.
StartedSpec == Spec /\ WF_vars(Working) /\ WF_vars(\E id \in TaskIDs : Create(id))

-----------------------------------------------------------------------------
Pointer(size) == {p \in live \cup {NULL} : p # NULL => p.size = size}

TypeOK ==
    /\ Heap!TypeOK
    /\ op \in {"loop", "create", "destroy", "stream", "clear", "head", "chain"}
    /\ task \in TaskIDs
    /\ Len(todo) <= 6 /\ Len(got) <= 3 /\ lacing \in BOOLEAN
    /\ \A id \in TaskIDs : op # "destroy" \/ id # task =>
          /\ ctx[id].task_status \in {"TASK_IDLE", "TASK_WORK"}
          /\ ctx[id].stream_init \in BOOLEAN
          /\ ctx[id].in_buf       \in Pointer(HandleSize)
          /\ ctx[id].out_buf      \in Pointer(HandleSize)
          /\ ctx[id].priv_context \in Pointer(ContextSize)
          /\ ctx[id].body_data    \in Pointer(BodySize)
          /\ ctx[id].granule_vals \in Pointer(GranuleSize)
          /\ ctx[id].st           \in Pointer(DecoderSize)

\* A working task has both its buffers: task_process uses them unchecked, and
\* task_create does not look at what os_buffer_open returned.  It relies on
\* the heap: when it has no block left for a handle, it has none for the much
\* bigger context either.
WorkHasBuffers ==
    \A id \in TaskIDs : ctx[id].task_status = "TASK_WORK" =>
        ctx[id].in_buf # NULL /\ ctx[id].out_buf # NULL /\ ctx[id].priv_context # NULL

NonNull(pointers) == {pointers[i] : i \in DOMAIN pointers} \ {NULL}

\* The blocks a task owns, apart from the one a call is about to change.
Owned(id) == NonNull(IF op = "destroy" /\ id = task THEN todo ELSE Pointers(ctx[id]))

\* Blocks a call in progress has in hand and no context points to.
InHand == NonNull(IF op \in {"create", "stream", "head"} THEN got
                  ELSE IF op \in {"clear", "chain"} THEN todo ELSE <<>>)

\* No two tasks use the same memory, and none uses memory it gave back.
OwnedOnce ==
    /\ \A id \in TaskIDs : Owned(id) \subseteq live /\ Owned(id) \cap InHand = {}
    /\ \A i, j \in TaskIDs : i # j => Owned(i) \cap Owned(j) = {}

\* Handed out by the heap, and reachable from nowhere.
Orphans == live \ (InHand \cup UNION {Owned(id) : id \in TaskIDs})

\* Memory is only lost in a task_create that fails, and then it is exactly the
\* two handles: no stop, no chained stream and no failed allocation in a decode
\* loses any, in whatever order the calls come.
OrphansOnlyFromFailure ==
    [][\/ Orphans' = Orphans
       \/ /\ op = "create" /\ op' = "loop" /\ ~ Created
          /\ Orphans' = Orphans \cup (InHand \cap Heap!Blocks)]_vars

\* The contexts use the heap as its interface allows: every block given back was
\* handed out, at most once, and what os_free is given apart from those, the
\* static table, lies outside the pool and is turned away.
IsHeapClient == Heap!Spec

\* What is given back is storage the caller got from os_malloc: as the comment
\* of ogg_stream_clear has it, the storage within the stream that is not flat.
FreesOnlyGranted ==
    op \in {"destroy", "clear", "chain"} /\ todo # <<>> => Freed \in live \cup {NULL}

\* A START of a decoder the build registers gets it to work.  It does not: as
\* built the table has one entry, the loop of find_register_decoder has no
\* iteration, and each failed task_create uses up two more blocks of the heap.
DecoderStarts == <>(\E id \in TaskIDs : ctx[id].task_status = "TASK_WORK")
=============================================================================
