------------------------------- MODULE YPipe -------------------------------
(***************************************************************************)
(* YPipeT, YQueueT and AtomicPtrT of mysdk/base: the lock-free pipe        *)
(* between the threads that execute SQL later and the DBWorkerThread. One  *)
(* thread writes and one reads; they meet on the atomic pointer c and on   *)
(* the spare chunk.                                                        *)
(*                                                                         *)
(* A pointer to a slot is its position in the order the slots were pushed; *)
(* the chunk that holds a position is a piece of memory that is used again *)
(* for another position, at malloc's choice or as the spare chunk.         *)
(***************************************************************************)
EXTENDS Integers, Sequences

CONSTANTS
    ChunkSize,  \* N
    Chunk,      \* pieces of memory malloc may give
    MaxWrites   \* bound: calls of write

NULL == -1
NoChunk == "no chunk"
NoItem == 0

ASSUME PipeAssumption ==
    /\ ChunkSize \in Nat \ {0, 1} /\ MaxWrites \in Nat
    /\ NoChunk \notin Chunk

VARIABLES
    back,      \* back(): the terminator, writer only
    w, f,      \* first slot not flushed, first slot not to be flushed; writer only
    flushing,  \* the writer's cas found the reader asleep and c is still to be set
    front,     \* front(), reader only
    r,         \* first slot not prefetched, reader only
    readable,  \* the reader's check_read returned true
    c,         \* the slot past the last flushed one; NULL: the reader is asleep
    held,      \* chunk number -> memory, for the chunks of the queue
    spare,     \* spare_chunk
    cell,      \* memory and index -> item
    written,   \* the items of slots 0..back - 1
    got,       \* the items read
    writes

pipeVars == <<back, w, f, flushing, front, r, readable, c, held, spare, cell, written, got, writes>>

ChunkNo(pos) == pos \div ChunkSize
Cell(pos) == <<held[ChunkNo(pos)], pos % ChunkSize>>
InUse == {held[n] : n \in DOMAIN held} \cup {spare}

PipeInit ==
    /\ back = 0 /\ w = 0 /\ f = 0 /\ flushing = FALSE
    /\ front = 0 /\ r = 0 /\ readable = FALSE /\ c = 0
    /\ \E m \in Chunk : held = [n \in {0} |-> m]
    /\ spare = NoChunk
    /\ cell = [at \in Chunk \X (0 .. ChunkSize - 1) |-> NoItem]
    /\ written = <<>> /\ got = <<>> /\ writes = 0

-----------------------------------------------------------------------------
(* The writer                                                               *)

\* AtomicPtrT: its operations are single steps.
Cas(cmp, val) == c' = IF c = cmp THEN val ELSE c
Xchg(val) == spare' = val

\* A push makes the slot after the terminator: when that begins a chunk, the
\* spare one is taken, or a new one.
PushTo(pos) ==
    IF pos % ChunkSize # 0 THEN UNCHANGED <<held, spare>>
    ELSE \E m \in IF spare # NoChunk THEN {spare} ELSE Chunk \ InUse :
            /\ held' = [n \in (DOMAIN held) \cup {ChunkNo(pos)} |->
                           IF n \in DOMAIN held THEN held[n] ELSE m]
            /\ Xchg(NoChunk)

\* The item goes into the terminator's slot and there is a new terminator.
Write(incomplete) ==
    /\ ~flushing /\ writes < MaxWrites
    /\ writes' = writes + 1
    /\ cell' = [cell EXCEPT ![Cell(back)] = writes']
    /\ written' = Append(written, writes')
    /\ back' = back + 1
    /\ f' = IF incomplete THEN f ELSE back'
    /\ PushTo(back + 2)
    /\ UNCHANGED <<w, flushing, front, r, readable, c, got>>

\* The memory of the slot after the terminator goes back to malloc.
UnpushFrom(pos) ==
    /\ held' = IF pos % ChunkSize # 0 THEN held
               ELSE [n \in (DOMAIN held) \ {ChunkNo(pos)} |-> held[n]]
    /\ UNCHANGED spare

Unwrite ==
    /\ ~flushing /\ f # back
    /\ back' = back - 1
    /\ written' = SubSeq(written, 1, back - 1)
    /\ UnpushFrom(back + 1)
    /\ UNCHANGED <<w, f, flushing, front, r, readable, c, cell, got, writes>>

\* A flush that relies on the reader to look again.
FlushAndHope ==
    /\ ~flushing /\ w # f
    /\ Cas(w, f) /\ w' = f /\ flushing' = FALSE
    /\ UNCHANGED <<back, f, front, r, readable, held, spare, cell, written, got, writes>>

\* flush: one cas, and a plain store if it failed.
Flush ==
    /\ ~flushing /\ w # f
    /\ Cas(w, f)
    /\ IF c = w THEN w' = f /\ UNCHANGED flushing ELSE flushing' = TRUE /\ UNCHANGED w
    /\ UNCHANGED <<back, f, front, r, readable, held, spare, cell, written, got, writes>>

FlushToSleeper ==
    /\ flushing
    /\ c' = f /\ w' = f /\ flushing' = FALSE
    /\ UNCHANGED <<back, f, front, r, readable, held, spare, cell, written, got, writes>>

-----------------------------------------------------------------------------
(* The reader                                                               *)

\* check_read: what was prefetched, or a cas that leaves NULL in an empty
\* pipe. It may be called again and again while the pipe is empty.
CheckRead ==
    /\ ~readable
    /\ IF front # r /\ r # NULL
       THEN readable' = TRUE /\ UNCHANGED <<r, c>>
       ELSE /\ r' = c /\ Cas(front, NULL)
            /\ readable' = (c # front /\ c # NULL)
    /\ UNCHANGED <<back, w, f, flushing, front, held, spare, cell, written, got, writes>>

\* A pop that finishes a chunk makes it the spare one and frees the last.
PopFrom(pos) ==
    IF (pos + 1) % ChunkSize # 0 THEN UNCHANGED <<held, spare>>
    ELSE /\ Xchg(held[ChunkNo(pos)])
         /\ held' = [n \in (DOMAIN held) \ {ChunkNo(pos)} |-> held[n]]

Read ==
    /\ readable
    /\ got' = Append(got, cell[Cell(front)])
    /\ front' = front + 1
    /\ PopFrom(front)
    /\ readable' = FALSE
    /\ UNCHANGED <<back, w, f, flushing, r, c, cell, written, writes>>

PipeNext ==
    \/ \E incomplete \in BOOLEAN : Write(incomplete)
    \/ Unwrite \/ Flush \/ FlushToSleeper \/ CheckRead \/ Read

PipeSpec == PipeInit /\ [][PipeNext]_pipeVars

-----------------------------------------------------------------------------
(* What must hold                                                           *)

\* The reader gets what was flushed, in order, whatever memory was used again
\* meanwhile and however its polls meet the flushes; and a reader that found
\* the pipe empty has read all that was flushed, unless the writer knows.
PipeDelivers ==
    /\ Len(got) <= w
    /\ got = SubSeq(written, 1, Len(got))
    /\ c = NULL /\ ~flushing => Len(got) = w

\* A flush puts its items in one step, where it sets the atomic pointer, and a read
\* takes one; what is written and not flushed, or taken back, was never put.
Flushed == SubSeq(written, Len(got) + 1, w)
PipeHanded == INSTANCE Handover WITH waiting <- Flushed, passed <- got, LastItem <- NULL
PipeHandsOver == PipeHanded!Spec
=============================================================================
